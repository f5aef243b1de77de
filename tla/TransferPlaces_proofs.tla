------------------------ MODULE TransferPlaces_proofs ------------------------
(***************************************************************************)
(* The descriptors, connections and places of the file transfer server:    *)
(* two threads use no descriptor in common, the server closes no           *)
(* connection on a client, and its count is the number of threads, for     *)
(* every number of clients, files, ports and descriptors and every limit.  *)
(* The first two hold whatever fails and whoever dies, when main takes no  *)
(* time-out for a connection; the count, as long as nobody dies. As long   *)
(* as no two transfers under way have the same port, the server besides    *)
(* keeps no descriptor it has no use for, and says "done" when every file  *)
(* has arrived, however many clients it serves at once.  Last, the server  *)
(* implements TransferService: the lossy one whatever fails, the one that  *)
(* passes no file over while ports are not shared.                         *)
(***************************************************************************)
EXTENDS TransferServer_proofs, FiniteSetTheorems

-------------------------------------------------------------------------------
LEMMA IInvApart == IInv => DescriptorsApart
<1> SUFFICES ASSUME IInv, NEW h \in Live, NEW g \in Live, h # g PROVE Uses(h) \cap Uses(g) = {}
  BY DEF DescriptorsApart
<1>1. ASSUME NEW k \in Live
      PROVE  (k \in Working /\ Uses(k) = Own(threads[k])) \/ Uses(k) = {}
  <2>1. k \in DOMAIN threads /\ threads[k] \in ThreadState /\ threads[k].pc # "ended"
    BY ThreadFacts DEF Live, IInv, Types
  <2>2. threads[k].pc \in {"recv", "listen", "accept", "send", "md5", "next", "stop"}
    BY <2>1 DEF ThreadState
  <2> QED
    BY <2>1, <2>2 DEF Working, Uses, Own, Offering
<1> QED
  BY <1>1, ApartFacts

\* DescriptorsApart of the runs, for every number of clients, files, ports and
\* descriptors: a thread uses, and so closes, no descriptor of another one
\* (server.cpp 224-225, 254, 331, 339), whatever it or others left open or closed, when
\* files cannot be sent, ports are granted twice and clients die, as long as main
\* passes no thread the 0 of a time-out (server.cpp 445) for a connection.
THEOREM ApartHolds == "idle" \notin Faults => (Spec => []DescriptorsApart)
<1> SUFFICES ASSUME "idle" \notin Faults PROVE Spec => []DescriptorsApart
  OBVIOUS
<1> QED
  BY IInvInit, NextKeeps, IInvApart, PTL DEF Spec
-------------------------------------------------------------------------------
(***************************************************************************)
(* A client that talks has its connection, accepted or not; only one that  *)
(* has said goodbye has asked for the end of it.                           *)
(***************************************************************************)
Talking == {"prompt", "waiting", "data"}
Goodbye == {<<"exit">>, <<"shutdown">>}

Kept(c) == (\E i \in DOMAIN backlog : backlog[i] = c) \/ \E d \in DOMAIN fds : fds[d] = Conn(c)

KeptInv ==
  /\ \A c \in Client : client[c].inbox \in Goodbye => ~Alive(c)
  /\ ~server_shutdown => \A c \in Client : client[c].pc \in Talking => Kept(c)
\* A message to a client changes nothing of what it is doing.
LEMMA SendSame ==
  ASSUME Types, NEW h \in DOMAIN threads, NEW m \in Msg, NEW peers \in [Client -> ClientState],
         SendFrom(peers, h, m)
  PROVE  \A b \in Client : client'[b].pc = peers[b].pc /\ client'[b].inbox = peers[b].inbox
<1> QED
  BY SendFacts DEF Gets

LEMMA Messages ==
  ASSUME Types, NEW h \in DOMAIN threads
  PROVE  /\ Message("file:", threads[h].file, threads[h].port) \in Msg
         /\ Message("md5sum:", threads[h].file, 0) \in Msg
         /\ Message("done", 0, 0) \in Msg /\ Message("error:", 0, 0) \in Msg
<1>1. threads[h].file \in 1 .. Files /\ threads[h].port \in Port \cup {NoPort}
  BY ThreadFacts DEF Types, ThreadState
<1>2. Port \subseteq Int /\ NoPort \in Int /\ 1 .. Files \subseteq Int
  BY TransferAssumption DEF NoPort
<1>3. threads[h].file \in Int /\ threads[h].port \in Int
  BY <1>1, <1>2
<1> QED
  BY <1>3 DEF Message, Msg, Kind

\* A thread takes commands, and moves no client on.
LEMMA ThreadClients ==
  ASSUME Types, NEW h \in DOMAIN threads, ThreadStep(h)
  PROVE  \A b \in Client : client'[b].pc = client[b].pc /\ client'[b].inbox \in {<<>>, client[b].inbox}
<1>1. client \in [Client -> ClientState]
  BY DEF Types, ClientTypes
<1>2. CASE client' = client
  BY <1>2
<1>3. CASE ReceiveGet(h) \/ ReceiveBad(h) \/ ReceiveExit(h) \/ ReceiveShutdown(h)
  <2>1. Serves(h) # NoClient
    BY <1>3 DEF ReceiveGet, ReceiveBad, ReceiveExit, ReceiveShutdown, Receive
  <2>2. /\ Taken(h) \in [Client -> ClientState]
        /\ \A b \in Client : Taken(h)[b].pc = client[b].pc /\ Taken(h)[b].inbox \in {<<>>, client[b].inbox}
    BY <2>1, TakenFacts
  <2>3. client' = Taken(h) \/ SendFrom(Taken(h), h, Message("error:", 0, 0))
    BY <1>3 DEF ReceiveGet, ReceiveBad, ReceiveExit, ReceiveShutdown
  <2> QED
    BY <2>2, <2>3, SendSame, Messages
<1>4. CASE Announce(h) \/ SendMd5(h) \/ NextFile(h)
  <2>1. client' = client \/ \E m \in Msg : SendFrom(client, h, m)
    BY <1>4, Messages DEF Announce, SendMd5, NextFile, Send
  <2> QED
    BY <1>1, <2>1, SendSame
<1>5. CASE SendFile(h)
  BY <1>1, <1>5 DEF SendFile
<1> QED
  BY <1>2, <1>3, <1>4, <1>5
     DEF ThreadStep, StopAccepting, ReceiveNothing, ReceiveFails, AnnounceFails, AcceptData,
         AcceptDataFails, SendFileFails

\* It closes no connection but its own, when it ends.
LEMMA ThreadConns ==
  ASSUME IInv, NEW h \in DOMAIN threads, ThreadStep(h)
  PROVE  \A d \in DOMAIN fds : fds[d].kind = "conn" =>
           \/ d \in DOMAIN fds' /\ fds'[d] = fds[d]
           \/ /\ h \in Working /\ d = threads[h].sock
              /\ ReceiveExit(h) \/ ReceiveShutdown(h) \/ ReceiveFails(h)
<1>1. DOMAIN fds = 0 .. Descriptors
  BY DEF IInv, Types, TableTypes
<1>2. \A d \in DOMAIN fds : fds[d].kind # "closed" => d # Lowest
  BY <1>1, LowestFacts DEF IInv, Types
<1>3. CASE fds' = fds \/ \E f : fds' = [fds EXCEPT ![Lowest] = f]
  BY <1>2, <1>3
<1>4. CASE ReceiveExit(h) \/ ReceiveShutdown(h) \/ ReceiveFails(h)
  <2>1. Close({threads[h].sock}) /\ h \in Working
    BY <1>4 DEF ReceiveExit, ReceiveShutdown, ReceiveFails, Receive, At, Working
  <2> QED
    BY <1>4, <2>1 DEF Close
<1>5. CASE AcceptData(h) /\ Lowest # -1
  <2> DEFINE l == threads[h].lsock
  <2>1. fds[l].kind = "listen" /\ fds' = [fds EXCEPT ![l].queue = Tail(@), ![Lowest] = Data(Head(fds[l].queue))]
    BY <1>5 DEF AcceptData, Is
  <2> HIDE DEF l
  <2> QED
    BY <1>2, <2>1
<1>6. CASE SendFile(h)
  <2>1. h \in Working /\ threads[h].pc = "send"
    BY <1>6 DEF SendFile, At, Working
  <2>2. fds[threads[h].lsock].kind = "listen" /\ fds[threads[h].tsock].kind = "data"
    <3>1. Holds(threads[h], fds)
      BY <2>1, PeerFacts
    <3> QED
      BY <2>1, <3>1 DEF Holds, Offering, Data
  <2> QED
    BY <1>6, <2>2 DEF SendFile, Close
<1> QED
  BY <1>3, <1>4, <1>5, <1>6
     DEF ThreadStep, ReceiveGet, ReceiveBad, StopAccepting, ReceiveNothing, Announce, AnnounceFails, AcceptData,
         AcceptDataFails, SendFileFails, SendMd5, NextFile
\* A client asks for the end only as it leaves, and comes back from nowhere.
LEMMA ClientPaces ==
  ASSUME Types, NEW c \in Client,
         \/ Connect(c) \/ Reading(c) \/ Leave(c)
         \/ (\E cmd \in Commands : Ask(c, cmd)) /\ UNCHANGED <<fds, backlog, Others>>
  PROVE  /\ \A b \in Client : b # c => client'[b] = client[b]
         /\ client'[c].inbox = client[c].inbox \/ client'[c].inbox \notin Goodbye \/ ~Alive(c)'
         /\ Alive(c)' => Alive(c)
         /\ client'[c].pc \in Talking => client[c].pc \in Talking \/ Connect(c)
<1>1. client \in [Client -> ClientState] /\ client[c] \in ClientState
  BY DEF Types, ClientTypes
<1>2. ASSUME NEW q, client' = [client EXCEPT ![c] = q]
      PROVE  client'[c] = q /\ \A b \in Client : b # c => client'[b] = client[b]
  BY <1>1, <1>2
<1> USE DEF Alive, Talking
<1>3. CASE Connect(c)
  BY <1>1, <1>3 DEF Connect, ClientState
<1>4. CASE Leave(c) \/ DataLost(c) \/ EndOfStream(c)
  <2>1. \/ Die(c) /\ client[c].pc \notin {"gone", "crashed"}
        \/ /\ \E pc \in {"gone", "waiting", "spins"} : client' = [client EXCEPT ![c].pc = pc]
           /\ client[c].pc \in Talking
    BY <1>4 DEF Leave, DataLost, EndOfStream
  <2>2. CASE Die(c) /\ client[c].pc \notin {"gone", "crashed"}
    BY <1>1, <1>2, <2>2, DeadFacts DEF Die
  <2>3. ASSUME NEW pc \in {"gone", "waiting", "spins"}, client' = [client EXCEPT ![c].pc = pc], client[c].pc \in Talking
        PROVE  /\ client'[c].inbox = client[c].inbox /\ client'[c].pc = pc
               /\ \A b \in Client : b # c => client'[b] = client[b]
    BY <1>1, <2>3 DEF ClientState
  <2> QED
    BY <2>1, <2>2, <2>3
<1>5. ASSUME NEW cmd \in Commands, Ask(c, cmd)
      PROVE  /\ \A b \in Client : b # c => client'[b] = client[b]
             /\ client'[c].inbox = <<cmd>> /\ client[c].pc = "prompt"
             /\ client'[c].pc = IF cmd \in {"exit", "shutdown"} THEN "gone" ELSE "waiting"
  BY <1>1, <1>5 DEF Ask, ClientState
<1>6. \A cmd \in Commands : cmd \notin {"exit", "shutdown"} => <<cmd>> \notin Goodbye
  BY DEF Goodbye
<1>7. CASE TakeFile(c)
  <2>1. PICK r \in MayRead(c) : \E t :
          /\ t = [Heard(c, r) EXCEPT !.told = Line(r).file]
          /\ \/ client' = [client EXCEPT ![c] = t]
             \/ client' = [client EXCEPT ![c] = [t EXCEPT !.pc = "data", !.data = NoData]]
    BY <1>7 DEF TakeFile
  <2>2. Heard(c, r) \in ClientState /\ Heard(c, r).inbox = client[c].inbox /\ client[c].pc = "waiting"
    BY HeardFacts, MayReadFacts DEF Types
  <2>0. PICK t :
          /\ t = [Heard(c, r) EXCEPT !.told = Line(r).file]
          /\ \/ client' = [client EXCEPT ![c] = t]
             \/ client' = [client EXCEPT ![c] = [t EXCEPT !.pc = "data", !.data = NoData]]
    BY <2>1
  <2>3. t.inbox = client[c].inbox /\ DOMAIN t = DOMAIN Heard(c, r)
    BY <2>0, <2>2 DEF ClientState
  <2>4. [t EXCEPT !.pc = "data", !.data = NoData].inbox = client[c].inbox
    BY <2>0, <2>2 DEF ClientState
  <2> QED
    BY <1>2, <2>0, <2>2, <2>3, <2>4
<1>8. CASE Hear(c) \/ Fail(c)
  <2>0. PICK r \in MayRead(c) : \E q :
          /\ client' = [client EXCEPT ![c] = q]
          /\ q = Dead(Heard(c, r)) \/ \E pc \in {"prompt", "waiting"} : q = [Heard(c, r) EXCEPT !.pc = pc]
    BY <1>8 DEF Hear, Fail
  <2>1. PICK q :
          /\ client' = [client EXCEPT ![c] = q]
          /\ q = Dead(Heard(c, r)) \/ \E pc \in {"prompt", "waiting"} : q = [Heard(c, r) EXCEPT !.pc = pc]
    BY <2>0
  <2>2. Heard(c, r) \in ClientState /\ Heard(c, r).inbox = client[c].inbox /\ client[c].pc = "waiting"
    BY HeardFacts, MayReadFacts DEF Types
  <2>3. q.inbox = client[c].inbox
    BY <2>1, <2>2, DeadFacts DEF ClientState
  <2> QED
    BY <1>2, <2>1, <2>2, <2>3
<1>9. CASE EndOfData(c)
  <2> DEFINE q == [client[c] EXCEPT !.pc = "waiting", !.got = @ \cup {client[c].data.file}]
  <2>1. q.inbox = client[c].inbox /\ q.pc = "waiting" /\ client[c].pc = "data" /\ client' = [client EXCEPT ![c] = q]
    BY <1>1, <1>9 DEF EndOfData, ClientState
  <2> HIDE DEF q
  <2> QED
    BY <1>2, <2>1
<1> QED
  BY <1>3, <1>4, <1>5, <1>6, <1>7, <1>8, <1>9 DEF Reading

LEMMA MainKept ==
  ASSUME IInv, MainStep, NEW c \in Client, Kept(c)
  PROVE  Kept(c)'
<1>1. CASE UNCHANGED <<fds, backlog>>
  BY <1>1 DEF Kept
<1>2. CASE Accept /\ Lowest # -1
  <2>1. fds' = [fds EXCEPT ![Lowest] = Conn(Head(backlog))] /\ backlog' = Tail(backlog) /\ backlog # <<>>
    BY <1>2 DEF Accept
  <2>2. backlog \in Seq(Client) /\ DOMAIN fds = 0 .. Descriptors
    BY DEF IInv, Types, TableTypes
  <2>3. Lowest \in DOMAIN fds /\ fds[Lowest].kind = "closed"
    BY <1>2, <2>2, LowestFacts DEF IInv, Types
  <2>4. CASE \E d \in DOMAIN fds : fds[d] = Conn(c)
    <3>1. PICK d \in DOMAIN fds : fds[d] = Conn(c)
      BY <2>4
    <3>2. d # Lowest
      BY <2>3, <3>1 DEF Conn
    <3> QED
      BY <2>1, <3>1, <3>2 DEF Kept
  <2>5. ASSUME NEW i \in DOMAIN backlog, backlog[i] = c PROVE Kept(c)'
    <3>1. CASE i = 1
      <4>1. Head(backlog) = c
        BY <2>1, <2>2, <2>5, <3>1, HeadTailProperties
      <4> QED
        BY <2>1, <2>3, <4>1 DEF Kept
    <3>2. CASE i # 1
      <4>1. Len(backlog) \in Nat /\ i \in 1 .. Len(backlog) /\ Tail(backlog) \in Seq(Client)
            /\ Len(Tail(backlog)) = Len(backlog) - 1
            /\ \A j \in 1 .. Len(Tail(backlog)) : Tail(backlog)[j] = backlog[j + 1]
        BY <2>1, <2>2, <2>5, HeadTailProperties, LenProperties
      <4>2. DOMAIN Tail(backlog) = 1 .. Len(backlog) - 1
        BY <4>1, LenProperties
      <4>3. i - 1 \in 1 .. Len(backlog) - 1 /\ (i - 1) + 1 = i
        BY <3>2, <4>1
      <4>4. Tail(backlog)[i - 1] = c
        BY <2>5, <4>1, <4>3
      <4> QED
        BY <2>1, <4>2, <4>3, <4>4 DEF Kept
    <3> QED
      BY <3>1, <3>2
  <2> QED
    BY <2>4, <2>5 DEF Kept
<1> QED
  BY <1>1, <1>2 DEF MainStep, Loop, Accept, AcceptTimesOut, Admit, Spawn

LEMMA ClientKept ==
  ASSUME IInv, NEW c \in Client,
         \/ Connect(c) \/ Reading(c) \/ Leave(c)
         \/ (\E cmd \in Commands : Ask(c, cmd)) /\ UNCHANGED <<fds, backlog, Others>>
  PROVE  \A b \in Client : Kept(b) \/ (b = c /\ Connect(c)) => Kept(b)'
<1>1. backlog \in Seq(Client)
  BY DEF IInv, Types, TableTypes
<1>2. CASE UNCHANGED <<fds, backlog>> /\ ~Connect(c)
  BY <1>2 DEF Kept
<1>3. CASE Connect(c)
  <2>1. fds' = fds /\ backlog' = Append(backlog, c)
    BY <1>3 DEF Connect, Others
  <2>2. /\ Append(backlog, c) \in Seq(Client) /\ Len(Append(backlog, c)) = Len(backlog) + 1
        /\ \A i \in 1 .. Len(backlog) : Append(backlog, c)[i] = backlog[i]
        /\ Append(backlog, c)[Len(backlog) + 1] = c
    BY <1>1, AppendProperties
  <2>3. Len(backlog) \in Nat /\ DOMAIN backlog = 1 .. Len(backlog) /\ DOMAIN backlog' = 1 .. Len(backlog) + 1
    BY <1>1, <2>1, <2>2, LenProperties
  <2>4. Len(backlog) + 1 \in DOMAIN backlog' /\ DOMAIN backlog \subseteq DOMAIN backlog'
    BY <2>3
  <2> QED
    BY <2>1, <2>2, <2>3, <2>4 DEF Kept
<1>4. CASE TakeFile(c)
  <2>1. backlog' = backlog /\ DOMAIN fds' = DOMAIN fds
        /\ \A d \in DOMAIN fds : fds[d].kind # "listen" => fds'[d] = fds[d]
    BY <1>4 DEF TakeFile, Listeners, Is
  <2>2. \A b : Conn(b).kind # "listen"
    BY DEF Conn
  <2>3. client[c].pc # "away"
    BY <1>4 DEF TakeFile, MayRead
  <2>4. ~Connect(c)
    BY <2>3 DEF Connect
  <2> QED
    BY <2>1, <2>2, <2>4 DEF Kept
<1> QED
  BY <1>2, <1>3, <1>4 DEF Reading, DataLost, EndOfStream, Leave

\* Only a thread whose client has left closes the connection of a client.
LEMMA ThreadKept ==
  ASSUME IInv, KeptInv, NEW h \in DOMAIN threads, ThreadStep(h), NEW c \in Client, Kept(c), Alive(c)
  PROVE  Kept(c)'
<1>1. backlog' = backlog
  BY DEF ThreadStep, ReceiveGet, ReceiveBad, ReceiveExit, ReceiveShutdown, StopAccepting, ReceiveNothing, ReceiveFails,
     Announce, AnnounceFails, AcceptData, AcceptDataFails, SendFile, SendFileFails, SendMd5, NextFile
<1>2. CASE \E i \in DOMAIN backlog : backlog[i] = c
  BY <1>1, <1>2 DEF Kept
<1>3. ASSUME NEW d \in DOMAIN fds, fds[d] = Conn(c) PROVE Kept(c)'
  <2>1. fds[d].kind = "conn" /\ fds[d].peer = c
    BY <1>3 DEF Conn
  <2>2. ASSUME h \in Working, d = threads[h].sock, ReceiveExit(h) \/ ReceiveShutdown(h) \/ ReceiveFails(h) PROVE FALSE
    <3>1. Serves(h) = c /\ Is(d, "conn")
      BY <2>1, <2>2 DEF Serves, Is
    <3>2. CASE ReceiveExit(h) \/ ReceiveShutdown(h)
      <4>1. client[c].inbox \in Goodbye
        BY <3>1, <3>2 DEF ReceiveExit, ReceiveShutdown, Receive, Goodbye
      <4> QED
        BY <4>1 DEF KeptInv
    <3>3. CASE ReceiveFails(h)
      BY <2>1, <2>2, <3>1, <3>3 DEF ReceiveFails
    <3> QED
      BY <2>2, <3>2, <3>3
  <2>3. d \in DOMAIN fds' /\ fds'[d] = fds[d]
    BY <2>1, <2>2, ThreadConns
  <2> QED
    BY <1>3, <2>3 DEF Kept
<1> QED
  BY <1>2, <1>3 DEF Kept

LEMMA ShutdownStays ==
  ASSUME [Next]_vars, server_shutdown PROVE server_shutdown'
<1>1. \A h \in DOMAIN threads : ThreadStep(h) => server_shutdown'
  BY DEF ThreadStep, ReceiveGet, ReceiveBad, ReceiveExit, ReceiveShutdown, StopAccepting, ReceiveNothing, ReceiveFails,
     Announce, AnnounceFails, AcceptData, AcceptDataFails, SendFile, SendFileFails, SendMd5, NextFile
<1>2. MainStep => server_shutdown'
  BY DEF MainStep, Loop, Accept, AcceptTimesOut, Admit, Spawn
<1>3. \A c \in Client : Connect(c) \/ Reading(c) \/ Leave(c) => server_shutdown'
  BY DEF Connect, Reading, TakeFile, DataLost, EndOfStream, Leave, Others
<1> QED
  BY <1>1, <1>2, <1>3 DEF Next, Others, Expire, vars

LEMMA KeptKept ==
  ASSUME IInv, KeptInv, [Next]_vars
  PROVE  KeptInv'
<1>0. ~server_shutdown' => ~server_shutdown
  BY ShutdownStays
<1>1. CASE MainStep
  <2>1. client' = client
    BY <1>1 DEF MainStep, Loop, Accept, AcceptTimesOut, Admit, Spawn
  <2> QED
    BY <1>0, <1>1, <2>1, MainKept DEF KeptInv, Alive
<1>2. ASSUME NEW h \in DOMAIN threads, ThreadStep(h) PROVE KeptInv'
  <2>1. \A b \in Client : client'[b].pc = client[b].pc /\ client'[b].inbox \in {<<>>, client[b].inbox}
    BY <1>2, ThreadClients DEF IInv
  <2>2. <<>> \notin Goodbye
    BY DEF Goodbye
  <2>3. \A b \in Client : client[b].pc \in Talking => Alive(b)
    BY DEF Talking, Alive
  <2>4. \A b \in Client : Alive(b) /\ Kept(b) => Kept(b)'
    BY <1>2, ThreadKept
  <2> QED
    BY <1>0, <2>1, <2>2, <2>3, <2>4 DEF KeptInv, Alive
<1>3. ASSUME NEW c \in Client, \/ Connect(c) \/ Reading(c) \/ Leave(c)
                               \/ (\E cmd \in Commands : Ask(c, cmd)) /\ UNCHANGED <<fds, backlog, Others>>
      PROVE  KeptInv'
  <2>1. /\ \A b \in Client : b # c => client'[b] = client[b]
        /\ client'[c].inbox = client[c].inbox \/ client'[c].inbox \notin Goodbye \/ ~Alive(c)'
        /\ Alive(c)' => Alive(c)
        /\ client'[c].pc \in Talking => client[c].pc \in Talking \/ Connect(c)
    BY <1>3, ClientPaces DEF IInv
  <2>2. \A b \in Client : Kept(b) \/ (b = c /\ Connect(c)) => Kept(b)'
    BY <1>3, ClientKept
  <2> QED
    BY <1>0, <2>1, <2>2 DEF KeptInv, Alive
<1>4. CASE UNCHANGED vars \/ \E p \in Port : Expire(p)
  <2>1. UNCHANGED <<fds, backlog, client, server_shutdown>>
    BY <1>4 DEF vars, Expire
  <2> QED
    BY <2>1 DEF KeptInv, Kept, Alive
<1> QED
  BY <1>1, <1>2, <1>3, <1>4 DEF Next

LEMMA KeptInit == Init => KeptInv
  BY DEF Init, ClientInit, KeptInv, Goodbye, Talking

\* ConnectionKept of the runs, for every number of clients, files, ports and
\* descriptors: until a shutdown no thread closes the connection of a client that
\* has not said goodbye, so Read (Program.cs 143) does not return 0. A thread
\* closes a connection after "exit" and "shutdown", or when recv fails
\* (server.cpp 254, 331, 339), and a data connection or a listener after a file,
\* by numbers that others could have taken; whatever fails and whoever dies they
\* are its own, as long as main passes no thread the 0 of a time-out (445).
THEOREM ConnectionsStay == "idle" \notin Faults => (Spec => []ConnectionKept)
<1> SUFFICES ASSUME "idle" \notin Faults PROVE Spec => []ConnectionKept
  OBVIOUS
<1>1. Init => IInv /\ KeptInv
  BY IInvInit, KeptInit
<1>2. IInv /\ KeptInv /\ [Next]_vars => (IInv /\ KeptInv)'
  BY NextKeeps, KeptKept
<1>3. IInv /\ KeptInv => ConnectionKept
  BY DEF IInv, Types, MainTypes, KeptInv, Kept, ConnectionKept, Connected, Talking
<1> QED
  BY <1>1, <1>2, <1>3, PTL DEF Spec
-------------------------------------------------------------------------------
(***************************************************************************)
(* The places.  Nobody dies in the middle of a conversation, and there is  *)
(* a port for every client: then the count is never below the threads, and *)
(* main, which is about to accept, has left room for one.                  *)
(***************************************************************************)
Mild ==
  /\ Faults \subseteq {"hangup", "file", "expire"}
  /\ IsFiniteSet(Client) /\ IsFiniteSet(Port) /\ Cardinality(Client) <= Cardinality(Port)

Admitted == IF main.pc = "admitted" THEN 1 ELSE 0
Room     == IF main.pc \in {"accept", "accepted"} THEN 1 ELSE 0
CountInv ==
  /\ counter >= Cardinality(Live) + Admitted
  /\ "hangup" \notin Faults => counter = Cardinality(Live) + Admitted
  /\ counter + Room <= Limit

\* No connection breaks: a client that has asked for something is there to hear it,
\* and, unless they hang up, so is one that has not.
AliveInv ==
  /\ \A c \in Client : ~client[c].broken
  /\ \A c \in Client : client[c].inbox \in {<<"get">>, <<"bad">>} => Alive(c)
  /\ \A h \in Working : threads[h].pc \in Sending => Alive(Serves(h))
  /\ "hangup" \notin Faults =>
       /\ \A d \in DOMAIN fds : fds[d].kind = "conn" => Alive(fds[d].peer) \/ client[fds[d].peer].inbox # <<>>
       /\ \A i \in DOMAIN backlog : Alive(backlog[i]) \/ client[backlog[i]].inbox # <<>>

\* An announcement is the last message, with a port, and its thread waits.
AnnouncedInv ==
  \A c \in Client : \A i \in DOMAIN client[c].out : client[c].out[i].type = "file:" =>
    /\ i = Len(client[c].out) /\ client[c].out[i].port # NoPort
    /\ \E h \in Working : Serves(h) = c /\ threads[h].pc = "accept"

\* A port each: no more threads than clients that have come, and none has two.
Arrived == {c \in Client : client[c].pc # "away"}
Passed  == IF main.pc \in {"accepted", "admitted"} THEN 1 ELSE 0
PortsInv ==
  /\ \A h \in Working : threads[h].port # NoPort
  /\ \A p, q \in Port : pool[p] = pool[q] /\ pool[p] # NoThread => p = q
  /\ Len(threads) + Len(backlog) + Passed <= Cardinality(Arrived)

PlacesInv == ~server_shutdown => CountInv /\ AliveInv /\ AnnouncedInv /\ PortsInv
-------------------------------------------------------------------------------
LEMMA LiveFacts ==
  ASSUME Types, ~server_shutdown
  PROVE  /\ Live = Working /\ IsFiniteSet(Live) /\ Cardinality(Live) \in Nat
         /\ main.pc # "ended"
<1>1. threads \in Seq(ThreadState) /\ \A h \in DOMAIN threads : threads[h].pc # "stop"
  BY DEF Types, ThreadTypes
<1>2. Len(threads) \in Nat /\ DOMAIN threads = 1 .. Len(threads)
  BY <1>1, LenProperties
<1>3. IsFiniteSet(DOMAIN threads)
  <2> DEFINE n == Len(threads)
  <2>1. n \in Int /\ 1 \in Int /\ DOMAIN threads = 1 .. n
    BY <1>2
  <2> HIDE DEF n
  <2> QED
    BY <2>1, FS_Interval
<1>4. Live \subseteq DOMAIN threads
  BY DEF Live
<1>5. IsFiniteSet(Live)
  BY <1>3, <1>4, FS_Subset
<1>6. Cardinality(Live) \in Nat
  BY <1>5, FS_CardinalityType
<1>7. Live = Working
  BY <1>1 DEF Live, Working
<1>8. main.pc # "ended"
  BY DEF Types, MainTypes
<1> QED
  BY <1>5, <1>6, <1>7, <1>8

LEMMA ArrivedFacts ==
  ASSUME Mild
  PROVE  /\ IsFiniteSet(Arrived) /\ Cardinality(Arrived) \in Nat /\ Cardinality(Arrived) <= Cardinality(Port)
         /\ Cardinality(Port) \in Nat
<1>1. Arrived \subseteq Client /\ IsFiniteSet(Client) /\ IsFiniteSet(Port)
  BY DEF Arrived, Mild
<1>2. IsFiniteSet(Arrived) /\ Cardinality(Arrived) <= Cardinality(Client)
  BY <1>1, FS_Subset
<1>3. Cardinality(Arrived) \in Nat /\ Cardinality(Client) \in Nat /\ Cardinality(Port) \in Nat
  BY <1>1, <1>2, FS_CardinalityType
<1> QED
  BY <1>2, <1>3 DEF Mild

\* What a thread's step leaves of who is served.
LEMMA ThreadServes ==
  ASSUME IInv, IInv', NEW h \in Working, NEW t, Becomes(h, t), ThreadStep(h),
         t.pc \notin {"stop", "ended"} => t.sock = threads[h].sock,
         ReceiveExit(h) \/ ReceiveShutdown(h) \/ ReceiveFails(h) => t.pc \in {"stop", "ended"}
  PROVE  /\ Working \ {h} \subseteq Working' /\ Working' \subseteq Working
         /\ h \in Working' <=> t.pc \notin {"stop", "ended"}
         /\ \A g \in Working' : Serves(g)' = Serves(g) /\ threads'[g].sock = threads[g].sock
<1>1. /\ Working \ {h} \subseteq Working' /\ Working' \subseteq Working
      /\ h \in Working' <=> t.pc \notin {"stop", "ended"}
      /\ \A g \in Working' : threads'[g] = IF g = h THEN t ELSE threads[g]
  BY DEF Working, Becomes
<1>2. ASSUME NEW g \in Working' PROVE Serves(g)' = Serves(g) /\ threads'[g].sock = threads[g].sock
  <2>1. g \in Working /\ threads'[g].sock = threads[g].sock
    BY <1>1
  <2>2. Serves(g) = fds[threads[g].sock].peer /\ fds[threads[g].sock].kind = "conn" /\ threads[g].sock \in DOMAIN fds
    BY <2>1, PeerFacts DEF Peer, Holds, Own, IInv, Types, TableTypes
  <2>4. fds'[threads[g].sock] = fds[threads[g].sock]
    <3>1. g # h => threads[g].sock # threads[h].sock
      BY <2>1 DEF IInv, Apart
    <3> QED
      BY <1>1, <2>2, <3>1, ThreadConns DEF Working
  <2>5. DOMAIN fds = DOMAIN fds'
    BY DEF IInv, Types, TableTypes
  <2>6. Serves(g)' = fds'[threads'[g].sock].peer
    BY <2>1, <2>2, <2>4, <2>5 DEF Serves, Is
  <2> QED
    BY <2>1, <2>2, <2>4, <2>6
<1> QED
  BY <1>1, <1>2

\* A message to a client that is there.
LEMMA SendAlive ==
  ASSUME Types, NEW h \in DOMAIN threads, NEW m \in Msg, NEW peers \in [Client -> ClientState],
         Serves(h) \in Client, Alive(Serves(h)), ~client[Serves(h)].broken, SendFrom(peers, h, m)
  PROVE  /\ counter' = counter
         /\ \A b \in Client : b # Serves(h) => client'[b] = peers[b]
         /\ client'[Serves(h)].out = Append(peers[Serves(h)].out, m)
         /\ client'[Serves(h)].broken = peers[Serves(h)].broken
<1> DEFINE c == Serves(h)
<1>1. c # NoClient /\ c \in Client
  BY ClientAssumption
<1>2. client' = [peers EXCEPT ![c].out = Append(@, m)] /\ counter' = counter
  BY <1>1 DEF SendFrom
<1>3. peers[c] \in ClientState
  BY <1>1
<1> HIDE DEF c
<1>4. client'[c].out = Append(peers[c].out, m) /\ client'[c].broken = peers[c].broken
      /\ \A b \in Client : b # c => client'[b] = peers[b]
  BY <1>1, <1>2, <1>3 DEF ClientState
<1> QED
  BY <1>2, <1>4 DEF c

LEMMA Appended ==
  ASSUME NEW s \in Seq(Msg), NEW m \in Msg
  PROVE  \A i \in DOMAIN Append(s, m) :
           \/ i \in DOMAIN s /\ Append(s, m)[i] = s[i]
           \/ i = Len(Append(s, m)) /\ Append(s, m)[i] = m
<1>1. /\ Append(s, m) \in Seq(Msg) /\ Len(Append(s, m)) = Len(s) + 1
      /\ \A i \in 1 .. Len(s) : Append(s, m)[i] = s[i]
      /\ Append(s, m)[Len(s) + 1] = m
  BY AppendProperties
<1>2. Len(s) \in Nat /\ DOMAIN s = 1 .. Len(s) /\ DOMAIN Append(s, m) = 1 .. Len(s) + 1
  BY <1>1, LenProperties
<1>3. \A i \in 1 .. Len(s) + 1 : i \in 1 .. Len(s) \/ i = Len(s) + 1
  BY <1>2
<1> QED
  BY <1>1, <1>2, <1>3

\* Nothing is announced to a client, but by a thread that waits for it to come.
LEMMA NothingAnnounced ==
  ASSUME IInv, AnnouncedInv, NEW h \in Working, threads[h].pc # "accept"
  PROVE  \A i \in DOMAIN client[Serves(h)].out : client[Serves(h)].out[i].type # "file:"
<1> SUFFICES ASSUME NEW i \in DOMAIN client[Serves(h)].out, client[Serves(h)].out[i].type = "file:" PROVE FALSE
  OBVIOUS
<1>1. Serves(h) \in Client
  BY PeerFacts
<1>2. PICK g \in Working : Serves(g) = Serves(h) /\ threads[g].pc = "accept"
  BY <1>1 DEF AnnouncedInv
<1> QED
  BY <1>2, ApartFacts
-------------------------------------------------------------------------------
(***************************************************************************)
(* A thread that becomes t, when nobody dies in the middle: it keeps its   *)
(* place until it ends, then gives it back unless its client hung up, and  *)
(* what it announces it waits for.                                         *)
(***************************************************************************)
Turned(h, t) ==
  /\ Becomes(h, t) /\ t.pc # "stop"
  /\ t.pc # "ended" => t.sock = threads[h].sock /\ t.port = threads[h].port /\ counter' = counter
  /\ t.pc = "ended" => counter' = counter - 1 \/ ("hangup" \in Faults /\ counter' = counter)
  /\ t.pc \in Sending => Alive(Serves(h))
  /\ \A b \in Client : client'[b].broken = client[b].broken /\ (b # Serves(h) => client'[b].out = client[b].out)
  /\ \A b \in Client : client'[b].inbox # client[b].inbox =>
       b = Serves(h) /\ (Alive(b) \/ (t.pc = "ended" /\ fds'[threads[h].sock] = Closed))
  /\ LET s == client'[Serves(h)].out IN
       \A i \in DOMAIN s : s[i].type = "file:" => t.pc = "accept" /\ i = Len(s) /\ s[i].port # NoPort

LEMMA SameLength ==
  ASSUME NEW S, NEW s \in Seq(S), NEW r \in Seq(S), DOMAIN s = DOMAIN r
  PROVE  Len(s) = Len(r)
<1> DEFINE a == Len(s)
           b == Len(r)
<1>1. a \in Nat /\ b \in Nat /\ 1 .. a = 1 .. b
  BY LenProperties
<1> HIDE DEF a, b
<1>2. \A i \in Nat : i \in 1 .. a <=> i \in 1 .. b
  BY <1>1
<1>3. (a > 0 => a \in 1 .. a) /\ (b > 0 => b \in 1 .. b)
  BY <1>1
<1>4. a = b
  BY <1>1, <1>2, <1>3
<1> QED
  BY <1>4 DEF a, b

\* Steps that change no client, and go on.
LEMMA QuietTurns ==
  ASSUME IInv, AnnouncedInv, NEW h \in Working, NEW t, Becomes(h, t), t.pc \in {"next", "send", "listen"},
         t.sock = threads[h].sock, t.port = threads[h].port, Alive(Serves(h)),
         UNCHANGED <<counter, client>>,
         threads[h].pc # "accept" \/ client[Serves(h)].out = <<>>
  PROVE  Turned(h, t)
<1>1. \A i \in DOMAIN client[Serves(h)].out : client[Serves(h)].out[i].type # "file:"
  BY NothingAnnounced
<1> QED
  BY <1>1 DEF Turned

\* Steps that send a message on the control connection, and go on.
LEMMA SpeakTurns ==
  ASSUME IInv, AliveInv, AnnouncedInv, NEW h \in Working, NEW t, Becomes(h, t), t.pc \notin {"stop", "ended"},
         t.sock = threads[h].sock, t.port = threads[h].port, Alive(Serves(h)),
         NEW m \in Msg, NEW peers \in [Client -> ClientState], SendFrom(peers, h, m),
         \A b \in Client : /\ peers[b].broken = client[b].broken /\ peers[b].out = client[b].out
                           /\ b # Serves(h) => peers[b].inbox = client[b].inbox,
         threads[h].pc # "accept", m.type = "file:" => t.pc = "accept" /\ m.port # NoPort
  PROVE  Turned(h, t)
<1> DEFINE c == Serves(h)
           s == client[c].out
<1>1. c \in Client /\ h \in DOMAIN threads
  BY PeerFacts
<1>2. ~client[c].broken
  BY <1>1 DEF AliveInv
<1>3. /\ counter' = counter
      /\ \A b \in Client : b # c => client'[b] = peers[b]
      /\ client'[c].out = Append(peers[c].out, m) /\ client'[c].broken = peers[c].broken
  BY <1>1, <1>2, SendAlive DEF IInv
<1>4. \A i \in DOMAIN s : s[i].type # "file:"
  BY NothingAnnounced
<1>5. s \in Seq(Msg)
  BY <1>1 DEF IInv, Types, ClientTypes, ClientState
<1>6. client'[c].out = Append(s, m)
  BY <1>1, <1>3
<1> HIDE DEF s
<1>7. \A i \in DOMAIN client'[c].out : client'[c].out[i].type = "file:" =>
        t.pc = "accept" /\ i = Len(client'[c].out) /\ client'[c].out[i].port # NoPort
  BY <1>4, <1>5, <1>6, Appended
<1>8. \A b \in Client : client'[b].broken = client[b].broken /\ (b # c => client'[b].out = client[b].out)
  BY <1>1, <1>3
<1>9. \A b \in Client : client'[b].inbox # client[b].inbox => b = c
  BY <1>3
<1> HIDE DEF c
<1>10. Alive(c)
  BY DEF c
<1> QED
  BY <1>3, <1>7, <1>8, <1>9, <1>10 DEF Turned, c

\* A command is read.
LEMMA TakenTurns ==
  ASSUME IInv, NEW h \in Working
  PROVE  /\ Taken(h) \in [Client -> ClientState]
         /\ \A b \in Client : /\ Taken(h)[b].broken = client[b].broken /\ Taken(h)[b].out = client[b].out
                              /\ b # Serves(h) => Taken(h)[b] = client[b]
         /\ client[Serves(h)].inbox # <<>> => client[Serves(h)].out = <<>>
<1>1. Serves(h) \in Client /\ h \in DOMAIN threads /\ Serves(h) # NoClient
  BY PeerFacts
<1>2. client \in [Client -> ClientState] /\ Polite(client[Serves(h)], Serves(h))
  BY <1>1 DEF IInv, Types, ClientTypes, Conversations
<1>3. client[Serves(h)] \in ClientState
  BY <1>1, <1>2
<1>4. Taken(h) \in [Client -> ClientState] /\ \A b \in Client : b # Serves(h) => Taken(h)[b] = client[b]
  BY <1>1, TakenFacts DEF IInv
<1>5. Taken(h)[Serves(h)].broken = client[Serves(h)].broken /\ Taken(h)[Serves(h)].out = client[Serves(h)].out
  BY <1>1, <1>2, <1>3 DEF Taken, ClientState
<1> QED
  BY <1>2, <1>4, <1>5 DEF Polite

Parts == CountInv /\ AliveInv /\ AnnouncedInv /\ PortsInv

LEMMA ReceiveTurned ==
  ASSUME Mild, IInv, Types', Parts, ~server_shutdown', NEW h \in DOMAIN threads,
         \/ ReceiveGet(h) \/ ReceiveBad(h) \/ ReceiveExit(h) \/ ReceiveShutdown(h)
         \/ ReceiveNothing(h) \/ ReceiveFails(h)
  PROVE  h \in Working /\ \E t : Turned(h, t)
<1> DEFINE c == Serves(h)
<1>1. threads[h].pc = "recv"
  BY DEF ReceiveGet, ReceiveBad, ReceiveExit, ReceiveShutdown, ReceiveNothing, ReceiveFails, Receive, At
<1>2. h \in Working
  BY <1>1 DEF Working
<1>3. c \in Client /\ threads[h] \in ThreadState /\ ThreadTypes /\ fds[threads[h].sock].kind = "conn"
      /\ threads[h].sock \in DOMAIN fds /\ fds[threads[h].sock].peer = c
  BY <1>2, PeerFacts DEF IInv, Types, Holds, Own, TableTypes, Peer
<1>4. /\ \A b \in Client : /\ Taken(h)[b].broken = client[b].broken /\ Taken(h)[b].out = client[b].out
                           /\ b # c => Taken(h)[b] = client[b]
      /\ Taken(h) \in [Client -> ClientState]
      /\ client[c].inbox # <<>> => client[c].out = <<>>
  BY <1>2, TakenTurns
<1>5. \A i \in DOMAIN client[c].out : client[c].out[i].type # "file:"
  BY <1>1, <1>2, NothingAnnounced DEF Parts
<1> HIDE DEF c
<1>6. ASSUME Finish(h)
      PROVE  \E t : Becomes(h, t) /\ t.pc = "ended"
  BY <1>3, <1>6, FinishFacts
<1>7. CASE ReceiveGet(h)
  <2> DEFINE t == [threads[h] EXCEPT !.pc = "listen", !.file = 1]
  <2>1. threads' = [threads EXCEPT ![h] = t] /\ client' = Taken(h) /\ counter' = counter
        /\ client[c].inbox = <<"get">>
    BY <1>7 DEF ReceiveGet, Receive, c
  <2>2. t.pc = "listen" /\ t.sock = threads[h].sock /\ t.port = threads[h].port
    BY <1>3 DEF ThreadState
  <2> HIDE DEF t
  <2>3. Becomes(h, t)
    BY <2>1, Stepped
  <2>4. Alive(c)
    BY <1>3, <2>1 DEF Parts, AliveInv
  <2>5. \A b \in Client : client'[b].broken = client[b].broken /\ client'[b].out = client[b].out
                          /\ (client'[b].inbox # client[b].inbox => b = c)
    BY <1>4, <2>1
  <2>6. Turned(h, t)
    BY <1>3, <1>5, <2>1, <2>2, <2>3, <2>4, <2>5 DEF Turned, c
  <2> QED
    BY <1>2, <2>6
<1>8. CASE ReceiveBad(h)
  <2> DEFINE m == Message("error:", 0, 0)
  <2>1. threads' = threads /\ SendFrom(Taken(h), h, m) /\ client[c].inbox = <<"bad">>
    BY <1>8 DEF ReceiveBad, Receive, c
  <2>2. m \in Msg /\ m.type # "file:"
    BY <1>2, Messages, PeerFacts DEF Message, IInv
  <2> HIDE DEF m
  <2>3. Alive(c)
    BY <1>3, <2>1 DEF Parts, AliveInv
  <2>4. threads' = [threads EXCEPT ![h] = threads[h]]
    BY <1>3, <2>1 DEF ThreadTypes
  <2>5. Becomes(h, threads[h])
    BY <2>4, Stepped
  <2>6. Turned(h, threads[h])
    BY <1>1, <1>2, <1>4, <2>1, <2>2, <2>3, <2>5, SpeakTurns DEF Parts, c
  <2> QED
    BY <1>2, <2>6
<1>9. CASE ReceiveExit(h) \/ ReceiveFails(h)
  <2>1. Finish(h) /\ counter' = counter - 1 /\ Close({threads[h].sock}) /\ (client' = client \/ client' = Taken(h))
    BY <1>9 DEF ReceiveExit, ReceiveFails
  <2>2. PICK t : Becomes(h, t) /\ t.pc = "ended"
    BY <1>6, <2>1
  <2>3. fds'[threads[h].sock] = Closed
    BY <1>3, <2>1 DEF Close
  <2>5. \A b \in Client : client'[b].broken = client[b].broken /\ client'[b].out = client[b].out
                          /\ (client'[b].inbox # client[b].inbox => b = c)
    BY <1>4, <2>1
  <2>6. Turned(h, t)
    BY <1>3, <1>5, <2>1, <2>2, <2>3, <2>5 DEF Turned, c, Sending, Offering
  <2> QED
    BY <1>2, <2>6
<1>10. CASE ReceiveNothing(h)
  <2>1. Finish(h) /\ counter' = counter /\ client' = client
    BY <1>10 DEF ReceiveNothing
  <2>2. PICK t : Becomes(h, t) /\ t.pc = "ended"
    BY <1>6, <2>1
  <2>3. "hangup" \in Faults
    <3>1. client[c].inbox = <<>> /\ ~Alive(c)
      BY <1>3, <1>10 DEF ReceiveNothing, Drained, Is
    <3> QED
      BY <1>3, <3>1 DEF Parts, AliveInv
  <2>6. Turned(h, t)
    BY <1>3, <1>5, <2>1, <2>2, <2>3 DEF Turned, c, Sending, Offering
  <2> QED
    BY <1>2, <2>6
<1>11. ~ReceiveShutdown(h)
  BY DEF ReceiveShutdown
<1> QED
  BY <1>7, <1>8, <1>9, <1>10, <1>11

LEMMA SendingTurned ==
  ASSUME Mild, IInv, Types', Parts, NEW h \in DOMAIN threads,
         \/ Announce(h) \/ AnnounceFails(h) \/ AcceptData(h) \/ AcceptDataFails(h)
         \/ SendFile(h) \/ SendFileFails(h) \/ SendMd5(h) \/ NextFile(h)
  PROVE  h \in Working /\ \E t : Turned(h, t)
<1> DEFINE c == Serves(h)
<1>1. threads[h].pc \in Sending /\ h \in Working
  BY DEF Announce, AnnounceFails, AcceptData, AcceptDataFails, SendFile, SendFileFails, SendMd5, NextFile, At,
     Sending, Offering, Working
<1>2. c \in Client /\ threads[h] \in ThreadState /\ ThreadTypes
      /\ Holds(threads[h], fds) /\ Talks(threads[h], fds, client[c]) /\ c = Peer(threads[h], fds)
  BY <1>1, PeerFacts DEF IInv, Types
<1>3. Alive(c)
  BY <1>1 DEF Parts, AliveInv
<1>4. client \in [Client -> ClientState] /\ DOMAIN fds = 0 .. Descriptors
  BY DEF IInv, Types, ClientTypes, TableTypes
<1>5. threads[h].sock \in DOMAIN fds /\ threads[h].lsock \in DOMAIN fds /\ threads[h].tsock \in DOMAIN fds
  BY <1>2, <1>4 DEF ThreadState
<1>6. ASSUME NEW pc \in ThreadPc \ {"stop", "ended"}, Go(h, pc)
      PROVE  \E t : Becomes(h, t) /\ t.pc = pc /\ t.sock = threads[h].sock /\ t.port = threads[h].port
  BY <1>2, <1>6, GoFacts DEF Goes
<1>7. /\ Message("file:", threads[h].file, threads[h].port) \in Msg
      /\ Message("md5sum:", threads[h].file, 0) \in Msg /\ Message("done", 0, 0) \in Msg
      /\ Message("md5sum:", threads[h].file, 0).type = "md5sum:" /\ Message("done", 0, 0).type = "done"
      /\ Message("file:", threads[h].file, threads[h].port).port = threads[h].port
  BY Messages DEF Message, IInv
<1>8. ASSUME NEW t, NEW m \in Msg, Becomes(h, t), t.pc \notin {"stop", "ended"}, Send(h, m),
             t.sock = threads[h].sock, t.port = threads[h].port, threads[h].pc # "accept",
             m.type = "file:" => t.pc = "accept" /\ m.port # NoPort
      PROVE  Turned(h, t)
  BY <1>1, <1>3, <1>4, <1>8, SpeakTurns DEF Parts, Send, c
<1>9. ASSUME NEW t, Becomes(h, t), t.pc \in {"next", "send", "listen"}, UNCHANGED <<counter, client>>,
             t.sock = threads[h].sock, t.port = threads[h].port,
             threads[h].pc # "accept" \/ client[c].out = <<>>
      PROVE  Turned(h, t)
  BY <1>1, <1>3, <1>9, QuietTurns DEF Parts, c
<1>10. \A pc \in {"listen", "accept", "send", "md5", "next", "recv"} : pc \in ThreadPc \ {"stop", "ended"}
  BY DEF ThreadPc
<1> HIDE DEF c
<1>11. CASE Announce(h)
  <2> DEFINE t == [threads[h] EXCEPT !.pc = "accept", !.lsock = Lowest]
  <2>1. threads' = [threads EXCEPT ![h] = t] /\ Send(h, Message("file:", threads[h].file, threads[h].port))
        /\ threads[h].pc = "listen"
    BY <1>11 DEF Announce, At
  <2>2. t.pc = "accept" /\ t.sock = threads[h].sock /\ t.port = threads[h].port
    BY <1>2 DEF ThreadState
  <2> HIDE DEF t
  <2>3. Becomes(h, t)
    BY <2>1, Stepped
  <2>4. threads[h].port # NoPort
    BY <1>1 DEF Parts, PortsInv
  <2> QED
    BY <1>1, <1>7, <1>8, <2>1, <2>2, <2>3, <2>4
<1>12. CASE AnnounceFails(h)
  <2>1. Go(h, "next") /\ UNCHANGED <<counter, client>> /\ threads[h].pc = "listen"
    BY <1>12 DEF AnnounceFails, At
  <2> QED
    BY <1>1, <1>6, <1>9, <1>10, <2>1
<1>13. CASE AcceptData(h)
  <2>1. threads[h].pc = "accept" /\ fds[threads[h].lsock].queue # <<>> /\ UNCHANGED <<counter, client>>
    BY <1>13 DEF AcceptData, At
  <2>2. client[c].out = <<>>
    BY <1>2, <1>3, <2>1 DEF Talks, Ready, Alive
  <2>3. CASE Lowest = -1
    <3>1. Go(h, "next")
      BY <1>13, <2>3 DEF AcceptData
    <3> QED
      BY <1>1, <1>6, <1>9, <1>10, <2>1, <2>2, <3>1
  <2>4. CASE Lowest # -1
    <3> DEFINE pc == IF Lowest <= 0 THEN "next" ELSE "send"
               t  == [threads[h] EXCEPT !.tsock = Lowest, !.pc = pc]
    <3>1. threads' = [threads EXCEPT ![h] = t]
      BY <1>13, <2>4 DEF AcceptData
    <3>2. pc \in {"next", "send"}
      OBVIOUS
    <3> HIDE DEF pc
    <3>3. t.pc = pc /\ t.sock = threads[h].sock /\ t.port = threads[h].port
      BY <1>2 DEF ThreadState
    <3> HIDE DEF t
    <3>4. Becomes(h, t)
      BY <3>1, Stepped
    <3> QED
      BY <1>1, <1>9, <2>1, <2>2, <3>2, <3>3, <3>4
  <2> QED
    BY <2>3, <2>4
<1>14. ~AcceptDataFails(h)
  <2>1. threads[h].pc = "accept" => Is(threads[h].lsock, "listen")
    BY <1>2, <1>5 DEF Holds, Is, Offering
  <2>2. "slow" \notin Faults
    BY DEF Mild
  <2> QED
    BY <1>2, <1>3, <2>1, <2>2 DEF AcceptDataFails, At, c
<1>15. threads[h].pc = "send" => Reads(h) = c
  <2>1. threads[h].pc = "send" => fds[threads[h].tsock] = Data(c)
    BY <1>2 DEF Holds
  <2> QED
    BY <1>5, <2>1 DEF Reads, Is, Data
<1>16. CASE SendFile(h)
  <2>1. /\ Go(h, "md5") /\ counter' = counter /\ threads[h].pc = "send" /\ \E x : client' = [client EXCEPT ![c].data = x]
    BY <1>15, <1>16 DEF SendFile, At
  <2>2. \A b \in Client : client'[b].broken = client[b].broken /\ client'[b].out = client[b].out
                          /\ client'[b].inbox = client[b].inbox
    <3>1. client[c] \in ClientState
      BY <1>2, <1>4
    <3> QED
      BY <1>2, <1>4, <2>1, <3>1 DEF ClientState
  <2>3. \A i \in DOMAIN client[c].out : client[c].out[i].type # "file:"
    BY <1>1, <2>1, NothingAnnounced DEF Parts, c
  <2>4. PICK t : Becomes(h, t) /\ t.pc = "md5" /\ t.sock = threads[h].sock /\ t.port = threads[h].port
    BY <1>6, <1>10, <2>1
  <2>5. Turned(h, t)
    BY <1>2, <1>3, <2>1, <2>2, <2>3, <2>4 DEF Turned, c
  <2> QED
    BY <1>1, <2>5
<1>17. CASE SendFileFails(h)
  <2>1. Go(h, "next") /\ client' = client /\ counter' = counter /\ threads[h].pc = "send"
    <3>1. c # NoClient
      BY <1>2, ClientAssumption
    <3> QED
      BY <1>3, <1>15, <1>17, <3>1 DEF SendFileFails, At
  <2> QED
    BY <1>1, <1>6, <1>9, <1>10, <2>1
<1>18. CASE SendMd5(h)
  <2>1. Go(h, "next") /\ threads[h].pc = "md5"
        /\ (Send(h, Message("md5sum:", threads[h].file, 0)) \/ UNCHANGED <<counter, client>>)
    BY <1>18 DEF SendMd5, At
  <2>2. PICK t : Becomes(h, t) /\ t.pc = "next" /\ t.sock = threads[h].sock /\ t.port = threads[h].port
    BY <1>6, <1>10, <2>1
  <2>3. Turned(h, t)
    BY <1>7, <1>8, <1>9, <2>1, <2>2
  <2> QED
    BY <1>1, <2>3
<1>19. CASE NextFile(h)
  <2>1. CASE threads[h].file = Files
    <3>1. Go(h, "recv") /\ threads[h].pc = "next" /\ Send(h, Message("done", 0, 0))
      BY <1>19, <2>1 DEF NextFile, At
    <3>2. PICK t : Becomes(h, t) /\ t.pc = "recv" /\ t.sock = threads[h].sock /\ t.port = threads[h].port
      BY <1>6, <1>10, <3>1
    <3>3. Turned(h, t)
      BY <1>7, <1>8, <3>1, <3>2
    <3> QED
      BY <1>1, <3>3
  <2>2. CASE threads[h].file # Files
    <3> DEFINE t == [threads[h] EXCEPT !.pc = "listen", !.file = @ + 1]
    <3>1. threads' = [threads EXCEPT ![h] = t] /\ threads[h].pc = "next" /\ UNCHANGED <<counter, client>>
      BY <1>19, <2>2 DEF NextFile, At
    <3>2. t.pc = "listen" /\ t.sock = threads[h].sock /\ t.port = threads[h].port
      BY <1>2 DEF ThreadState
    <3> HIDE DEF t
    <3>3. Becomes(h, t)
      BY <3>1, Stepped
    <3> QED
      BY <1>1, <1>9, <3>1, <3>2, <3>3
  <2> QED
    BY <2>1, <2>2
<1> QED
  BY <1>11, <1>12, <1>13, <1>14, <1>16, <1>17, <1>18, <1>19

\* What no thread touches, but to give its port back.
LEMMA ThreadLeaves ==
  ASSUME NEW h \in DOMAIN threads, ThreadStep(h)
  PROVE  main' = main /\ backlog' = backlog /\ (pool' = pool \/ Release(h))
  BY DEF ThreadStep, ReceiveGet, ReceiveBad, ReceiveExit, ReceiveShutdown, StopAccepting, ReceiveNothing, ReceiveFails,
     Announce, AnnounceFails, AcceptData, AcceptDataFails, SendFile, SendFileFails, SendMd5, NextFile

\* No thread opens a connection on the table but main.
LEMMA ThreadOpens ==
  ASSUME IInv, NEW h \in DOMAIN threads, ThreadStep(h), NEW d \in DOMAIN fds, fds'[d].kind = "conn"
  PROVE  fds'[d] = fds[d]
<1>1. DOMAIN fds = 0 .. Descriptors
  BY DEF IInv, Types, TableTypes
<1>2. /\ Closed.kind # "conn" /\ Other.kind # "conn" /\ \A p, q : Listening(p, q).kind # "conn"
      /\ \A c : Data(c).kind # "conn"
  BY DEF Closed, Other, Listening, Data
<1>3. CASE fds' = fds \/ \E D : Close(D)
  BY <1>2, <1>3 DEF Close
<1>4. CASE \E f : fds' = [fds EXCEPT ![Lowest] = f] /\ f.kind # "conn"
  BY <1>4
<1>5. CASE AcceptData(h) /\ Lowest # -1
  <2> DEFINE l == threads[h].lsock
             f == [fds[l] EXCEPT !.queue = Tail(@)]
  <2>1. fds[l].kind = "listen" /\ l \in DOMAIN fds /\ fds[l] \in Fd
    BY <1>1, <1>5 DEF AcceptData, Is, IInv, Types, TableTypes
  <2>2. f.kind # "conn"
    BY <2>1, FdFacts DEF Listening
  <2>3. fds' = [fds EXCEPT ![l] = f, ![Lowest] = Data(Head(fds[l].queue))]
    BY <1>5 DEF AcceptData
  <2> HIDE DEF f, l
  <2> QED
    BY <1>2, <2>2, <2>3
<1> QED
  BY <1>2, <1>3, <1>4, <1>5
     DEF ThreadStep, ReceiveGet, ReceiveBad, ReceiveExit, ReceiveShutdown, StopAccepting, ReceiveNothing, ReceiveFails,
         Announce, AnnounceFails, AcceptData, AcceptDataFails, SendFile, SendFileFails, SendMd5, NextFile

LEMMA EndsTurn ==
  ASSUME Types, NEW h \in DOMAIN threads, NEW t, Becomes(h, t),
         ReceiveExit(h) \/ ReceiveShutdown(h) \/ ReceiveFails(h)
  PROVE  t.pc \in {"stop", "ended"}
<1>1. ThreadTypes /\ "stop" \in ThreadPc /\ threads'[h] = t
  BY DEF Types, ThreadPc, Becomes
<1>2. Finish(h) \/ Go(h, "stop")
  BY DEF ReceiveExit, ReceiveShutdown, ReceiveFails
<1>3. PICK u : Becomes(h, u) /\ u.pc \in {"stop", "ended"}
  BY <1>1, <1>2, FinishFacts, GoFacts DEF Goes
<1>4. threads'[h] = u
  BY <1>3 DEF Becomes
<1> QED
  BY <1>1, <1>3, <1>4

LEMMA TurnCounts ==
  ASSUME Types, CountInv, ~server_shutdown, NEW h \in Working, NEW t, Turned(h, t), main' = main
  PROVE  CountInv'
<1>1. /\ Becomes(h, t) /\ counter \in Int
      /\ t.pc # "ended" => counter' = counter
      /\ t.pc = "ended" => counter' = counter - 1 \/ ("hangup" \in Faults /\ counter' = counter)
  BY DEF Turned, Types, MainTypes
<1>2. h \in Live /\ Live' = IF t.pc = "ended" THEN Live \ {h} ELSE Live
  BY <1>1 DEF Becomes, Live, Working
<1>3. IsFiniteSet(Live) /\ Cardinality(Live) \in Nat
  BY LiveFacts
<1>4. Cardinality(Live') = IF t.pc = "ended" THEN Cardinality(Live) - 1 ELSE Cardinality(Live)
  BY <1>2, <1>3, FS_RemoveElement
<1>5. Admitted' = Admitted /\ Room' = Room /\ Admitted \in Nat /\ Room \in Nat /\ Limit \in Nat
  BY TransferAssumption DEF Admitted, Room
<1> DEFINE a == Cardinality(Live)
           b == Cardinality(Live')
<1>6. /\ counter >= a + Admitted /\ counter + Room <= Limit
      /\ "hangup" \notin Faults => counter = a + Admitted
  BY DEF CountInv
<1>7. a \in Nat /\ b = IF t.pc = "ended" THEN a - 1 ELSE a
  BY <1>3, <1>4
<1> HIDE DEF a, b
<1>8. /\ counter' >= b + Admitted /\ counter' + Room <= Limit
      /\ "hangup" \notin Faults => counter' = b + Admitted
  BY <1>1, <1>5, <1>6, <1>7
<1> QED
  BY <1>5, <1>8 DEF CountInv, b

LEMMA ThreadPlaces ==
  ASSUME Mild, IInv, IInv', Parts, ~server_shutdown, ~server_shutdown', NEW h \in DOMAIN threads, ThreadStep(h)
  PROVE  Parts'
<1>1. h \in Working /\ \E t : Turned(h, t)
  <2>1. ~StopAccepting(h)
    BY DEF StopAccepting, At, IInv, Types, ThreadTypes
  <2> QED
    BY <2>1, ReceiveTurned, SendingTurned DEF ThreadStep, IInv
<1>2. PICK t : Turned(h, t)
  BY <1>1
<1>3. Becomes(h, t) /\ t.pc # "stop" /\ (t.pc # "ended" => t.sock = threads[h].sock /\ t.port = threads[h].port)
  BY <1>2 DEF Turned
<1>4. main' = main /\ backlog' = backlog /\ (pool' = pool \/ Release(h))
  BY ThreadLeaves
<1>5. ReceiveExit(h) \/ ReceiveShutdown(h) \/ ReceiveFails(h) => t.pc \in {"stop", "ended"}
  BY <1>3, EndsTurn DEF IInv
<1>6. /\ Working \ {h} \subseteq Working' /\ Working' \subseteq Working
      /\ h \in Working' <=> t.pc \notin {"stop", "ended"}
      /\ \A g \in Working' : Serves(g)' = Serves(g) /\ threads'[g].sock = threads[g].sock
  BY <1>1, <1>3, <1>5, ThreadServes
<1>7. \A g \in Working' : g # h => threads'[g] = threads[g]
  BY <1>3, <1>6 DEF Becomes, Working
<1>8. h \in Working' => threads'[h] = t
  BY <1>3 DEF Becomes, Working
<1>9. /\ \A b \in Client : client'[b].pc = client[b].pc /\ client'[b].inbox \in {<<>>, client[b].inbox}
      /\ \A b \in Client : client'[b].broken = client[b].broken /\ (b # Serves(h) => client'[b].out = client[b].out)
      /\ \A b \in Client : client'[b].inbox # client[b].inbox =>
           b = Serves(h) /\ (Alive(b) \/ (t.pc = "ended" /\ fds'[threads[h].sock] = Closed))
      /\ t.pc \in Sending => Alive(Serves(h))
  BY <1>2, ThreadClients DEF IInv, Turned
<1>10. Serves(h) \in Client /\ \A g \in Working : g # h => Serves(g) # Serves(h)
  BY <1>1, PeerFacts, ApartFacts
<1>11. CountInv'
  BY <1>1, <1>2, <1>4, TurnCounts DEF IInv, Parts
<1>12. AliveInv'
  <2>1. \A b \in Client : Alive(b)' = Alive(b)
    BY <1>9 DEF Alive
  <2>2. \A b \in Client : ~client'[b].broken
    BY <1>9 DEF Parts, AliveInv
  <2>3. ASSUME NEW b \in Client, client'[b].inbox \in {<<"get">>, <<"bad">>} PROVE Alive(b)'
    <3>1. client'[b].inbox # <<>>
      <4>1. <<"get">> # <<>> /\ <<"bad">> # <<>>
        OBVIOUS
      <4> QED
        BY <2>3, <4>1
    <3>2. client[b].inbox \in {<<"get">>, <<"bad">>}
      BY <1>9, <2>3, <3>1
    <3> QED
      BY <2>1, <3>2 DEF Parts, AliveInv
  <2>4. ASSUME NEW g \in Working', threads'[g].pc \in Sending PROVE Serves(g)' \in Client /\ Alive(Serves(g))
    BY <1>6, <1>7, <1>8, <1>9, <2>4, PeerFacts DEF Parts, AliveInv
  <2>5. \A g \in Working' : threads'[g].pc \in Sending => Alive(Serves(g))'
    BY <1>6, <2>1, <2>4 DEF Alive
  <2>6. ASSUME "hangup" \notin Faults, NEW d \in DOMAIN fds', fds'[d].kind = "conn"
        PROVE  client'[fds'[d].peer].pc \notin {"gone", "crashed"} \/ client'[fds'[d].peer].inbox # <<>>
    <3>1. d \in DOMAIN fds /\ fds'[d] = fds[d] /\ fds[d].peer \in Client
      <4>1. d \in 0 .. Descriptors /\ DOMAIN fds = 0 .. Descriptors /\ fds[d] \in Fd
        BY DEF IInv, Types, TableTypes
      <4>2. fds'[d] = fds[d]
        BY <2>6, <4>1, ThreadOpens
      <4> QED
        BY <2>6, <4>1, <4>2, FdFacts
    <3>2. Alive(fds[d].peer) \/ client[fds[d].peer].inbox # <<>>
      BY <2>6, <3>1 DEF Parts, AliveInv
    <3>3. fds[d].peer = Serves(h) => d = threads[h].sock
      <4>1. threads[h].sock \in DOMAIN fds /\ fds[threads[h].sock] \in Fd /\ fds[threads[h].sock].kind = "conn"
            /\ fds[threads[h].sock].peer = Serves(h)
        BY <1>1, PeerFacts DEF Holds, Own, Peer, IInv, Types, TableTypes
      <4>2. fds[d] \in Fd
        BY <3>1 DEF IInv, Types, TableTypes
      <4>3. fds[d].peer = Serves(h) => fds[d] = fds[threads[h].sock]
        BY <2>6, <3>1, <4>1, <4>2, FdFacts
      <4> QED
        BY <2>6, <3>1, <4>1, <4>3 DEF IInv, Peers
    <3>4. fds'[d] # Closed
      BY <2>6 DEF Closed
    <3> QED
      BY <1>9, <3>1, <3>2, <3>3, <3>4 DEF Alive
  <2>7. ASSUME "hangup" \notin Faults, NEW i \in DOMAIN backlog'
        PROVE  client'[backlog'[i]].pc \notin {"gone", "crashed"} \/ client'[backlog'[i]].inbox # <<>>
    <3>1. i \in DOMAIN backlog /\ backlog'[i] = backlog[i] /\ backlog[i] \in Client
      BY <1>4, LenProperties, ElementOfSeq DEF IInv, Types, TableTypes
    <3>2. backlog[i] # Serves(h)
      <4>1. threads[h].sock \in DOMAIN fds /\ fds[threads[h].sock].kind = "conn" /\ fds[threads[h].sock].peer = Serves(h)
        BY <1>1, PeerFacts DEF Holds, Own, Peer, IInv, Types, TableTypes
      <4> QED
        BY <3>1, <4>1 DEF IInv, Peers
    <3> QED
      <4>1. Alive(backlog[i]) \/ client[backlog[i]].inbox # <<>>
        BY <2>7, <3>1 DEF Parts, AliveInv
      <4> QED
        BY <1>9, <3>1, <3>2, <4>1 DEF Alive
  <2> QED
    BY <2>2, <2>3, <2>5, <2>6, <2>7 DEF AliveInv, Alive
<1>13. AnnouncedInv'
  <2> SUFFICES ASSUME NEW b \in Client, NEW i \in DOMAIN client'[b].out, client'[b].out[i].type = "file:"
               PROVE  /\ i = Len(client'[b].out) /\ client'[b].out[i].port # NoPort
                      /\ \E g \in Working' : Serves(g)' = b /\ threads'[g].pc = "accept"
    BY DEF AnnouncedInv
  <2>1. CASE b = Serves(h)
    <3>1. t.pc = "accept" /\ i = Len(client'[b].out) /\ client'[b].out[i].port # NoPort
      BY <1>2, <2>1 DEF Turned
    <3> QED
      BY <1>6, <1>8, <2>1, <3>1
  <2>2. CASE b # Serves(h)
    <3>1. client'[b].out = client[b].out
      BY <1>9, <2>2
    <3>2. /\ i = Len(client[b].out) /\ client[b].out[i].port # NoPort
          /\ \E g \in Working : Serves(g) = b /\ threads[g].pc = "accept"
      BY <3>1 DEF Parts, AnnouncedInv
    <3>3. PICK g \in Working : Serves(g) = b /\ threads[g].pc = "accept"
      BY <3>2
    <3>4. g \in Working' /\ threads'[g] = threads[g] /\ Serves(g)' = b
      BY <1>6, <1>7, <2>2, <3>3
    <3> QED
      BY <3>1, <3>2, <3>3, <3>4
  <2> QED
    BY <2>1, <2>2
<1>14. PortsInv'
  <2>1. \A g \in Working' : threads'[g].port # NoPort
    BY <1>1, <1>3, <1>6, <1>7, <1>8 DEF Parts, PortsInv
  <2>2. \A p \in Port : pool'[p] \in {pool[p], NoThread}
    BY <1>4 DEF Release
  <2>3. \A p, q \in Port : pool'[p] = pool'[q] /\ pool'[p] # NoThread => p = q
    BY <2>2 DEF Parts, PortsInv
  <2>4. Arrived' = Arrived /\ Passed' = Passed
    BY <1>4, <1>9 DEF Arrived, Passed
  <2>5. Len(threads') = Len(threads)
    BY <1>3, SameLength DEF Becomes, IInv, Types, ThreadTypes
  <2> QED
    BY <1>4, <2>1, <2>3, <2>4, <2>5 DEF Parts, PortsInv
<1> QED
  BY <1>11, <1>12, <1>13, <1>14 DEF Parts
-------------------------------------------------------------------------------
\* Room for one more thread is room for its port.
LEMMA PortLeft ==
  ASSUME Mild, Types, PortsInv, Passed = 1
  PROVE  \E p \in Port : pool[p] = NoThread
<1> SUFFICES ASSUME \A p \in Port : pool[p] # NoThread PROVE FALSE
  OBVIOUS
<1> DEFINE n == Len(threads)
           m == Len(backlog)
           a == Cardinality(Arrived)
           k == Cardinality(Port)
<1>1. threads \in Seq(ThreadState) /\ n \in Nat /\ DOMAIN threads = 1 .. n /\ m \in Nat
  BY LenProperties DEF Types, ThreadTypes, TableTypes
<1>2. n + m + 1 <= a /\ a <= k /\ a \in Nat /\ k \in Nat
  BY ArrivedFacts DEF PortsInv
<1>3. pool \in [Port -> 1 .. n]
  BY <1>1 DEF Types, ThreadTypes
<1>4. IsFiniteSet(1 .. n) /\ Cardinality(1 .. n) = n
  <2>1. 1 \in Int /\ n \in Int
    BY <1>1
  <2> HIDE DEF n
  <2>2. IsFiniteSet(1 .. n) /\ Cardinality(1 .. n) = IF 1 > n THEN 0 ELSE n - 1 + 1
    BY <2>1, FS_Interval
  <2>3. n \in Nat
    BY <1>1 DEF n
  <2> QED
    BY <2>2, <2>3
<1>5. IsFiniteSet(Port)
  BY DEF Mild
<1> HIDE DEF n, m, a, k
<1>6. Cardinality(1 .. n) < Cardinality(Port)
  BY <1>1, <1>2, <1>4 DEF k
<1>7. PICK p \in Port, q \in Port : p # q /\ pool[p] = pool[q]
  BY <1>3, <1>4, <1>5, <1>6, FS_PigeonHole
<1> QED
  BY <1>7 DEF PortsInv

LEMMA SpawnPlaces ==
  ASSUME Mild, IInv, IInv', Parts, ~server_shutdown, Spawn
  PROVE  Parts'
<1> DEFINE n == Len(threads) + 1
<1>1. main.pc = "admitted" /\ main'.pc = "loop" /\ UNCHANGED <<fds, backlog, client>>
  BY DEF Spawn, MainAt
<1>2. Passed = 1 /\ Passed' = 0 /\ Admitted = 1 /\ Admitted' = 0 /\ Room = 0 /\ Room' = 0
  BY <1>1 DEF Passed, Admitted, Room
<1>3. \E p \in Port : pool[p] = NoThread
  BY <1>2, PortLeft DEF Parts, IInv
<1>4. "ns" \notin Faults
  BY DEF Mild
<1>5. PICK p \in Port : /\ pool[p] = NoThread /\ pool' = [pool EXCEPT ![p] = n]
                        /\ threads' = Append(threads, Thread("recv", main.sock_fd, p)) /\ counter' = counter
  BY <1>3, <1>4 DEF Spawn
<1> DEFINE t == Thread("recv", main.sock_fd, p)
<1>6. t.pc = "recv" /\ t.sock = main.sock_fd /\ t.port = p
  BY DEF Thread
<1>7. t \in ThreadState
  <2>1. main.sock_fd \in 0 .. Descriptors /\ 1 \in 1 .. Files /\ 0 \in 0 .. Descriptors
    BY Bounds DEF IInv, Types, MainTypes
  <2> QED
    BY <2>1 DEF Thread, ThreadState
<1> HIDE DEF t
<1>8. /\ threads \in Seq(ThreadState) /\ Len(threads) \in Nat /\ DOMAIN threads = 1 .. Len(threads)
      /\ Len(threads') = n /\ threads'[n] = t /\ DOMAIN threads' = 1 .. n
      /\ \A g \in 1 .. Len(threads) : threads'[g] = threads[g]
  <2>1. threads \in Seq(ThreadState) /\ threads' \in Seq(ThreadState) /\ threads' = Append(threads, t)
    BY <1>5 DEF t, IInv, Types, ThreadTypes
  <2> QED
    BY <1>7, <2>1, LenProperties, AppendProperties
<1>9. DOMAIN threads' = DOMAIN threads \cup {n} /\ n \notin DOMAIN threads
      /\ \A g \in DOMAIN threads : threads'[g] = threads[g]
  <2>1. 1 .. Len(threads) + 1 = (1 .. Len(threads)) \cup {Len(threads) + 1} /\ Len(threads) + 1 \notin 1 .. Len(threads)
    BY <1>8
  <2> QED
    BY <1>8, <2>1
<1>10. NoThread # n
  BY <1>8 DEF NoThread
<1>11. \A q \in Port : pool[q] # n
  BY <1>9, <1>10 DEF IInv, Types, ThreadTypes
<1>12. pool \in [Port -> {NoThread} \cup DOMAIN threads]
  BY DEF IInv, Types, ThreadTypes
<1>13. PICK k : k = n
  OBVIOUS
<1> HIDE DEF n
<1>14. Live' = Live \cup {k} /\ k \notin Live
  BY <1>6, <1>8, <1>9, <1>13 DEF Live
<1>15. CountInv'
  <2> DEFINE a == Cardinality(Live)
             b == Cardinality(Live')
  <2>1. IsFiniteSet(Live) /\ a \in Nat
    BY LiveFacts DEF IInv
  <2>2. b = a + 1
    BY <1>14, <2>1, FS_AddElement
  <2>3. /\ counter >= a + 1 /\ counter + 0 <= Limit /\ ("hangup" \notin Faults => counter = a + 1)
    BY <1>2 DEF Parts, CountInv
  <2>4. counter \in Int /\ Limit \in Nat
    BY TransferAssumption DEF IInv, Types, MainTypes
  <2> HIDE DEF a, b
  <2>5. /\ counter' >= b + 0 /\ counter' + 0 <= Limit /\ ("hangup" \notin Faults => counter' = b + 0)
    BY <1>5, <2>1, <2>2, <2>3, <2>4
  <2> QED
    BY <1>2, <2>5 DEF CountInv, b
<1>16. Working' = Working \cup {k} /\ k \notin Working /\ \A g \in Working : threads'[g] = threads[g]
  BY <1>6, <1>8, <1>9, <1>13 DEF Working
<1>17. \A g \in Working : Serves(g)' = Serves(g)
  BY <1>1, <1>16 DEF Serves, Is
<1>18. AliveInv'
  <2>1. threads'[k].pc \notin Sending
    BY <1>6, <1>8, <1>13 DEF Sending, Offering
  <2>2. \A g \in Working' : threads'[g].pc \in Sending => Alive(Serves(g))'
    <3>1. ASSUME NEW g \in Working', threads'[g].pc \in Sending PROVE client'[Serves(g)'].pc \notin {"gone", "crashed"}
      <4>1. g \in Working /\ threads[g].pc \in Sending
        BY <1>16, <2>1, <3>1
      <4> QED
        BY <1>1, <1>17, <4>1 DEF Parts, AliveInv, Alive
    <3> QED
      BY <3>1 DEF Alive
  <2> QED
    BY <1>1, <2>2 DEF Parts, AliveInv, Alive
<1>19. AnnouncedInv'
  <2> SUFFICES ASSUME NEW b \in Client, NEW i \in DOMAIN client[b].out, client[b].out[i].type = "file:"
               PROVE  /\ i = Len(client[b].out) /\ client[b].out[i].port # NoPort
                      /\ \E g \in Working' : Serves(g)' = b /\ threads'[g].pc = "accept"
    BY <1>1 DEF AnnouncedInv
  <2> QED
    BY <1>16, <1>17 DEF Parts, AnnouncedInv
<1>20. PortsInv'
  <2>1. \A g \in Working' : threads'[g].port # NoPort
    <3>1. p # NoPort
      BY TransferAssumption DEF NoPort
    <3> QED
      BY <1>6, <1>8, <1>13, <1>16, <3>1 DEF Parts, PortsInv
  <2>2. \A r, q \in Port : pool'[r] = pool'[q] /\ pool'[r] # NoThread => r = q
    BY <1>5, <1>11, <1>12 DEF Parts, PortsInv
  <2>3. Arrived' = Arrived
    BY <1>1 DEF Arrived
  <2>4. Len(threads') + Len(backlog') + Passed' <= Cardinality(Arrived')
    <3>1. Len(threads) + Len(backlog) + Passed <= Cardinality(Arrived)
      BY DEF Parts, PortsInv
    <3>2. Len(backlog) \in Nat /\ Cardinality(Arrived) \in Nat
      BY ArrivedFacts, LenProperties DEF IInv, Types, TableTypes
    <3> QED
      BY <1>1, <1>2, <1>8, <2>3, <3>1, <3>2 DEF n
  <2> QED
    BY <2>1, <2>2, <2>4 DEF PortsInv
<1> QED
  BY <1>15, <1>18, <1>19, <1>20 DEF Parts

LEMMA AcceptPlaces ==
  ASSUME IInv, IInv', Parts, Accept, Lowest # -1
  PROVE  Parts'
<1> DEFINE l == Lowest
           b == Head(backlog)
<1>1. /\ main.pc = "accept" /\ main'.pc = "accepted" /\ fds' = [fds EXCEPT ![l] = Conn(b)] /\ backlog # <<>>
      /\ backlog' = Tail(backlog) /\ UNCHANGED <<threads, client, counter, pool>>
  BY DEF Accept, MainAt
<1>2. l \in 0 .. Descriptors /\ fds[l].kind = "closed" /\ DOMAIN fds = 0 .. Descriptors
  BY LowestFacts DEF IInv, Types, TableTypes
<1>3. /\ Len(backlog) \in Nat /\ Len(backlog') = Len(backlog) - 1 /\ 1 \in DOMAIN backlog /\ backlog[1] = b
      /\ \A i \in DOMAIN backlog' : i + 1 \in DOMAIN backlog /\ backlog'[i] = backlog[i + 1]
  <2>1. backlog \in Seq(Client) /\ backlog # <<>>
    BY <1>1 DEF IInv, Types, TableTypes
  <2>2. /\ Tail(backlog) \in Seq(Client) /\ Len(Tail(backlog)) = Len(backlog) - 1 /\ backlog[1] = Head(backlog)
        /\ \A i \in 1 .. Len(Tail(backlog)) : Tail(backlog)[i] = backlog[i + 1]
    BY <2>1, HeadTailProperties
  <2>3. Len(backlog) \in Nat /\ Len(backlog) # 0 /\ DOMAIN backlog = 1 .. Len(backlog)
    BY <2>1, LenProperties, EmptySeq
  <2>4. DOMAIN Tail(backlog) = 1 .. Len(backlog) - 1
    BY <2>2, LenProperties
  <2>5. (\A i \in 1 .. Len(backlog) - 1 : i + 1 \in 1 .. Len(backlog)) /\ 1 \in 1 .. Len(backlog)
    BY <2>3
  <2> QED
    BY <1>1, <2>2, <2>3, <2>4, <2>5
<1>4. Working' = Working /\ \A g \in Working : Serves(g)' = Serves(g)
  <2>1. Working' = Working
    BY <1>1 DEF Working
  <2>2. ASSUME NEW g \in Working PROVE Serves(g)' = Serves(g)
    <3>1. fds[threads[g].sock].kind = "conn"
      BY PeerFacts DEF Holds
    <3>2. threads[g].sock # l
      BY <1>2, <3>1
    <3> QED
      BY <1>1, <3>2 DEF Serves, Is
  <2> QED
    BY <2>1, <2>2
<1>5. Conn(b).kind = "conn" /\ Conn(b).peer = b
  BY DEF Conn
<1>6. Admitted' = Admitted /\ Room' = Room /\ Passed = 0 /\ Passed' = 1 /\ Live' = Live /\ Arrived' = Arrived
  BY <1>1 DEF Admitted, Room, Passed, Live, Arrived
<1> HIDE DEF l, b
<1>7. CountInv'
  BY <1>1, <1>6 DEF Parts, CountInv
<1>8. AliveInv'
  <2>1. \A g \in Working' : threads'[g].pc \in Sending => client'[Serves(g)'].pc \notin {"gone", "crashed"}
    BY <1>1, <1>4 DEF Parts, AliveInv, Alive
  <2>2. ASSUME "hangup" \notin Faults, NEW d \in DOMAIN fds', fds'[d].kind = "conn"
        PROVE  client'[fds'[d].peer].pc \notin {"gone", "crashed"} \/ client'[fds'[d].peer].inbox # <<>>
    <3>1. CASE d = l
      <4>1. fds'[d].peer = backlog[1]
        BY <1>1, <1>2, <1>3, <1>5, <3>1
      <4> QED
        BY <1>1, <1>3, <2>2, <4>1 DEF Parts, AliveInv, Alive
    <3>2. CASE d # l
      BY <1>1, <2>2, <3>2 DEF Parts, AliveInv, Alive
    <3> QED
      BY <3>1, <3>2
  <2>3. ASSUME "hangup" \notin Faults, NEW i \in DOMAIN backlog'
        PROVE  client'[backlog'[i]].pc \notin {"gone", "crashed"} \/ client'[backlog'[i]].inbox # <<>>
    BY <1>1, <1>3, <2>3 DEF Parts, AliveInv, Alive
  <2> QED
    BY <1>1, <2>1, <2>2, <2>3 DEF Parts, AliveInv, Alive
<1>9. AnnouncedInv'
  BY <1>1, <1>4 DEF Parts, AnnouncedInv
<1>10. PortsInv'
  <2>1. Len(threads') + Len(backlog') + Passed' = Len(threads) + Len(backlog) + Passed
    <3>1. Len(threads) \in Nat
      BY LenProperties DEF IInv, Types, ThreadTypes
    <3> QED
      BY <1>1, <1>3, <1>6, <3>1
  <2> QED
    BY <1>1, <1>4, <1>6, <2>1 DEF Parts, PortsInv
<1> QED
  BY <1>7, <1>8, <1>9, <1>10 DEF Parts

LEMMA MainPlaces ==
  ASSUME Mild, IInv, IInv', Parts, ~server_shutdown, MainStep
  PROVE  Parts'
<1>1. CASE Spawn
  BY <1>1, SpawnPlaces
<1>2. CASE Accept /\ Lowest # -1
  BY <1>2, AcceptPlaces
<1>3. CASE AcceptTimesOut
  BY <1>3 DEF AcceptTimesOut, Mild
<1>4. CASE Loop \/ Admit \/ (Accept /\ Lowest = -1)
  <2>1. UNCHANGED <<fds, threads, backlog, client, pool>>
    BY <1>4 DEF Loop, Admit, Accept
  <2>2. Working' = Working /\ Live' = Live /\ Arrived' = Arrived /\ \A g \in Working : Serves(g)' = Serves(g)
    BY <2>1 DEF Working, Live, Arrived, Serves, Is
  <2>3. AliveInv' /\ AnnouncedInv'
    BY <2>1, <2>2 DEF Parts, AliveInv, AnnouncedInv, Alive
  <2>4. Passed' = Passed
    BY <1>4 DEF Loop, Admit, Accept, MainAt, Passed
  <2>5. PortsInv'
    BY <2>1, <2>2, <2>4 DEF Parts, PortsInv
  <2>6. Cardinality(Live) \in Nat /\ counter \in Int /\ Limit \in Nat
    BY LiveFacts, TransferAssumption DEF IInv, Types, MainTypes
  <2>7. CountInv'
    <3>1. CASE Loop
      <4>1. Admitted' = Admitted /\ Room' = 1 /\ counter' = counter /\ counter < Limit
        BY <3>1 DEF Loop, MainAt, Admitted, Room
      <4> QED
        BY <2>2, <2>6, <4>1 DEF Parts, CountInv
    <3>2. CASE Admit
      <4>1. Admitted = 0 /\ Admitted' = 1 /\ Room = 1 /\ Room' = 0 /\ counter' = counter + 1
        BY <3>2 DEF Admit, MainAt, Admitted, Room
      <4> QED
        BY <2>2, <2>6, <4>1 DEF Parts, CountInv
    <3>3. CASE Accept /\ Lowest = -1
      <4>1. Admitted' = Admitted /\ Room = 1 /\ Room' = 0 /\ counter' = counter
        BY <3>3 DEF Accept, MainAt, Admitted, Room
      <4> QED
        BY <2>2, <2>6, <4>1 DEF Parts, CountInv
    <3> QED
      BY <1>4, <3>1, <3>2, <3>3
  <2> QED
    BY <2>3, <2>5, <2>7 DEF Parts
<1> QED
  BY <1>1, <1>2, <1>3, <1>4 DEF MainStep
-------------------------------------------------------------------------------
\* What is left to read is the end of what there was, and nobody dies that has asked.
LEMMA ClientReads ==
  ASSUME Mild, IInv, KeptInv, AnnouncedInv, ~server_shutdown, NEW c \in Client,
         \/ Connect(c) \/ Reading(c) \/ Leave(c)
         \/ (\E cmd \in Commands : Ask(c, cmd)) /\ UNCHANGED <<fds, backlog, Others>>
  PROVE  /\ Ending(client'[c].out, client[c].out)
         /\ client'[c].broken = client[c].broken
         /\ client'[c].pc # "away" /\ (client[c].pc = "away" => Connect(c))
         /\ \/ client'[c].inbox = client[c].inbox
            \/ client'[c].inbox # <<>> /\ client[c].pc = "prompt" /\ (Alive(c)' \/ client'[c].inbox \in Goodbye)
         /\ \/ Alive(c)'
            \/ client[c].pc = "prompt" /\ (client'[c].inbox \in Goodbye \/ (client'[c].inbox = <<>> /\ "hangup" \in Faults))
            \/ ~Alive(c) /\ client'[c] = client[c]
<1> DEFINE p == client[c]
<1>1. /\ client \in [Client -> ClientState] /\ p \in ClientState /\ p.out \in Seq(Msg) /\ Polite(p, c) /\ main.pc # "ended"
  BY LiveFacts DEF IInv, Types, ClientTypes, ClientState, Conversations
<1>2. Ending(p.out, p.out) /\ Ending(<<>>, p.out)
  BY <1>1, EndingFacts
<1>3. p.pc = "prompt" => p.inbox = <<>>
  BY <1>1 DEF Polite
<1> HIDE DEF p
<1>4. ASSUME NEW q, client' = [client EXCEPT ![c] = q] PROVE client'[c] = q
  BY <1>1, <1>4
<1>5. CASE Connect(c)
  <2> DEFINE q == [p EXCEPT !.pc = "prompt"]
  <2>1. q.out = p.out /\ q.broken = p.broken /\ q.inbox = p.inbox /\ q.pc = "prompt"
    BY <1>1 DEF ClientState
  <2>2. client'[c] = q
    BY <1>4, <1>5 DEF Connect, p
  <2> HIDE DEF q
  <2> QED
    BY <1>2, <1>5, <2>1, <2>2 DEF p, Alive
<1>6. CASE Leave(c)
  <2> DEFINE q == [p EXCEPT !.pc = "gone"]
  <2>1. p.pc = "prompt" /\ "hangup" \in Faults /\ client' = [client EXCEPT ![c] = q]
    BY <1>6 DEF Leave, Mild, p
  <2>2. q.out = p.out /\ q.broken = p.broken /\ q.inbox = p.inbox /\ q.pc = "gone"
    BY <1>1 DEF ClientState
  <2>3. client'[c] = q
    BY <1>4, <2>1
  <2> HIDE DEF q
  <2> QED
    BY <1>2, <1>3, <2>1, <2>2, <2>3 DEF p
<1>7. ASSUME NEW cmd \in Commands, Ask(c, cmd)
      PROVE  /\ client'[c].out = p.out /\ client'[c].broken = p.broken /\ p.pc = "prompt"
             /\ client'[c].inbox = <<cmd>> /\ client'[c].inbox # <<>>
             /\ client'[c].pc = IF cmd \in {"exit", "shutdown"} THEN "gone" ELSE "waiting"
             /\ cmd \in {"exit", "shutdown"} => <<cmd>> \in Goodbye
  <2> DEFINE q == [client[c] EXCEPT !.inbox = <<cmd>>, !.sent = @ + 1, !.got = {}, !.told = 0, !.data = NoData,
                     !.pc = IF cmd \in {"exit", "shutdown"} THEN "gone" ELSE "waiting"]
  <2>1. client' = [client EXCEPT ![c] = q]
    BY <1>7 DEF Ask
  <2>6. p.pc = "prompt"
    BY <1>7 DEF Ask, p
  <2>2. <<cmd>> # <<>> /\ (cmd \in {"exit", "shutdown"} => <<cmd>> \in Goodbye)
    BY DEF Goodbye
  <2>3. \A i : LET u == [p EXCEPT !.inbox = i, !.sent = @ + 1, !.got = {}, !.told = 0, !.data = NoData,
                           !.pc = IF cmd \in {"exit", "shutdown"} THEN "gone" ELSE "waiting"] IN
          /\ u.out = p.out /\ u.broken = p.broken /\ u.inbox = i
          /\ u.pc = IF cmd \in {"exit", "shutdown"} THEN "gone" ELSE "waiting"
    BY <1>1 DEF ClientState
  <2>4. /\ q.out = p.out /\ q.broken = p.broken /\ q.inbox = <<cmd>>
        /\ q.pc = IF cmd \in {"exit", "shutdown"} THEN "gone" ELSE "waiting"
    BY <2>3 DEF p
  <2>5. client'[c] = q
    BY <1>4, <2>1
  <2> HIDE DEF q
  <2> QED
    BY <2>2, <2>4, <2>5, <2>6
<1>8. ASSUME NEW q, client' = [client EXCEPT ![c] = q], Ending(q.out, p.out), q.broken = p.broken,
             q.inbox = p.inbox, q.pc \in {"prompt", "waiting", "data", "spins"}, p.pc # "away"
      PROVE  /\ Ending(client'[c].out, p.out) /\ client'[c].broken = p.broken /\ client'[c].inbox = p.inbox
             /\ client'[c].pc # "away" /\ Alive(c)'
  BY <1>4, <1>8 DEF Alive
<1>9. ASSUME NEW r \in MayRead(c)
      PROVE  LET q == Heard(c, r) IN
               /\ q \in ClientState /\ Ending(q.out, p.out) /\ q.inbox = p.inbox /\ q.broken = p.broken /\ p.pc = "waiting"
  <2>1. /\ Heard(c, r) \in ClientState /\ Heard(c, r).inbox = p.inbox /\ Heard(c, r).out = Left(client[c], r)
        /\ p.pc = "waiting" /\ Ending(Left(client[c], r), client[c].out)
    BY HeardFacts, MayReadFacts, LeftEnding DEF IInv, Types, p
  <2>2. Heard(c, r).broken = p.broken
    BY <1>1 DEF Heard, ClientState, p
  <2> QED
    BY <2>1, <2>2 DEF p
<1>10. CASE TakeFile(c)
  <2>1. PICK r \in MayRead(c) :
          LET t == [Heard(c, r) EXCEPT !.told = Line(r).file] IN
            \/ client' = [client EXCEPT ![c] = t]
            \/ client' = [client EXCEPT ![c] = [t EXCEPT !.pc = "data", !.data = NoData]]
    BY <1>10 DEF TakeFile
  <2> DEFINE u == Heard(c, r)
             t == [u EXCEPT !.told = Line(r).file]
             v == [t EXCEPT !.pc = "data", !.data = NoData]
  <2>2. u \in ClientState /\ Ending(u.out, p.out) /\ u.inbox = p.inbox /\ u.broken = p.broken /\ p.pc = "waiting"
    BY <1>9
  <2>3. u.pc = "waiting"
    BY HeardFacts DEF IInv, Types
  <2> HIDE DEF u
  <2>4. t.out = u.out /\ t.inbox = u.inbox /\ t.broken = u.broken /\ t.pc = u.pc
    BY <2>2 DEF ClientState
  <2>5. v.out = u.out /\ v.inbox = u.inbox /\ v.broken = u.broken /\ v.pc = "data"
    BY <2>2 DEF ClientState
  <2>6. client' = [client EXCEPT ![c] = t] \/ client' = [client EXCEPT ![c] = v]
    BY <2>1 DEF u
  <2> HIDE DEF t, v
  <2> QED
    BY <1>8, <2>2, <2>3, <2>4, <2>5, <2>6 DEF p
<1>11. CASE Hear(c)
  <2>1. PICK r \in MayRead(c) : \E pc \in {"prompt", "waiting"} : client' = [client EXCEPT ![c] = [Heard(c, r) EXCEPT !.pc = pc]]
    BY <1>11 DEF Hear
  <2>2. PICK pc \in {"prompt", "waiting"} : client' = [client EXCEPT ![c] = [Heard(c, r) EXCEPT !.pc = pc]]
    BY <2>1
  <2> DEFINE u == Heard(c, r)
             q == [u EXCEPT !.pc = pc]
  <2>3. u \in ClientState /\ Ending(u.out, p.out) /\ u.inbox = p.inbox /\ u.broken = p.broken /\ p.pc = "waiting"
    BY <1>9
  <2> HIDE DEF u
  <2>4. q.out = u.out /\ q.inbox = u.inbox /\ q.broken = u.broken /\ q.pc = pc
    BY <2>3 DEF ClientState
  <2>5. client' = [client EXCEPT ![c] = q]
    BY <2>2 DEF u
  <2> HIDE DEF q
  <2> QED
    BY <1>8, <2>3, <2>4, <2>5 DEF p
<1>12. CASE EndOfData(c)
  <2> DEFINE g == p.got \cup {p.data.file}
             q == [p EXCEPT !.pc = "waiting", !.got = g]
  <2>1. client' = [client EXCEPT ![c] = q] /\ p.pc = "data"
    BY <1>12 DEF EndOfData, p
  <2> HIDE DEF g
  <2>2. q.out = p.out /\ q.inbox = p.inbox /\ q.broken = p.broken /\ q.pc = "waiting"
    BY <1>1 DEF ClientState
  <2> HIDE DEF q
  <2> QED
    BY <1>2, <1>8, <2>1, <2>2 DEF p
<1>13. ~DataLost(c)
  BY <1>1 DEF DataLost
<1>14. ~EndOfStream(c)
  BY <1>1 DEF EndOfStream, KeptInv, Kept, Connected, Talking
<1>15. ~Fail(c)
  <2> SUFFICES ASSUME NEW r \in MayRead(c), Word(r) = "exception" \/ (Word(r) = "file:" /\ Line(r).port = NoPort)
               PROVE  FALSE
    BY DEF Fail
  <2>1. /\ 1 \in DOMAIN p.out /\ r[1] = p.out[1] /\ Len(r) \in Nat \ {0}
        /\ Len(r) # 1 => 2 \in DOMAIN p.out /\ r[2] = p.out[2]
        /\ Len(r) \in 1 .. Len(p.out) /\ Len(p.out) \in Nat
    BY LeftEnding, MayReadFacts, LenProperties DEF IInv, Types, p
  <2>0. \A n \in Nat \ {0} : n > 1 <=> n # 1
    OBVIOUS
  <2>2. \A i \in DOMAIN p.out : p.out[i].type = "file:" => i = Len(p.out) /\ p.out[i].port # NoPort
    BY DEF AnnouncedInv, p
  <2>3. r[1].type = "file:" => Len(r) = 1 /\ r[1].port # NoPort
    BY <2>1, <2>2
  <2>4. Len(r) # 1 /\ r[2].type = "file:" => r[2].port # NoPort
    BY <2>1, <2>2
  <2>5. CASE IsSum(r)
    <3>1. Len(r) # 1 /\ r[2].type \in {"exception", "file:"}
      BY <2>5 DEF Word
    <3>2. r[2].type # "exception"
      <4>1. r[2] \in Msg
        BY <1>1, <2>1, <3>1, ElementOfSeq, LenProperties
      <4> QED
        BY <4>1 DEF Msg, Kind
    <3>3. Len(r) > 1 /\ Line(r) = r[2]
      <4>1. Len(r) > 1
        BY <2>0, <2>1, <3>1
      <4> QED
        BY <2>5, <4>1 DEF Line
    <3> QED
      BY <2>4, <2>5, <3>1, <3>2, <3>3 DEF Word
  <2>6. CASE ~IsSum(r)
    <3>1. r[1] \in Msg /\ Line(r) = r[1]
      <4>1. r[1] \in Msg
        BY <1>1, <2>1, ElementOfSeq, LenProperties
      <4> QED
        BY <2>6, <4>1 DEF Line
    <3>2. r[1].type # "exception"
      BY <3>1 DEF Msg, Kind
    <3>3. r[1].type = "file:" => ~(Len(r) > 1) /\ r[1].port # NoPort
      BY <2>0, <2>1, <2>3
    <3> QED
      BY <2>6, <3>1, <3>2, <3>3 DEF Word
  <2> QED
    BY <2>5, <2>6
<1>16. CASE (\E cmd \in Commands : Ask(c, cmd)) /\ UNCHANGED <<fds, backlog, Others>>
  <2>1. PICK cmd \in Commands : Ask(c, cmd)
    BY <1>16
  <2> QED
    BY <1>2, <1>7, <2>1 DEF p, Alive
<1> QED
  BY <1>5, <1>6, <1>10, <1>11, <1>12, <1>13, <1>14, <1>15, <1>16 DEF Reading

\* A client acts, and every thread has its connection and its client.
LEMMA ClientServes ==
  ASSUME IInv, IInv', NEW c \in Client,
         \/ Connect(c) \/ Reading(c) \/ Leave(c)
         \/ (\E cmd \in Commands : Ask(c, cmd)) /\ UNCHANGED <<fds, backlog, Others>>
  PROVE  /\ UNCHANGED <<counter, server_shutdown, main, threads, pool>> /\ Working' = Working
         /\ \A d \in DOMAIN fds : (fds[d].kind = "conn" \/ fds'[d].kind = "conn") => fds'[d] = fds[d]
         /\ \A g \in Working : Serves(g)' = Serves(g)
<1>1. UNCHANGED <<counter, server_shutdown, main, threads, pool>>
  BY DEF Connect, Reading, TakeFile, DataLost, EndOfStream, Leave, Others
<1>2. Working' = Working
  BY <1>1 DEF Working
<1>3. DOMAIN fds = 0 .. Descriptors /\ DOMAIN fds' = 0 .. Descriptors
  BY DEF IInv, Types, TableTypes
<1>4. \A d \in DOMAIN fds : (fds[d].kind = "conn" \/ fds'[d].kind = "conn") => fds'[d] = fds[d]
  <2>1. CASE fds' = fds
    BY <2>1
  <2>2. CASE TakeFile(c)
    <3>1. ASSUME NEW d \in DOMAIN fds, fds'[d] # fds[d]
          PROVE  fds[d].kind = "listen" /\ fds'[d] = [fds[d] EXCEPT !.queue = Append(@, c)]
      BY <2>2, <3>1 DEF TakeFile, Listeners, Is
    <3>2. ASSUME NEW d \in DOMAIN fds, fds'[d] # fds[d]
          PROVE  fds[d].kind = "listen" /\ fds'[d].kind = "listen"
      <4>1. fds[d] \in Fd /\ fds[d].kind = "listen"
        BY <1>3, <3>1, <3>2 DEF IInv, Types, TableTypes
      <4>2. fds'[d].kind = fds[d].kind
        BY <3>1, <3>2, <4>1, FdFacts DEF Listening
      <4> QED
        BY <4>1, <4>2
    <3> QED
      BY <3>2
  <2> QED
    BY <2>1, <2>2 DEF Connect, Reading, DataLost, EndOfStream, Leave, Others
<1>5. \A g \in Working : Serves(g)' = Serves(g)
  <2> SUFFICES ASSUME NEW g \in Working PROVE Serves(g)' = Serves(g)
    OBVIOUS
  <2>1. fds[threads[g].sock].kind = "conn" /\ threads[g].sock \in DOMAIN fds
    BY <1>3, PeerFacts DEF Holds, Own
  <2> QED
    BY <1>1, <1>3, <1>4, <2>1 DEF Serves, Is
<1> QED
  BY <1>1, <1>2, <1>4, <1>5

LEMMA ClientPlaces ==
  ASSUME Mild, IInv, IInv', KeptInv, Parts, ~server_shutdown, NEW c \in Client,
         \/ Connect(c) \/ Reading(c) \/ Leave(c)
         \/ (\E cmd \in Commands : Ask(c, cmd)) /\ UNCHANGED <<fds, backlog, Others>>
  PROVE  Parts'
<1>1. /\ \A b \in Client : b # c => client'[b] = client[b]
      /\ Alive(c)' => Alive(c)
  BY ClientPaces DEF IInv
<1>2. /\ Ending(client'[c].out, client[c].out)
      /\ client'[c].broken = client[c].broken
      /\ client'[c].pc # "away" /\ (client[c].pc = "away" => Connect(c))
      /\ \/ client'[c].inbox = client[c].inbox
         \/ client'[c].inbox # <<>> /\ client[c].pc = "prompt" /\ (Alive(c)' \/ client'[c].inbox \in Goodbye)
      /\ \/ Alive(c)'
         \/ client[c].pc = "prompt" /\ (client'[c].inbox \in Goodbye \/ (client'[c].inbox = <<>> /\ "hangup" \in Faults))
         \/ ~Alive(c) /\ client'[c] = client[c]
  BY ClientReads DEF Parts
<1>3. UNCHANGED <<counter, main, threads, pool>>
  BY DEF Connect, Reading, TakeFile, DataLost, EndOfStream, Leave, Others
<1>4. DOMAIN fds = 0 .. Descriptors /\ DOMAIN fds' = 0 .. Descriptors
  BY DEF IInv, Types, TableTypes
<1>5. \A d \in DOMAIN fds : (fds[d].kind = "conn" \/ fds'[d].kind = "conn") => fds'[d] = fds[d]
  BY ClientServes
<1>6. Working' = Working /\ Live' = Live /\ Admitted' = Admitted /\ Room' = Room /\ Passed' = Passed
  BY <1>3 DEF Working, Live, Admitted, Room, Passed
<1>7. \A g \in Working : Serves(g)' = Serves(g)
  BY ClientServes
<1>8. CountInv'
  BY <1>3, <1>6 DEF Parts, CountInv
<1>9. backlog' = IF Connect(c) THEN Append(backlog, c) ELSE backlog
  <2>1. client[c].pc = "waiting" => ~Connect(c)
    BY DEF Connect
  <2> QED
    BY DEF Connect, Reading, TakeFile, DataLost, EndOfStream, Leave, Others
<1>10. /\ backlog \in Seq(Client) /\ Len(backlog) \in Nat
       /\ Len(backlog') = IF Connect(c) THEN Len(backlog) + 1 ELSE Len(backlog)
       /\ \A i \in DOMAIN backlog' : (i \in DOMAIN backlog /\ backlog'[i] = backlog[i]) \/ (Connect(c) /\ backlog'[i] = c)
       /\ \A i \in DOMAIN backlog : backlog[i] \in Client
  <2>1. backlog \in Seq(Client) /\ Len(backlog) \in Nat /\ DOMAIN backlog = 1 .. Len(backlog)
        /\ \A i \in DOMAIN backlog : backlog[i] \in Client
    BY LenProperties, ElementOfSeq DEF IInv, Types, TableTypes
  <2>2. /\ Append(backlog, c) \in Seq(Client) /\ Len(Append(backlog, c)) = Len(backlog) + 1
        /\ \A i \in 1 .. Len(backlog) : Append(backlog, c)[i] = backlog[i]
        /\ Append(backlog, c)[Len(backlog) + 1] = c
    BY <2>1, AppendProperties
  <2>3. DOMAIN Append(backlog, c) = 1 .. Len(backlog) + 1
    BY <2>2, LenProperties
  <2>4. \A i \in 1 .. Len(backlog) + 1 : i \in 1 .. Len(backlog) \/ i = Len(backlog) + 1
    BY <2>1
  <2> QED
    BY <1>9, <2>1, <2>2, <2>3, <2>4
<1>11. Polite(client[c], c) /\ <<>> \notin Goodbye /\ <<"get">> \notin Goodbye /\ <<"bad">> \notin Goodbye
       /\ <<"get">> # <<>> /\ <<"bad">> # <<>>
  BY DEF IInv, Conversations, Goodbye
<1>12. AliveInv'
  <2>1. \A b \in Client : ~client'[b].broken
    BY <1>1, <1>2 DEF Parts, AliveInv
  <2>2. ASSUME NEW b \in Client, client'[b].inbox \in {<<"get">>, <<"bad">>}
        PROVE  client'[b].pc \notin {"gone", "crashed"}
    <3>1. CASE b # c
      BY <1>1, <2>2, <3>1 DEF Parts, AliveInv, Alive
    <3>2. CASE b = c
      <4>1. client'[c].inbox \notin Goodbye /\ client'[c].inbox # <<>>
        BY <1>11, <2>2, <3>2
      <4>2. ~Alive(c) => client'[c].inbox # client[c].inbox
        BY <2>2, <3>2 DEF Parts, AliveInv
      <4>3. client'[c].inbox = client[c].inbox => client[c].pc # "prompt"
        BY <1>11, <4>1 DEF Polite
      <4> QED
        BY <1>2, <3>2, <4>1, <4>2, <4>3 DEF Alive
    <3> QED
      BY <3>1, <3>2
  <2>3. ASSUME NEW g \in Working', threads'[g].pc \in Sending
        PROVE  client'[Serves(g)'].pc \notin {"gone", "crashed"}
    <3>1. g \in Working /\ threads[g].pc \in Sending /\ Serves(g)' = Serves(g)
      BY <1>3, <1>6, <1>7, <2>3
    <3>2. Serves(g) \in Client /\ client[Serves(g)].pc \notin {"away", "prompt"} /\ Alive(Serves(g))
      BY <3>1, SendingFacts DEF Parts, AliveInv
    <3> QED
      BY <1>1, <1>2, <3>1, <3>2 DEF Alive
  <2>4. ASSUME "hangup" \notin Faults, NEW b \in Client, Alive(b) \/ client[b].inbox # <<>>
        PROVE  client'[b].pc \notin {"gone", "crashed"} \/ client'[b].inbox # <<>>
    <3>1. CASE b # c
      BY <1>1, <2>4, <3>1 DEF Alive
    <3>2. CASE b = c
      BY <1>2, <1>11, <2>4, <3>2 DEF Alive
    <3> QED
      BY <3>1, <3>2
  <2>5. ASSUME "hangup" \notin Faults, NEW d \in DOMAIN fds', fds'[d].kind = "conn"
        PROVE  client'[fds'[d].peer].pc \notin {"gone", "crashed"} \/ client'[fds'[d].peer].inbox # <<>>
    <3>1. fds'[d] = fds[d] /\ d \in DOMAIN fds
      BY <1>4, <1>5, <2>5
    <3>2. fds[d].peer \in Client
      BY <1>4, <2>5, <3>1, FdFacts DEF IInv, Types, TableTypes
    <3> QED
      BY <2>4, <2>5, <3>1, <3>2 DEF Parts, AliveInv
  <2>6. ASSUME "hangup" \notin Faults, NEW i \in DOMAIN backlog'
        PROVE  client'[backlog'[i]].pc \notin {"gone", "crashed"} \/ client'[backlog'[i]].inbox # <<>>
    <3>1. CASE i \in DOMAIN backlog /\ backlog'[i] = backlog[i]
      BY <1>10, <2>4, <2>6, <3>1 DEF Parts, AliveInv
    <3>2. CASE Connect(c) /\ backlog'[i] = c
      <4>1. Alive(c)
        BY <3>2 DEF Connect, Alive
      <4> QED
        BY <2>4, <2>6, <3>2, <4>1
    <3> QED
      BY <1>10, <2>6, <3>1, <3>2
  <2> QED
    BY <2>1, <2>2, <2>3, <2>5, <2>6 DEF AliveInv, Alive
<1>13. AnnouncedInv'
  <2> SUFFICES ASSUME NEW b \in Client, NEW i \in DOMAIN client'[b].out, client'[b].out[i].type = "file:"
               PROVE  /\ i = Len(client'[b].out) /\ client'[b].out[i].port # NoPort
                      /\ \E g \in Working' : Serves(g)' = b /\ threads'[g].pc = "accept"
    BY DEF AnnouncedInv
  <2>1. \E j \in DOMAIN client[b].out : client[b].out[j] = client'[b].out[i] /\ (j = Len(client[b].out) => i = Len(client'[b].out))
    <3>1. CASE b # c
      BY <1>1, <3>1
    <3>2. CASE b = c
      <4>1. PICK n \in Nat : \A k \in DOMAIN client'[c].out :
              /\ n + k \in DOMAIN client[c].out /\ client'[c].out[k] = client[c].out[n + k]
              /\ n + k = Len(client[c].out) => k = Len(client'[c].out)
        BY <1>2 DEF Ending
      <4> QED
        BY <3>2, <4>1
    <3> QED
      BY <3>1, <3>2
  <2> QED
    BY <1>3, <1>6, <1>7, <2>1 DEF Parts, AnnouncedInv
<1>14. PortsInv'
  <2>1. \A g \in Working' : threads'[g].port # NoPort
    BY <1>3, <1>6 DEF Parts, PortsInv
  <2>2. Len(threads) \in Nat /\ Passed \in Nat
    BY LenProperties DEF IInv, Types, ThreadTypes, Passed
  <2>3. IsFiniteSet(Arrived) /\ Cardinality(Arrived) \in Nat
    BY ArrivedFacts
  <2>4. Len(threads) + Len(backlog) + Passed <= Cardinality(Arrived)
    BY DEF Parts, PortsInv
  <2>5. CASE Connect(c)
    <3>1. c \notin Arrived /\ Arrived' = Arrived \cup {c}
      BY <1>1, <1>2, <2>5 DEF Arrived, Connect
    <3>2. Cardinality(Arrived') = Cardinality(Arrived) + 1
      BY <2>3, <3>1, FS_AddElement
    <3>3. Len(threads) + (Len(backlog) + 1) + Passed <= Cardinality(Arrived) + 1
      BY <1>10, <2>2, <2>3, <2>4
    <3>4. Len(threads') + Len(backlog') + Passed' <= Cardinality(Arrived')
      BY <1>3, <1>6, <1>10, <2>5, <3>2, <3>3
    <3> QED
      BY <1>3, <2>1, <3>4 DEF Parts, PortsInv
  <2>6. CASE ~Connect(c)
    <3>1. Arrived' = Arrived
      BY <1>1, <1>2, <2>6 DEF Arrived
    <3> QED
      BY <1>3, <1>6, <1>9, <2>1, <2>4, <2>6, <3>1 DEF Parts, PortsInv
  <2> QED
    BY <2>5, <2>6
<1> QED
  BY <1>8, <1>12, <1>13, <1>14 DEF Parts

LEMMA PlacesInit == Init => PlacesInv
<1> SUFFICES ASSUME Init PROVE Parts
  BY DEF PlacesInv, Parts
<1>1. /\ DOMAIN threads = {} /\ Live = {} /\ Working = {} /\ threads = <<>> /\ backlog = <<>>
      /\ counter = 0 /\ main.pc = "loop" /\ Arrived = {}
  BY DEF Init, Live, Working, ClientInit, Arrived
<1>2. Cardinality({}) = 0 /\ Len(<<>>) = 0 /\ DOMAIN <<>> = {}
  BY FS_EmptySet
<1>3. CountInv
  BY <1>1, <1>2, TransferAssumption DEF CountInv, Admitted, Room
<1>4. \A c \in Client : ~client[c].broken /\ client[c].inbox = <<>> /\ client[c].out = <<>>
  BY DEF Init, ClientInit
<1>5. \A d \in DOMAIN fds : fds[d].kind # "conn"
  BY DEF Init, Closed, Other
<1>6. AliveInv
  <2>1. <<"get">> # <<>> /\ <<"bad">> # <<>>
    OBVIOUS
  <2> QED
    BY <1>1, <1>2, <1>4, <1>5, <2>1 DEF AliveInv
<1>7. AnnouncedInv
  BY <1>2, <1>4 DEF AnnouncedInv
<1>8. PortsInv
  BY <1>1, <1>2 DEF Init, PortsInv, Passed
<1> QED
  BY <1>3, <1>6, <1>7, <1>8 DEF Parts

LEMMA PlacesKept ==
  ASSUME Mild, IInv, IInv', KeptInv, PlacesInv, [Next]_vars
  PROVE  PlacesInv'
<1> SUFFICES ASSUME ~server_shutdown' PROVE Parts'
  BY DEF PlacesInv, Parts
<1>1. ~server_shutdown /\ Parts
  BY ShutdownStays DEF PlacesInv, Parts
<1>2. CASE MainStep
  BY <1>1, <1>2, MainPlaces
<1>3. ASSUME NEW h \in DOMAIN threads, ThreadStep(h) PROVE Parts'
  BY <1>1, <1>3, ThreadPlaces
<1>4. ASSUME NEW c \in Client, \/ Connect(c) \/ Reading(c) \/ Leave(c)
                               \/ (\E cmd \in Commands : Ask(c, cmd)) /\ UNCHANGED <<fds, backlog, Others>>
      PROVE  Parts'
  BY <1>1, <1>4, ClientPlaces
<1>5. CASE UNCHANGED vars \/ \E p \in Port : Expire(p)
  <2>1. UNCHANGED <<fds, counter, main, threads, backlog, client>> /\ \A p \in Port : pool'[p] \in {pool[p], NoThread}
    <3>1. pool \in [Port -> {NoThread} \cup DOMAIN threads]
      BY DEF IInv, Types, ThreadTypes
    <3> QED
      BY <1>5, <3>1 DEF vars, Expire
  <2>2. Working' = Working /\ Live' = Live /\ Arrived' = Arrived /\ \A g \in Working : Serves(g)' = Serves(g)
    BY <2>1 DEF Working, Live, Arrived, Serves, Is
  <2>3. CountInv' /\ AliveInv' /\ AnnouncedInv'
    BY <1>1, <2>1, <2>2 DEF Parts, CountInv, Admitted, Room, AliveInv, AnnouncedInv, Alive
  <2>4. PortsInv'
    BY <1>1, <2>1, <2>2 DEF Parts, PortsInv, Passed
  <2> QED
    BY <2>3, <2>4 DEF Parts
<1> QED
  BY <1>2, <1>3, <1>4, <1>5 DEF Next

LEMMA PlacesFit ==
  ASSUME IInv, PlacesInv
  PROVE  HandlersWithinLimit /\ ("hangup" \notin Faults => PlacesCounted)
<1>1. Cardinality(Live) \in Nat \/ server_shutdown
  BY LiveFacts DEF IInv
<1>2. counter \in Int /\ Limit \in Nat /\ Admitted \in Nat /\ Room \in Nat
  BY TransferAssumption DEF IInv, Types, MainTypes, Admitted, Room
<1> DEFINE a == Cardinality(Live)
<1>3. ~server_shutdown => /\ a \in Nat /\ counter >= a + Admitted /\ counter + Room <= Limit
                          /\ "hangup" \notin Faults => counter = a + Admitted
  BY <1>1 DEF PlacesInv, CountInv
<1> HIDE DEF a
<1>4. ~server_shutdown => a <= Limit /\ ("hangup" \notin Faults => counter = a + Admitted)
  BY <1>2, <1>3
<1> QED
  BY <1>4 DEF HandlersWithinLimit, PlacesCounted, Admitted, a

\* PlacesCounted of the runs, for every number of files and descriptors and every
\* limit: until a shutdown the count is the number of threads, and one for the
\* client main has counted and not yet given a thread (server.cpp 452, 473, 331),
\* as long as every client comes at most once, finds a port, and ends with "exit" or
\* "shutdown". Files may fail at any point and ports be granted twice.
THEOREM PlacesHold == Mild /\ "hangup" \notin Faults => (Spec => []PlacesCounted)
<1> SUFFICES ASSUME Mild, "hangup" \notin Faults PROVE Spec => []PlacesCounted
  OBVIOUS
<1>1. "idle" \notin Faults
  BY DEF Mild
<1>2. Init => IInv /\ KeptInv /\ PlacesInv
  BY IInvInit, KeptInit, PlacesInit
<1>3. IInv /\ KeptInv /\ PlacesInv /\ [Next]_vars => (IInv /\ KeptInv /\ PlacesInv)'
  BY <1>1, NextKeeps, KeptKept, PlacesKept
<1>4. IInv /\ KeptInv /\ PlacesInv => PlacesCounted
  BY PlacesFit
<1> QED
  BY <1>2, <1>3, <1>4, PTL DEF Spec

\* HandlersWithinLimit of the runs, for every number of files and descriptors and
\* every limit: main tests the count before timed_accept and raises it after
\* (server.cpp 443-452) while threads lower it, and still no more than Limit threads
\* run, also when clients hang up between commands, which keeps their place for ever.
\* Not so with the other faults: a refused port and the SIGPIPE handler (54) lower
\* the count for threads that go on.
THEOREM LimitHolds == Mild => (Spec => []HandlersWithinLimit)
<1> SUFFICES ASSUME Mild PROVE Spec => []HandlersWithinLimit
  OBVIOUS
<1>1. "idle" \notin Faults
  BY DEF Mild
<1>2. Init => IInv /\ KeptInv /\ PlacesInv
  BY IInvInit, KeptInit, PlacesInit
<1>3. IInv /\ KeptInv /\ PlacesInv /\ [Next]_vars => (IInv /\ KeptInv /\ PlacesInv)'
  BY <1>1, NextKeeps, KeptKept, PlacesKept
<1>4. IInv /\ KeptInv /\ PlacesInv => HandlersWithinLimit
  BY PlacesFit
<1> QED
  BY <1>2, <1>3, <1>4, PTL DEF Spec
-------------------------------------------------------------------------------
(***************************************************************************)
(* Nobody dies, and no two transfers under way have the same port: the     *)
(* server has a use for every descriptor it has open, and sends every file *)
(* to every client, however many it serves at once.                        *)
(***************************************************************************)
\* three descriptors for each client served at once, above the standard ones
Calm == Mild /\ Faults \subseteq {"expire"} /\ Descriptors >= 3 * Limit + 2

\* The behaviours in which the name server grants no thread a port that another one is
\* still sending from, having released it after its first file (server.cpp 324).
Transfers == {h \in DOMAIN threads : threads[h].pc \in Sending}
Unshared  ==
  ~server_shutdown => \A h, g \in Transfers : threads[h].port = threads[g].port => h = g

UnsharedSpec == Init /\ [][Next /\ Unshared']_vars

\* What main has accepted and no thread has taken.
Given == IF main.pc \in {"accepted", "admitted"} THEN {main.sock_fd} ELSE {}

\* The standard descriptors are not sockets, and the others somebody's.
OwnedInv ==
  ~server_shutdown =>
    /\ \A d \in 0 .. 2 : fds[d] = Other
    /\ \A d \in 3 .. Descriptors :
         fds[d].kind # "closed" => d \in Given \/ \E h \in Working : d \in Own(threads[h])

\* The client that shuts the server down is the last one served.
Lasting == server_shutdown => Working = {} /\ main.pc # "admitted"

\* What a client has of the directory, the file on its way from one connection to the
\* disk included, and what its thread has sent it.
Full(p) == p.got \cup (IF p.pc = "data" /\ p.data # NoData THEN {p.data.file} ELSE {})
Sent(t) == 1 .. (IF t.pc \in {"md5", "next"} THEN t.file ELSE t.file - 1)
Fetching(t, f) == t.pc = "send" \/ (t.pc = "accept" /\ f[t.lsock].queue # <<>>)
SentInv ==
  /\ \A c \in Client : client[c].inbox = <<"get">> => Full(client[c]) = {}
  /\ \A h \in Working : threads[h].pc \in Sending => Full(client[Serves(h)]) = Sent(threads[h])
  /\ \A h \in Working : Fetching(threads[h], fds) => client[Serves(h)].pc = "data"
  /\ \A c \in Client : \A i \in DOMAIN client[c].out :
       client[c].out[i].type = "done" => Full(client[c]) = 1 .. Files

CalmInv == OwnedInv /\ SentInv
-------------------------------------------------------------------------------
\* Not all descriptors are in use while a thread wants one more: a thread that runs has
\* three at most, this one two, and main one for a thread that there is room for.
LEMMA Spared ==
  ASSUME Calm, IInv, CountInv, ~server_shutdown, NEW h \in Working, threads[h].pc # "send"
  PROVE  \E d \in 3 .. Descriptors : d \notin Given /\ \A g \in Working : d \notin Own(threads[g])
<1> DEFINE n == Cardinality(Live)
           D == 3 .. Descriptors
           S == Working \X (1 .. 3)
           x == <<h, 3>>
           T == IF Given = {} THEN S \ {x} ELSE S
           Slot(s) == IF s = x THEN main.sock_fd
                    ELSE IF s[2] = 1 THEN threads[s[1]].sock
                    ELSE IF s[2] = 2 THEN threads[s[1]].lsock ELSE threads[s[1]].tsock
<1>1. Live = Working /\ IsFiniteSet(Live) /\ n \in Nat
  BY LiveFacts DEF IInv
<1>2. counter \in Int /\ "hangup" \notin Faults /\ Limit \in Nat /\ Descriptors \in Nat /\ Descriptors >= 3 * Limit + 2
  BY TransferAssumption DEF IInv, Types, MainTypes, Calm
<1>3. n <= Limit /\ (Given # {} => n + 1 <= Limit)
  <2>1. counter = n + Admitted /\ counter + Room <= Limit
    BY <1>2 DEF CountInv
  <2>2. /\ Room \in Nat /\ Admitted \in Nat
        /\ Given # {} => Room + Admitted = 1
    BY DEF Room, Admitted, Given
  <2> HIDE DEF n
  <2> QED
    BY <1>1, <1>2, <2>1, <2>2
<1>4. IsFiniteSet(S) /\ Cardinality(S) = n * 3
  <2>0. 1 \in Int /\ 3 \in Int /\ ~(1 > 3) /\ 3 - 1 + 1 = 3
    OBVIOUS
  <2>1. IsFiniteSet(1 .. 3) /\ Cardinality(1 .. 3) = 3
    <3> HIDE DEF S
    <3> QED
      BY ONLY <2>0, FS_Interval
  <2> QED
    BY <1>1, <2>1, FS_Product
<1>5. x \in S
  OBVIOUS
<1>6. IsFiniteSet(T) /\ Cardinality(T) \in Nat /\ Cardinality(T) < 3 * Limit
  <2> HIDE DEF n, S, x
  <2>1. IsFiniteSet(S \ {x}) /\ Cardinality(S \ {x}) = n * 3 - 1
    BY <1>4, <1>5, FS_RemoveElement
  <2>2. CASE Given = {}
    BY <1>1, <1>2, <1>3, <2>1, <2>2, FS_CardinalityType
  <2>3. CASE Given # {}
    BY <1>1, <1>2, <1>3, <1>4, <2>3, FS_CardinalityType
  <2> QED
    BY <2>2, <2>3
<1>7. Cardinality(D) >= 3 * Limit
  <2>1. Cardinality(D) = IF 3 > Descriptors THEN 0 ELSE Descriptors - 3 + 1
    BY <1>2, FS_Interval
  <2> HIDE DEF D
  <2> QED
    BY <1>2, <2>1
<1> SUFFICES ASSUME \A d \in D : d \in Given \/ \E g \in Working : d \in Own(threads[g])
             PROVE  FALSE
  OBVIOUS
<1>8. ASSUME NEW d \in D PROVE \E s \in T : Slot(s) = d
  <2>1. CASE d \in Given
    <3>1. d = main.sock_fd /\ x \in T
      BY <1>5, <2>1 DEF Given
    <3> QED
      BY <3>1
  <2>2. ASSUME NEW g \in Working, d \in Own(threads[g]) PROVE \E s \in T : Slot(s) = d
    <3>1. \A k \in 1 .. 3 : <<g, k>> # x => <<g, k>> \in T
      OBVIOUS
    <3>2. <<g, 1>> # x /\ <<g, 2>> # x /\ (g # h => <<g, 3>> # x)
      OBVIOUS
    <3>3. Slot(<<g, 1>>) = threads[g].sock /\ Slot(<<g, 2>>) = threads[g].lsock
          /\ (g # h => Slot(<<g, 3>>) = threads[g].tsock)
      BY <3>2
    <3>4. d = threads[g].sock \/ d = threads[g].lsock \/ (d = threads[g].tsock /\ g # h)
      BY <2>2 DEF Own
    <3> HIDE DEF T, Slot, x
    <3>5. 1 \in 1 .. 3 /\ 2 \in 1 .. 3 /\ 3 \in 1 .. 3
      OBVIOUS
    <3> QED
      BY <3>1, <3>2, <3>3, <3>4, <3>5
  <2> QED
    BY <2>1, <2>2
<1> DEFINE R == {s \in T : Slot(s) \in D}
           F == [s \in R |-> Slot(s)]
<1> HIDE DEF D, T, Slot, n
<1>9. IsFiniteSet(R) /\ Cardinality(R) <= Cardinality(T) /\ Cardinality(R) \in Nat
  BY <1>6, FS_Subset, FS_CardinalityType
<1>10. F \in Surjection(R, D)
  BY <1>8 DEF Surjection
<1> HIDE DEF R, F
<1>11. Cardinality(D) <= Cardinality(R) /\ Cardinality(D) \in Nat
  BY <1>9, <1>10, FS_Surjection, FS_CardinalityType
<1> QED
  BY <1>2, <1>6, <1>7, <1>9, <1>11

\* A thread that wants a descriptor finds one, and nobody else listens on its port.
LEMMA Spare ==
  ASSUME Calm, IInv, CountInv, OwnedInv, Unshared, ~server_shutdown, NEW h \in Working
  PROVE  /\ Lowest \in -1 .. Descriptors /\ Lowest \notin 0 .. 2
         /\ threads[h].pc \in {"listen", "accept"} => Lowest \in 3 .. Descriptors
         /\ threads[h].pc = "listen" => Listeners(threads[h].port) = {}
<1>1. /\ DOMAIN fds = 0 .. Descriptors /\ TableTypes /\ Descriptors \in Nat
      /\ \A d \in 0 .. Descriptors : fds[d] \in Fd
  BY TransferAssumption DEF Calm, IInv, Types, TableTypes
<1>2. /\ Lowest # -1 => Lowest \in 0 .. Descriptors /\ fds[Lowest].kind = "closed"
      /\ \A d \in 0 .. Descriptors : IF fds[d].kind = "closed" THEN Lowest # -1 ELSE d # Lowest
  BY <1>1, LowestFacts
<1>3. \A d \in 0 .. 2 : fds[d].kind = "other"
  BY DEF OwnedInv, Other
<1>4. Lowest \notin 0 .. 2
  <2>1. ASSUME Lowest \in 0 .. 2 PROVE FALSE
    <3>1. Lowest # -1 /\ fds[Lowest].kind = "other"
      BY <1>3, <2>1
    <3> QED
      BY <1>2, <3>1
  <2> QED
    BY <2>1
<1>5. ASSUME threads[h].pc \in {"listen", "accept"} PROVE Lowest # -1
  <2>1. PICK d \in 3 .. Descriptors : d \notin Given /\ \A g \in Working : d \notin Own(threads[g])
    BY <1>5, Spared
  <2>2. fds[d].kind = "closed" /\ d \in 0 .. Descriptors
    BY <1>1, <2>1 DEF OwnedInv
  <2> QED
    BY <1>2, <2>2
<1>6. ASSUME threads[h].pc = "listen", NEW d \in Listeners(threads[h].port) PROVE FALSE
  <2>1. d \in 0 .. Descriptors /\ fds[d].kind = "listen" /\ fds[d].port = threads[h].port
    BY <1>1, <1>6 DEF Listeners, Is
  <2>2. d \in 3 .. Descriptors
    <3>1. d \notin 0 .. 2
      BY <1>3, <2>1
    <3> QED
      BY <1>1, <2>1, <3>1
  <2>3. d \notin Given
    <3>1. ASSUME d \in Given PROVE fds[d].kind = "conn"
      BY <3>1 DEF Given, IInv, Passing, Fresh
    <3> QED
      BY <2>1, <3>1
  <2>4. PICK g \in Working : d \in Own(threads[g])
    BY <2>1, <2>2, <2>3 DEF OwnedInv
  <2>5. threads[g].pc \in Offering /\ d = threads[g].lsock /\ fds[d].port = threads[g].port
    <3>1. Holds(threads[g], fds)
      BY PeerFacts
    <3> QED
      BY <2>1, <2>4, <3>1 DEF Own, Holds, Data
  <2>6. g \in Transfers /\ h \in Transfers /\ g # h
    BY <1>6, <2>5, PeerFacts DEF Transfers, Sending, Offering
  <2> QED
    BY <2>1, <2>5, <2>6 DEF Unshared
<1>9. Lowest \in -1 .. Descriptors /\ (Lowest # -1 => Lowest \in 3 .. Descriptors)
  <2>1. Lowest = -1 \/ Lowest \in 0 .. Descriptors
    BY <1>2
  <2> QED
    BY <1>1, <1>4, <2>1
<1> QED
  BY <1>4, <1>5, <1>6, <1>9

\* What a thread may do: nothing fails.
LEMMA Smooth ==
  ASSUME Calm, IInv, Parts, OwnedInv, Unshared, ~server_shutdown, NEW h \in DOMAIN threads, ThreadStep(h)
  PROVE  /\ h \in Working /\ Serves(h) \in Client /\ (threads[h].pc # "recv" => Alive(Serves(h)))
         /\ threads[h].pc = "send" => Reads(h) = Serves(h)
         /\ \/ ReceiveGet(h) \/ ReceiveBad(h) \/ ReceiveExit(h) \/ ReceiveShutdown(h)
            \/ Announce(h) /\ Lowest \in 3 .. Descriptors
            \/ AcceptData(h) /\ Lowest \in 3 .. Descriptors
            \/ SendFile(h) \/ NextFile(h)
            \/ SendMd5(h) /\ Send(h, Message("md5sum:", threads[h].file, 0))
<1> DEFINE c == Serves(h)
<1>1. "hangup" \notin Faults /\ "file" \notin Faults /\ "slow" \notin Faults
  BY DEF Calm
<1>2. h \in Working /\ threads[h].pc # "stop"
  <2>1. threads[h].pc \in {"recv", "listen", "accept", "send", "md5", "next", "stop"}
    BY DEF ThreadStep, ReceiveGet, ReceiveBad, ReceiveExit, ReceiveShutdown, StopAccepting, ReceiveNothing,
       ReceiveFails, Receive, Announce, AnnounceFails, AcceptData, AcceptDataFails, SendFile, SendFileFails,
       SendMd5, NextFile, At
  <2>2. threads[h].pc # "stop"
    BY DEF IInv, Types, ThreadTypes
  <2> QED
    BY <2>1, <2>2 DEF Working
<1>3. c \in Client /\ c # NoClient /\ threads[h] \in ThreadState /\ Holds(threads[h], fds) /\ c = Peer(threads[h], fds)
      /\ DOMAIN fds = 0 .. Descriptors
  BY <1>2, PeerFacts DEF IInv, Types, TableTypes
<1>4. threads[h].sock \in DOMAIN fds /\ threads[h].lsock \in DOMAIN fds /\ threads[h].tsock \in DOMAIN fds
  BY <1>3 DEF ThreadState
<1>5. threads[h].pc \in Sending => Alive(c)
  BY <1>2 DEF Parts, AliveInv
<1>6. threads[h].pc \in {"listen", "accept"} => Lowest \in 3 .. Descriptors
  BY <1>2, Spare DEF Parts
<1>7. threads[h].pc = "listen" => Listeners(threads[h].port) = {}
  BY <1>2, Spare DEF Parts
<1>8. \A d \in 3 .. Descriptors : d # -1
  OBVIOUS
<1>9. threads[h].pc = "send" => Reads(h) = c
  <2>1. threads[h].pc = "send" => fds[threads[h].tsock] = Data(c)
    BY <1>3 DEF Holds
  <2> QED
    BY <1>4, <2>1 DEF Reads, Is, Data
<1>10. ~(Drained(threads[h].sock) /\ ~Alive(c))
  <2>1. fds[threads[h].sock].kind = "conn" /\ fds[threads[h].sock].peer = c
    BY <1>3 DEF Holds, Peer
  <2>2. Alive(c) \/ client[c].inbox # <<>>
    BY <1>1, <1>4, <2>1 DEF Parts, AliveInv
  <2> QED
    BY <1>4, <2>1, <2>2 DEF Drained, Is
<1>11. fds[threads[h].sock].kind = "conn" /\ fds[threads[h].sock].peer = c /\ Is(threads[h].sock, "conn")
  BY <1>3, <1>4 DEF Holds, Peer, Is
<1>12. ~ReceiveNothing(h) /\ ~ReceiveFails(h)
  BY <1>10, <1>11 DEF ReceiveNothing, ReceiveFails
<1>13. ~StopAccepting(h)
  BY <1>2 DEF StopAccepting, At
<1>14. ~AnnounceFails(h)
  BY <1>6, <1>7, <1>8 DEF AnnounceFails, At
<1>15. ~AcceptDataFails(h)
  <2>1. threads[h].pc = "accept" => Is(threads[h].lsock, "listen")
    BY <1>3, <1>4 DEF Holds, Is, Offering
  <2>2. threads[h].pc = "accept" => Alive(c)
    BY <1>5 DEF Sending, Offering
  <2> QED
    BY <1>1, <1>3, <2>1, <2>2 DEF AcceptDataFails, At
<1>16. ~SendFileFails(h)
  <2>1. threads[h].pc = "send" => Alive(c)
    BY <1>5 DEF Sending, Offering
  <2> QED
    BY <1>1, <1>3, <1>9, <2>1 DEF SendFileFails, At
<1>17. SendMd5(h) => Send(h, Message("md5sum:", threads[h].file, 0))
  BY <1>1 DEF SendMd5
<1>18. threads[h].pc # "recv" => Alive(c)
  <2>1. threads[h].pc # "recv" => threads[h].pc \in Sending
    BY <1>2, <1>3 DEF Working, ThreadState, Sending, Offering
  <2> QED
    BY <1>5, <2>1
<1>19. /\ Announce(h) => threads[h].pc = "listen"
       /\ AcceptData(h) => threads[h].pc = "accept"
  BY DEF Announce, AcceptData, At
<1> QED
  BY <1>2, <1>3, <1>6, <1>9, <1>12, <1>13, <1>14, <1>15, <1>16, <1>17, <1>18, <1>19 DEF ThreadStep

\* The descriptors a thread opens and closes are its own.
LEMMA ThreadOwned ==
  ASSUME Calm, IInv, IInv', Parts, OwnedInv, Unshared, ~server_shutdown, ~server_shutdown',
         NEW h \in DOMAIN threads, ThreadStep(h)
  PROVE  OwnedInv'
<1> DEFINE t == threads[h]
           u == threads'[h]
           All(f, D) == /\ \A d \in 0 .. 2 : f[d] = Other
                        /\ \A d \in 3 .. Descriptors : f[d].kind # "closed" => d \in D
           Rest == Given \cup UNION {Own(threads[g]) : g \in Working \ {h}}
<1>1. /\ DOMAIN fds = 0 .. Descriptors /\ Descriptors \in Nat /\ Descriptors >= 2
      /\ \A d \in 0 .. Descriptors : fds[d] \in Fd
  BY TransferAssumption DEF IInv, Types, TableTypes
<1>2. h \in Working
  BY Smooth
<1>3. main' = main /\ Given' = Given
  BY ThreadLeaves DEF Given
<1>4. All(fds, Own(t) \cup Rest)
  BY <1>2 DEF OwnedInv
<1>5. t \in ThreadState /\ Holds(t, fds)
  BY <1>2, PeerFacts
<1>12. threads \in Seq(ThreadState) /\ DOMAIN threads' = DOMAIN threads
       /\ \A g \in DOMAIN threads : g # h => threads'[g] = threads[g]
  <2>1. threads \in Seq(ThreadState)
    BY DEF IInv, Types, ThreadTypes
  <2>2. threads' = threads \/ \E x : threads' = [threads EXCEPT ![h] = x]
    BY DEF ThreadStep, ReceiveGet, ReceiveBad, ReceiveExit, ReceiveShutdown, StopAccepting, ReceiveNothing,
       ReceiveFails, Announce, AnnounceFails, AcceptData, AcceptDataFails, SendFile, SendFileFails, SendMd5,
       NextFile, Go, Finish
  <2> QED
    BY <2>1, <2>2
<1>20. \A d \in Rest : d \in Given' \/ \E g \in Working' : d \in Own(threads'[g])
  <2>1. ASSUME NEW g \in Working, g # h PROVE g \in Working' /\ threads'[g] = threads[g]
    BY <1>12, <2>1 DEF Working
  <2> QED
    BY <1>3, <2>1
<1> HIDE DEF Rest
<1>6. ASSUME All(fds', Own(u) \cup Rest), h \in Working' PROVE OwnedInv'
  BY <1>6, <1>20 DEF OwnedInv
<1>7. ASSUME All(fds', Rest) PROVE OwnedInv'
  BY <1>7, <1>20 DEF OwnedInv
<1>8. \A d \in 0 .. 2 : d \in 0 .. Descriptors /\ fds[d].kind = "other"
  BY <1>1, <1>4 DEF Other
<1>9. ASSUME NEW D, Close(D), D \cap (0 .. 2) = {} PROVE All(fds', (Own(t) \cup Rest) \ D)
  <2>1. \A d \in 0 .. Descriptors : fds'[d] = IF d \in D THEN Closed ELSE fds[d]
    BY <1>1, <1>9 DEF Close
  <2>2. \A d \in 3 .. Descriptors : d \in 0 .. Descriptors
    BY <1>1
  <2> QED
    BY <1>4, <1>8, <1>9, <2>1, <2>2 DEF Closed
<1>10. ASSUME NEW d \in 0 .. Descriptors, fds[d].kind # "other" PROVE d \notin 0 .. 2
  BY <1>8, <1>10
<1>11. ASSUME t.pc \notin Offering, u.pc \notin Offering, u.sock = t.sock, fds' = fds, h \in Working' PROVE OwnedInv'
  <2>1. Own(u) = Own(t)
    BY <1>11 DEF Own, Offering
  <2> QED
    BY <1>4, <1>6, <1>11, <2>1
<1> HIDE DEF All
<1>13. u.pc \notin {"stop", "ended"} => h \in Working'
  BY <1>12 DEF Working
<1>14. CASE ReceiveGet(h) \/ ReceiveBad(h) \/ SendMd5(h) \/ NextFile(h)
  <2>1. /\ t.pc \in {"recv", "md5", "next"} /\ fds' = fds
        /\ u.pc \in {"listen", "recv", "next"} /\ u.sock = t.sock
    BY <1>5, <1>14 DEF ReceiveGet, ReceiveBad, Receive, SendMd5, NextFile, At, Go, ThreadState
  <2> QED
    BY <1>11, <1>13, <2>1 DEF Offering
<1>15. CASE ReceiveExit(h)
  <2>1. Close({t.sock}) /\ t.pc = "recv"
    BY <1>15 DEF ReceiveExit, Receive, At
  <2>2. t.sock \in 0 .. Descriptors /\ fds[t.sock].kind = "conn"
    BY <1>5 DEF ThreadState, Holds
  <2>3. {t.sock} \cap (0 .. 2) = {}
    BY <1>10, <2>2
  <2>4. Own(t) = {t.sock}
    BY <2>1 DEF Own, Offering
  <2>5. All(fds', Rest)
    BY <1>9, <2>1, <2>3, <2>4 DEF All
  <2> QED
    BY <1>7, <2>5
<1>16. CASE Announce(h) /\ Lowest \in 3 .. Descriptors
  <2> DEFINE l == Lowest
  <2>1. /\ fds' = [fds EXCEPT ![l] = Listening(t.port, <<>>)]
        /\ threads' = [threads EXCEPT ![h].pc = "accept", ![h].lsock = l]
        /\ t.pc = "listen"
    BY <1>16 DEF Announce, At
  <2> HIDE DEF l
  <2>2. u.pc = "accept" /\ u.lsock = l /\ u.sock = t.sock
    BY <1>5, <2>1 DEF ThreadState
  <2>3. Own(u) = Own(t) \cup {l}
    BY <2>1, <2>2 DEF Own, Offering
  <2>4. \A d \in 0 .. Descriptors : d # l => fds'[d] = fds[d]
    BY <1>1, <2>1
  <2>5. l \notin 0 .. 2
    BY <1>16 DEF l
  <2>6. \A d \in 3 .. Descriptors : d \in 0 .. Descriptors
    BY <1>1
  <2>7. All(fds', Own(u) \cup Rest)
    BY <1>4, <1>8, <2>3, <2>4, <2>5, <2>6 DEF All
  <2> QED
    BY <1>6, <1>13, <2>2, <2>7
<1>17. CASE AcceptData(h) /\ Lowest \in 3 .. Descriptors
  <2> DEFINE l == Lowest
             m == t.lsock
  <2>1. l # -1 /\ ~(l <= 0)
    BY <1>17
  <2>2. /\ \E x, y : fds' = [fds EXCEPT ![m] = x, ![l] = y]
        /\ threads' = [threads EXCEPT ![h].tsock = l, ![h].pc = "send"]
        /\ t.pc = "accept"
    BY <1>17, <2>1 DEF AcceptData, At
  <2>3. m \in 0 .. Descriptors /\ fds[m].kind = "listen"
    BY <1>5, <2>2 DEF ThreadState, Holds, Offering
  <2>5. l \notin 0 .. 2 /\ m \notin 0 .. 2
    BY <1>10, <1>17, <2>3
  <2> HIDE DEF l, m
  <2>6. u.pc = "send" /\ u.tsock = l /\ u.sock = t.sock /\ u.lsock = t.lsock
    BY <1>5, <2>2 DEF ThreadState
  <2>7. Own(u) = Own(t) \cup {l} /\ m \in Own(t)
    BY <2>2, <2>6 DEF Own, Offering, m
  <2>8. \A d \in 0 .. Descriptors : d # l /\ d # m => fds'[d] = fds[d]
    BY <1>1, <2>2
  <2>9. \A d \in 3 .. Descriptors : d \in 0 .. Descriptors
    BY <1>1
  <2>10. All(fds', Own(u) \cup Rest)
    BY <1>4, <1>8, <2>5, <2>7, <2>8, <2>9 DEF All
  <2> QED
    BY <1>6, <1>13, <2>6, <2>10
<1>18. CASE SendFile(h)
  <2>1. Close({t.tsock, t.lsock}) /\ t.pc = "send" /\ threads' = [threads EXCEPT ![h].pc = "md5"]
    BY <1>18 DEF SendFile, At, Go
  <2>2. u.pc = "md5" /\ u.sock = t.sock
    BY <1>5, <2>1 DEF ThreadState
  <2>3. {t.tsock, t.lsock} \cap (0 .. 2) = {}
    <3>1. t.tsock \in 0 .. Descriptors /\ t.lsock \in 0 .. Descriptors
      BY <1>5 DEF ThreadState
    <3>2. fds[t.lsock].kind = "listen" /\ fds[t.tsock].kind = "data"
      BY <1>5, <2>1 DEF Holds, Offering, Data
    <3> QED
      BY <1>10, <3>1, <3>2
  <2>4. Own(t) \ {t.tsock, t.lsock} \subseteq Own(u)
    BY <2>1, <2>2 DEF Own, Offering
  <2>5. All(fds', Own(u) \cup Rest)
    BY <1>9, <2>1, <2>3, <2>4 DEF All
  <2> QED
    BY <1>6, <1>13, <2>2, <2>5
<1>19. ~ReceiveShutdown(h)
  BY DEF ReceiveShutdown
<1> QED
  BY <1>14, <1>15, <1>16, <1>17, <1>18, <1>19, Smooth

\* Main gives the descriptor it accepts on to a thread.
LEMMA MainOwned ==
  ASSUME Calm, IInv, IInv', Parts, OwnedInv, ~server_shutdown, MainStep
  PROVE  OwnedInv'
<1>1. DOMAIN fds = 0 .. Descriptors /\ Descriptors \in Nat /\ threads \in Seq(ThreadState)
  BY TransferAssumption DEF IInv, Types, TableTypes, ThreadTypes
<1>2. /\ \A d \in 0 .. 2 : fds[d] = Other
      /\ \A d \in 3 .. Descriptors :
           fds[d].kind # "closed" => d \in Given \/ \E h \in Working : d \in Own(threads[h])
  BY DEF OwnedInv
<1>3. CASE UNCHANGED <<fds, threads>> /\ Given \subseteq Given'
  BY <1>2, <1>3 DEF OwnedInv, Working
<1>4. CASE Loop
  BY <1>3, <1>4 DEF Loop, MainAt, Given
<1>5. CASE Accept /\ Lowest = -1
  BY <1>3, <1>5 DEF Accept, MainAt, Given
<1>6. CASE Accept /\ Lowest # -1
  <2>1. fds' = [fds EXCEPT ![Lowest] = Conn(Head(backlog))] /\ Given' = {Lowest} /\ Given = {} /\ threads' = threads
    BY <1>6 DEF Accept, MainAt, Given
  <2>2. Lowest \in 0 .. Descriptors /\ fds[Lowest].kind = "closed"
    BY <1>6, LowestFacts DEF IInv, Types
  <2>3. \A d \in 0 .. 2 : d # Lowest
    BY <1>2, <2>2 DEF Other
  <2>4. \A d \in 0 .. Descriptors : d # Lowest => fds'[d] = fds[d]
    BY <1>1, <2>1
  <2>5. /\ \A d \in 3 .. Descriptors : d \in 0 .. Descriptors
        /\ \A d \in 0 .. 2 : d \in 0 .. Descriptors
    BY <1>1, TransferAssumption
  <2>6. Working' = Working /\ \A g \in Working : threads'[g] = threads[g]
    BY <2>1 DEF Working
  <2> QED
    BY <1>2, <2>1, <2>3, <2>4, <2>5, <2>6 DEF OwnedInv
<1>7. ~AcceptTimesOut
  BY DEF AcceptTimesOut, Calm
<1>8. CASE Admit
  <2>1. UNCHANGED <<fds, threads>> /\ main.pc = "accepted" /\ main' = [pc |-> "admitted", sock_fd |-> main.sock_fd]
    BY <1>8 DEF Admit, MainAt
  <2>2. Given' = Given
    BY <2>1 DEF Given
  <2> QED
    BY <1>3, <2>1, <2>2
<1>9. CASE Spawn
  <2> DEFINE n == Len(threads) + 1
  <2>1. main.pc = "admitted" /\ fds' = fds /\ Given' = {} /\ Given = {main.sock_fd}
    BY <1>9 DEF Spawn, MainAt, Given
  <2>2. PICK p : threads' = Append(threads, Thread("recv", main.sock_fd, p))
    BY <1>9 DEF Spawn
  <2> DEFINE t == Thread("recv", main.sock_fd, p)
  <2>3. t.pc = "recv" /\ t.sock = main.sock_fd
    BY DEF Thread
  <2>4. n \in DOMAIN threads' /\ threads'[n] = t
        /\ \A g \in DOMAIN threads : g \in DOMAIN threads' /\ threads'[g] = threads[g]
    <3>1. DOMAIN threads = 1 .. Len(threads) /\ Len(threads) \in Nat
      BY <1>1, LenProperties
    <3> HIDE DEF t
    <3>2. threads' = [i \in 1 .. n |-> IF i = n THEN t ELSE threads[i]]
      BY <1>1, <2>2 DEF t
    <3> QED
      BY <3>1, <3>2
  <2>5. n \in Working' /\ Own(threads'[n]) = {main.sock_fd}
    BY <2>3, <2>4 DEF Working, Own, Offering
  <2>6. \A g \in Working : g \in Working' /\ threads'[g] = threads[g]
    BY <2>4 DEF Working
  <2> QED
    BY <1>2, <2>1, <2>5, <2>6 DEF OwnedInv
<1> QED
  BY <1>4, <1>5, <1>6, <1>7, <1>8, <1>9 DEF MainStep

\* A client that fetches a file is queued at a listener, and that is all.
LEMMA ClientOwned ==
  ASSUME Types, Types', OwnedInv, ~server_shutdown, NEW c \in Client,
         \/ Connect(c) \/ Reading(c) \/ Leave(c)
         \/ (\E cmd \in Commands : Ask(c, cmd)) /\ UNCHANGED <<fds, backlog, Others>>
  PROVE  OwnedInv'
<1>1. UNCHANGED <<main, threads>>
  BY DEF Connect, Reading, TakeFile, DataLost, EndOfStream, Leave, Others
<1>2. \A d \in 0 .. Descriptors : fds'[d] = fds[d] \/ fds[d].kind = "listen"
  <2>1. CASE TakeFile(c)
    BY <2>1 DEF TakeFile, Listeners, Is, Types, TableTypes
  <2> QED
    BY <2>1 DEF Connect, Reading, DataLost, EndOfStream, Leave, Others
<1>3. Given' = Given /\ Working' = Working
  BY <1>1 DEF Given, Working
<1>4. \A d \in 0 .. 2 : fds[d].kind = "other" /\ fds[d] = Other
  BY DEF OwnedInv, Other
<1>5. /\ \A d \in 0 .. 2 : d \in 0 .. Descriptors
      /\ \A d \in 3 .. Descriptors : d \in 0 .. Descriptors
  BY TransferAssumption
<1>6. \A d \in 0 .. 2 : fds'[d] = Other
  BY <1>2, <1>4, <1>5
<1>7. \A d \in 3 .. Descriptors : fds'[d].kind # "closed" => fds[d].kind # "closed"
  BY <1>2, <1>5
<1> QED
  BY <1>1, <1>3, <1>6, <1>7 DEF OwnedInv
-------------------------------------------------------------------------------
\* A checksum a client reads is that of the file it has: it deletes none.
LEMMA NothingDeleted ==
  ASSUME IInv, NEW c \in Client, NEW r \in MayRead(c)
  PROVE  Checked(client[c], r) = client[c].got
<1>1. 1 \in DOMAIN client[c].out /\ r[1] = client[c].out[1]
  BY LeftEnding DEF IInv, Types
<1>2. Polite(client[c], c)
  BY DEF IInv, Conversations
<1>3. IsSum(r) => client[c].data.file = r[1].file
  BY <1>1, <1>2 DEF Polite, IsSum
<1> QED
  BY <1>3 DEF Checked

\* Whatever a client reads, and whenever, it has the files it had, until it asks anew
\* or leaves.
LEMMA ClientFull ==
  ASSUME IInv, NEW c \in Client,
         \/ Connect(c) \/ Reading(c) \/ Leave(c)
         \/ (\E cmd \in Commands : Ask(c, cmd)) /\ UNCHANGED <<fds, backlog, Others>>
  PROVE  /\ \/ client[c].pc = "prompt" /\ Full(client'[c]) = {} /\ client'[c].out = <<>>
            \/ /\ Full(client'[c]) = Full(client[c]) /\ client'[c].inbox = client[c].inbox
               /\ \A i \in DOMAIN client'[c].out :
                    \E j \in DOMAIN client[c].out : client'[c].out[i] = client[c].out[j]
            \/ Leave(c) /\ Full(client'[c]) \subseteq Full(client[c]) /\ client'[c].inbox = client[c].inbox
               /\ client'[c].out = <<>>
         /\ \/ main.pc # "ended" /\ client[c].pc = "data" /\ client[c].data = NoData => client'[c].pc = "data"
            \/ Leave(c)
<1> DEFINE p == client[c]
           Goal == /\ \/ p.pc = "prompt" /\ Full(client'[c]) = {} /\ client'[c].out = <<>>
                      \/ /\ Full(client'[c]) = Full(p) /\ client'[c].inbox = p.inbox
                         /\ \A i \in DOMAIN client'[c].out : \E j \in DOMAIN p.out : client'[c].out[i] = p.out[j]
                      \/ Leave(c) /\ Full(client'[c]) \subseteq Full(p) /\ client'[c].inbox = p.inbox
                         /\ client'[c].out = <<>>
                   /\ \/ main.pc # "ended" /\ p.pc = "data" /\ p.data = NoData => client'[c].pc = "data"
                      \/ Leave(c)
<1> SUFFICES Goal
  OBVIOUS
<1>1. client \in [Client -> ClientState] /\ p \in ClientState /\ Polite(p, c)
  BY DEF IInv, Types, ClientTypes, Conversations
<1>2. ASSUME NEW r \in MayRead(c)
      PROVE  LET u == Heard(c, r) IN
             /\ u \in ClientState /\ u.pc = "waiting" /\ u.inbox = p.inbox /\ u.got = p.got /\ p.pc = "waiting"
             /\ \A i \in DOMAIN u.out : \E j \in DOMAIN p.out : u.out[i] = p.out[j]
  <2>1. /\ Heard(c, r) \in ClientState /\ Heard(c, r).pc = "waiting" /\ Heard(c, r).inbox = p.inbox
        /\ Heard(c, r).out = Left(p, r) /\ p.pc = "waiting"
        /\ \A i \in DOMAIN Left(p, r) : Len(r) + i \in DOMAIN p.out /\ Left(p, r)[i] = p.out[Len(r) + i]
    BY HeardFacts, MayReadFacts DEF IInv, Types
  <2>2. Checked(p, r) = p.got
    BY NothingDeleted
  <2>3. Heard(c, r).got = p.got
    BY <1>1, <2>2 DEF Heard, ClientState
  <2> QED
    BY <2>1, <2>3
<1>3. DOMAIN <<>> = {}
  OBVIOUS
<1> HIDE DEF p
<1>4. ASSUME NEW q, client' = [client EXCEPT ![c] = q], q.got = p.got, q.inbox = p.inbox,
             p.pc # "data" \/ (p.data = NoData /\ main.pc = "ended"), q.pc # "data" \/ q.data = NoData,
             \A i \in DOMAIN q.out : \E j \in DOMAIN p.out : q.out[i] = p.out[j]
      PROVE  Goal
  <2>1. client'[c] = q
    BY <1>1, <1>4
  <2>2. Full(q) = Full(p)
    BY <1>4 DEF Full
  <2> QED
    BY <1>4, <2>1, <2>2
<1>5. ASSUME NEW u \in ClientState, client' = [client EXCEPT ![c] = Dead(u)], u.got = p.got, u.inbox = p.inbox,
             p.pc # "data" \/ (p.data = NoData /\ main.pc = "ended")
      PROVE  Goal
  <2> DEFINE q == Dead(u)
  <2>1. q.pc # "data" /\ q.inbox = p.inbox /\ q.out = <<>>
    BY <1>5, DeadFacts
  <2>2. q.got = p.got
    BY <1>5 DEF Dead, ClientState
  <2>3. client' = [client EXCEPT ![c] = q]
    BY <1>5
  <2> HIDE DEF q, Goal
  <2> QED
    BY <1>3, <1>4, <1>5, <2>1, <2>2, <2>3
<1>6. ASSUME NEW u \in ClientState, NEW pc \in {"prompt", "waiting", "spins"},
             client' = [client EXCEPT ![c] = [u EXCEPT !.pc = pc]], u.got = p.got, u.inbox = p.inbox,
             p.pc # "data" \/ (p.data = NoData /\ main.pc = "ended"),
             \A i \in DOMAIN u.out : \E j \in DOMAIN p.out : u.out[i] = p.out[j]
      PROVE  Goal
  <2> DEFINE q == [u EXCEPT !.pc = pc]
  <2>1. q.pc = pc /\ q.got = p.got /\ q.inbox = p.inbox /\ q.out = u.out
    BY <1>6 DEF ClientState
  <2>2. client' = [client EXCEPT ![c] = q]
    BY <1>6
  <2> HIDE DEF q, Goal
  <2>3. q.pc # "data" /\ q.got = p.got /\ q.inbox = p.inbox
    BY <1>6, <2>1
  <2>4. \A i \in DOMAIN q.out : \E j \in DOMAIN p.out : q.out[i] = p.out[j]
    BY <1>6, <2>1
  <2>5. p.pc # "data" \/ (p.data = NoData /\ main.pc = "ended")
    BY <1>6
  <2> QED
    BY <1>4, <2>2, <2>3, <2>4, <2>5
<1>7. CASE Connect(c)
  <2>1. p.pc = "away" /\ client' = [client EXCEPT ![c] = [p EXCEPT !.pc = "prompt"]]
    BY <1>7 DEF Connect, p
  <2> HIDE DEF Goal
  <2> QED
    BY <1>1, <1>6, <2>1
<1>8. CASE Leave(c)
  <2>1. CASE p.pc = "prompt" /\ client' = [client EXCEPT ![c].pc = "gone"]
    <3> DEFINE q == [p EXCEPT !.pc = "gone"]
    <3>1. q.pc = "gone" /\ q.got = p.got /\ q.inbox = p.inbox /\ q.out = p.out /\ p.out = <<>>
      BY <1>1, <2>1 DEF ClientState, Polite
    <3>2. client' = [client EXCEPT ![c] = q]
      BY <2>1 DEF p
    <3> HIDE DEF q
    <3>3. client'[c] = q
      BY <1>1, <3>2
    <3>4. Full(q) \subseteq Full(p)
      BY <3>1 DEF Full
    <3> QED
      BY <1>8, <3>1, <3>3, <3>4
  <2>2. CASE Die(c)
    <3> DEFINE q == Dead(p)
    <3>1. client' = [client EXCEPT ![c] = q]
      BY <2>2 DEF Die, p
    <3>2. q.pc # "data" /\ q.inbox = p.inbox /\ q.out = <<>>
      BY <1>1, DeadFacts
    <3>3. q.got = p.got
      BY <1>1 DEF Dead, ClientState
    <3> HIDE DEF q
    <3>4. client'[c] = q
      BY <1>1, <3>1
    <3>5. Full(q) \subseteq Full(p)
      BY <3>2, <3>3 DEF Full
    <3> QED
      BY <1>8, <3>2, <3>4, <3>5
  <2>3. \/ p.pc = "prompt" /\ client' = [client EXCEPT ![c].pc = "gone"]
        \/ Die(c)
    BY <1>8 DEF Leave, p
  <2> HIDE DEF Goal
  <2> QED
    BY <2>1, <2>2, <2>3
<1>9. CASE DataLost(c)
  <2>1. /\ p.pc = "data" /\ p.data = NoData /\ main.pc = "ended"
        /\ \/ client' = [client EXCEPT ![c] = Dead(p)]
           \/ client' = [client EXCEPT ![c] = [p EXCEPT !.pc = "waiting"]]
    BY <1>9 DEF DataLost, Die, p
  <2> HIDE DEF Goal
  <2> QED
    BY <1>1, <1>5, <1>6, <2>1
<1>10. CASE EndOfStream(c)
  <2>1. /\ p.pc = "waiting"
        /\ \/ client' = [client EXCEPT ![c] = Dead(p)]
           \/ client' = [client EXCEPT ![c] = [p EXCEPT !.pc = "spins"]]
    BY <1>10 DEF EndOfStream, Die, p
  <2> HIDE DEF Goal
  <2> QED
    BY <1>1, <1>5, <1>6, <2>1
<1>11. ASSUME NEW cmd \in Commands, Ask(c, cmd)
       PROVE  Goal
  <2> DEFINE pc == IF cmd \in {"exit", "shutdown"} THEN "gone" ELSE "waiting"
             q  == [client[c] EXCEPT !.inbox = <<cmd>>, !.sent = @ + 1, !.got = {}, !.told = 0, !.data = NoData,
                      !.pc = pc]
  <2>6. client' = [client EXCEPT ![c] = q]
    BY <1>11 DEF Ask
  <2>1. p.pc = "prompt"
    BY <1>11 DEF Ask, p
  <2>2. q.got = {} /\ q.data = NoData /\ q.out = p.out
    <3> HIDE DEF pc
    <3> QED
      BY <1>1 DEF ClientState, p
  <2>3. p.out = <<>>
    BY <1>1, <2>1 DEF Polite
  <2> HIDE DEF q
  <2>4. client'[c] = q
    BY <1>1, <2>6
  <2>5. Full(q) = {}
    BY <2>2 DEF Full
  <2> QED
    BY <2>1, <2>2, <2>3, <2>4, <2>5
<1>12. CASE TakeFile(c)
  <2>1. PICK r \in MayRead(c) :
          LET t == [Heard(c, r) EXCEPT !.told = Line(r).file] IN
            \/ client' = [client EXCEPT ![c] = t]
            \/ client' = [client EXCEPT ![c] = [t EXCEPT !.pc = "data", !.data = NoData]]
    BY <1>12 DEF TakeFile
  <2> DEFINE u == Heard(c, r)
             t == [u EXCEPT !.told = Line(r).file]
             v == [t EXCEPT !.pc = "data", !.data = NoData]
  <2>2. /\ u \in ClientState /\ u.pc = "waiting" /\ u.inbox = p.inbox /\ u.got = p.got /\ p.pc = "waiting"
        /\ \A i \in DOMAIN u.out : \E j \in DOMAIN p.out : u.out[i] = p.out[j]
    BY <1>2
  <2> HIDE DEF u
  <2>3. t.out = u.out /\ t.inbox = u.inbox /\ t.got = u.got /\ t.pc = u.pc
    BY <2>2 DEF ClientState
  <2>4. v.out = u.out /\ v.inbox = u.inbox /\ v.got = u.got /\ v.data = NoData
    BY <2>2 DEF ClientState
  <2>5. client' = [client EXCEPT ![c] = t] \/ client' = [client EXCEPT ![c] = v]
    BY <2>1 DEF u
  <2> HIDE DEF t, v, Goal
  <2> QED
    BY <1>4, <2>2, <2>3, <2>4, <2>5
<1>13. CASE Hear(c)
  <2>1. PICK r \in MayRead(c) : \E pc \in {"prompt", "waiting"} : client' = [client EXCEPT ![c] = [Heard(c, r) EXCEPT !.pc = pc]]
    BY <1>13 DEF Hear
  <2> HIDE DEF Goal
  <2> QED
    BY <1>2, <1>6, <2>1
<1>14. CASE Fail(c)
  <2>1. PICK r \in MayRead(c) : client' = [client EXCEPT ![c] = Dead(Heard(c, r))]
    BY <1>14 DEF Fail
  <2> HIDE DEF Goal
  <2> QED
    BY <1>2, <1>5, <2>1
<1>15. CASE EndOfData(c)
  <2> DEFINE g == p.got \cup {p.data.file}
             q == [p EXCEPT !.pc = "waiting", !.got = g]
  <2>1. client' = [client EXCEPT ![c] = q] /\ p.pc = "data" /\ p.data # NoData
    BY <1>15 DEF EndOfData, p
  <2>2. Full(p) = g
    BY <2>1 DEF Full
  <2> HIDE DEF g
  <2>3. q.out = p.out /\ q.inbox = p.inbox /\ q.got = g /\ q.pc = "waiting"
    BY <1>1 DEF ClientState
  <2> HIDE DEF q
  <2>4. client'[c] = q
    BY <1>1, <2>1
  <2>5. Full(q) = g
    BY <2>3 DEF Full
  <2> QED
    BY <2>1, <2>2, <2>3, <2>4, <2>5
<1> HIDE DEF Goal
<1> QED
  BY <1>7, <1>8, <1>9, <1>10, <1>11, <1>12, <1>13, <1>14, <1>15 DEF Reading

\* A client in a listener's queue fetches its file.
LEMMA Joined ==
  ASSUME IInv, IInv', NEW c \in Client,
         \/ Connect(c) \/ Reading(c) \/ Leave(c)
         \/ (\E cmd \in Commands : Ask(c, cmd)) /\ UNCHANGED <<fds, backlog, Others>>,
         NEW g \in Working, threads[g].pc = "accept", fds'[threads[g].lsock].queue # <<>>
  PROVE  \/ fds[threads[g].lsock].queue # <<>>
         \/ c = Serves(g) /\ client'[c].pc = "data"
<1> DEFINE l == threads[g].lsock
<1>1. CASE fds' = fds
  BY <1>1
<1>2. CASE TakeFile(c) /\ fds[l].queue = <<>>
  <2>1. PICK r \in MayRead(c) :
          LET L == IF main.pc = "ended" THEN {} ELSE Listeners(Line(r).port)
              t == [Heard(c, r) EXCEPT !.told = Line(r).file] IN
            /\ client' = [client EXCEPT ![c] =
                 IF L = {} THEN t ELSE [t EXCEPT !.pc = "data", !.data = NoData]]
            /\ fds' = [d \in DOMAIN fds |->
                         IF d \in L THEN [fds[d] EXCEPT !.queue = Append(@, c)] ELSE fds[d]]
    BY <1>2 DEF TakeFile
  <2> DEFINE L == IF main.pc = "ended" THEN {} ELSE Listeners(Line(r).port)
             u == Heard(c, r)
             t == [u EXCEPT !.told = Line(r).file]
             v == [t EXCEPT !.pc = "data", !.data = NoData]
  <2>2. threads[g] \in ThreadState /\ fds[l].kind = "listen" /\ Serves(g) = Peer(threads[g], fds)
        /\ fds[threads[g].sock].kind = "conn" /\ threads[g].sock \in DOMAIN fds
    BY PeerFacts DEF Holds, Offering, Own, IInv, Types, TableTypes
  <2>3. l \in DOMAIN fds /\ fds[l] \in Fd
    BY <2>2 DEF ThreadState, IInv, Types, TableTypes
  <2>4. fds'[l] # fds[l]
    BY <1>2
  <2>5. l \in L
    BY <2>1, <2>3, <2>4
  <2>6. client' = [client EXCEPT ![c] = v]
    BY <2>1, <2>5
  <2>7. u \in ClientState /\ client \in [Client -> ClientState]
    BY HeardFacts DEF IInv, Types, ClientTypes
  <2>8. v.pc = "data"
    <3> HIDE DEF u
    <3> QED
      BY <2>7 DEF ClientState
  <2>9. client'[c].pc = "data"
    <3> HIDE DEF v
    <3> QED
      BY <2>6, <2>7, <2>8
  <2>10. fds'[l].queue = Append(<<>>, c)
    <3>1. fds'[l] = [fds[l] EXCEPT !.queue = Append(@, c)]
      BY <2>1, <2>3, <2>5
    <3>2. "queue" \in DOMAIN fds[l]
      BY <2>2, <2>3, FdFacts DEF Listening
    <3> QED
      BY <1>2, <3>1, <3>2
  <2>11. Append(<<>>, c) = <<c>> /\ 1 \in DOMAIN <<c>> /\ <<c>>[1] = c
    OBVIOUS
  <2>12. threads' = threads /\ fds'[threads[g].sock] = fds[threads[g].sock] /\ g \in Working'
    BY <2>2, ClientServes
  <2>13. \A i \in DOMAIN fds'[l].queue : fds'[l].queue[i] = fds[threads[g].sock].peer
    BY <2>12 DEF IInv, Serving, Talks, Peer
  <2>14. c = Serves(g)
    BY <2>2, <2>10, <2>11, <2>13 DEF Peer
  <2> QED
    BY <2>9, <2>14
<1> QED
  BY <1>1, <1>2 DEF Connect, Reading, DataLost, EndOfStream, Leave, Others

LEMMA ClientSent ==
  ASSUME Calm, IInv, IInv', Lasting, SentInv, ~server_shutdown => AliveInv, NEW c \in Client,
         \/ Connect(c) \/ Reading(c) \/ Leave(c)
         \/ (\E cmd \in Commands : Ask(c, cmd)) /\ UNCHANGED <<fds, backlog, Others>>
  PROVE  SentInv'
<1>1. \A b \in Client : b # c => client'[b] = client[b]
  BY ClientPaces DEF IInv
<1>2. threads' = threads /\ Working' = Working /\ \A g \in Working : Serves(g)' = Serves(g)
  BY ClientServes
<1>3. /\ \/ client[c].pc = "prompt" /\ Full(client'[c]) = {} /\ client'[c].out = <<>>
         \/ /\ Full(client'[c]) = Full(client[c]) /\ client'[c].inbox = client[c].inbox
            /\ \A i \in DOMAIN client'[c].out :
                 \E j \in DOMAIN client[c].out : client'[c].out[i] = client[c].out[j]
      /\ main.pc # "ended" /\ client[c].pc = "data" /\ client[c].data = NoData => client'[c].pc = "data"
  <2>1. ~Leave(c)
    BY DEF Leave, Calm
  <2> QED
    BY <2>1, ClientFull
<1>4. DOMAIN <<>> = {}
  OBVIOUS
<1>5. ASSUME NEW b \in Client, client'[b].inbox = <<"get">> PROVE Full(client'[b]) = {}
  BY <1>1, <1>3, <1>5 DEF SentInv
<1>6. ASSUME NEW b \in Client, NEW i \in DOMAIN client'[b].out, client'[b].out[i].type = "done"
      PROVE  Full(client'[b]) = 1 .. Files
  <2>1. CASE b # c
    BY <1>1, <1>6, <2>1 DEF SentInv
  <2>2. CASE b = c
    BY <1>3, <1>4, <1>6, <2>2 DEF SentInv
  <2> QED
    BY <2>1, <2>2
<1>7. ASSUME NEW g \in Working, threads[g].pc \in Sending
      PROVE  Full(client'[Serves(g)]) = Sent(threads[g])
  <2>1. Serves(g) \in Client /\ client[Serves(g)].pc # "prompt"
    BY <1>7, SendingFacts
  <2> QED
    BY <1>1, <1>3, <1>7, <2>1 DEF SentInv
<1>8. ASSUME NEW g \in Working, Fetching(threads[g], fds') PROVE client'[Serves(g)].pc = "data"
  <2>1. ~server_shutdown /\ main.pc # "ended"
    BY DEF Lasting, IInv, Types, MainTypes
  <2>2. threads[g].pc \in Offering /\ threads[g].pc \in Sending
    BY <1>8 DEF Fetching, Offering, Sending
  <2>3. Serves(g) \in Client /\ Alive(Serves(g)) /\ Talks(threads[g], fds, client[Serves(g)])
    BY <2>1, <2>2, PeerFacts DEF AliveInv
  <2>4. CASE Fetching(threads[g], fds)
    <3>1. client[Serves(g)].pc = "data"
      BY <2>4 DEF SentInv
    <3>2. client[Serves(g)].data = NoData
      BY <2>3, <2>4 DEF Talks, Fetching, Ready, Alive
    <3> QED
      BY <1>1, <1>3, <2>1, <2>3, <3>1, <3>2
  <2>5. CASE ~Fetching(threads[g], fds)
    <3>1. threads[g].pc = "accept" /\ fds'[threads[g].lsock].queue # <<>> /\ fds[threads[g].lsock].queue = <<>>
      BY <1>8, <2>5 DEF Fetching
    <3> QED
      BY <3>1, Joined
  <2> QED
    BY <2>4, <2>5
<1> QED
  BY <1>2, <1>5, <1>6, <1>7, <1>8 DEF SentInv

\* Main moves no thread that sends, nor its connection.
LEMMA MainServes ==
  ASSUME IInv, MainStep
  PROVE  /\ client' = client
         /\ \A g \in Working' : threads'[g].pc \in Sending =>
              g \in Working /\ threads'[g] = threads[g] /\ Serves(g)' = Serves(g)
<1>1. client' = client
  BY DEF MainStep, Loop, Accept, AcceptTimesOut, Admit, Spawn
<1>2. CASE Loop \/ AcceptTimesOut \/ Admit \/ (Accept /\ Lowest = -1)
  <2>1. threads' = threads /\ fds' = fds
    BY <1>2 DEF Loop, AcceptTimesOut, Admit, Accept
  <2> QED
    BY <1>1, <2>1 DEF Working, Serves, Is
<1>3. CASE Accept /\ Lowest # -1
  <2>1. threads' = threads /\ fds' = [fds EXCEPT ![Lowest] = Conn(Head(backlog))] /\ fds[Lowest].kind = "closed"
    BY <1>3, LowestFacts DEF Accept, IInv, Types
  <2>2. Working' = Working
    BY <2>1 DEF Working
  <2>3. ASSUME NEW g \in Working PROVE Serves(g)' = Serves(g)
    <3>1. fds[threads[g].sock].kind = "conn"
      BY PeerFacts DEF Holds
    <3>2. threads[g].sock # Lowest
      BY <2>1, <3>1
    <3> QED
      BY <2>1, <3>2 DEF Serves, Is
  <2> QED
    BY <1>1, <2>1, <2>2, <2>3
<1>4. CASE Spawn
  <2>1. PICK p : threads' = Append(threads, Thread("recv", main.sock_fd, p))
    BY <1>4 DEF Spawn
  <2> DEFINE t == Thread("recv", main.sock_fd, p)
             n == Len(threads) + 1
  <2>2. t.pc = "recv" /\ fds' = fds
    BY <1>4 DEF Thread, Spawn
  <2>3. threads \in Seq(ThreadState) /\ DOMAIN threads = 1 .. Len(threads) /\ Len(threads) \in Nat
    BY LenProperties DEF IInv, Types, ThreadTypes
  <2> HIDE DEF t
  <2>4. threads' = [i \in 1 .. n |-> IF i = n THEN t ELSE threads[i]]
    BY <2>1, <2>3 DEF t
  <2>5. \A g \in DOMAIN threads' : threads'[g] = t \/ (g \in DOMAIN threads /\ threads'[g] = threads[g])
    BY <2>3, <2>4
  <2>6. ASSUME NEW g \in Working', threads'[g].pc \in Sending
        PROVE  g \in Working /\ threads'[g] = threads[g] /\ Serves(g)' = Serves(g)
    <3>1. g \in DOMAIN threads /\ threads'[g] = threads[g]
      BY <2>2, <2>5, <2>6 DEF Working, Sending, Offering
    <3> QED
      BY <2>2, <2>6, <3>1 DEF Working, Serves, Is
  <2> QED
    BY <1>1, <2>6
<1> QED
  BY <1>1, <1>2, <1>3, <1>4 DEF MainStep

LEMMA MainSent ==
  ASSUME IInv, SentInv, MainStep
  PROVE  SentInv'
<1>1. /\ client' = client
      /\ \A g \in Working' : threads'[g].pc \in Sending =>
           g \in Working /\ threads'[g] = threads[g] /\ Serves(g)' = Serves(g)
  BY MainServes
<1>2. fds' = fds \/ (Lowest # -1 /\ \E f : fds' = [fds EXCEPT ![Lowest] = f])
  BY DEF MainStep, Loop, Accept, AcceptTimesOut, Admit, Spawn
<1>3. ASSUME NEW g \in Working', Fetching(threads'[g], fds') PROVE client'[Serves(g)'].pc = "data"
  <2>1. threads'[g].pc \in Offering /\ threads'[g].pc \in Sending
    BY <1>3 DEF Fetching, Offering, Sending
  <2>2. g \in Working /\ threads'[g] = threads[g] /\ Serves(g)' = Serves(g)
    BY <1>1, <2>1
  <2>3. fds[threads[g].lsock].kind = "listen" /\ threads[g].lsock \in DOMAIN fds
    BY <2>1, <2>2, PeerFacts DEF Holds, ThreadState, IInv, Types, TableTypes
  <2>4. threads[g].lsock # Lowest \/ Lowest = -1
    BY <2>3, LowestFacts DEF IInv, Types
  <2>5. fds'[threads[g].lsock] = fds[threads[g].lsock]
    BY <1>2, <2>3, <2>4
  <2>6. Fetching(threads[g], fds)
    BY <1>3, <2>2, <2>5 DEF Fetching
  <2> QED
    BY <1>1, <2>2, <2>6 DEF SentInv
<1>4. ASSUME NEW g \in Working', threads'[g].pc \in Sending PROVE Full(client'[Serves(g)']) = Sent(threads'[g])
  BY <1>1, <1>4 DEF SentInv
<1> QED
  BY <1>1, <1>3, <1>4 DEF SentInv

\* A thread leaves the listeners of the others alone.
LEMMA OthersListen ==
  ASSUME IInv, NEW h \in Working, ThreadStep(h), NEW g \in Working, g # h, threads[g].pc \in Offering
  PROVE  fds'[threads[g].lsock] = fds[threads[g].lsock]
<1> DEFINE t == threads[h]
           l == threads[g].lsock
<1>1. /\ l \in Own(threads[g]) /\ l \in 0 .. Descriptors /\ fds[l].kind = "listen"
      /\ DOMAIN fds = 0 .. Descriptors
  BY PeerFacts DEF Own, Holds, IInv, Types, TableTypes
<1>2. l \notin Own(t)
  BY <1>1, ApartFacts
<1>3. Lowest = -1 \/ l # Lowest
  BY <1>1, LowestFacts DEF IInv, Types
<1>4. CASE fds' = fds
  BY <1>4
<1>5. CASE Lowest # -1 /\ \E f : fds' = [fds EXCEPT ![Lowest] = f]
  BY <1>3, <1>5
<1>6. ASSUME NEW D \in SUBSET Own(t), Close(D) PROVE fds'[l] = fds[l]
  BY <1>1, <1>2, <1>6 DEF Close
<1>7. CASE AcceptData(h) /\ Lowest # -1
  <2>1. t.lsock \in Own(t) /\ \E x, y : fds' = [fds EXCEPT ![t.lsock] = x, ![Lowest] = y]
    BY <1>7 DEF AcceptData, At, Own, Offering
  <2> QED
    BY <1>1, <1>2, <1>3, <1>7, <2>1
<1>8. CASE SendFile(h)
  <2>1. {t.tsock, t.lsock} \in SUBSET Own(t) /\ Close({t.tsock, t.lsock})
    BY <1>8 DEF SendFile, At, Own, Offering
  <2> QED
    BY <1>6, <2>1
<1>9. CASE ReceiveExit(h) \/ ReceiveShutdown(h) \/ ReceiveFails(h)
  <2>1. {t.sock} \in SUBSET Own(t) /\ Close({t.sock})
    BY <1>9 DEF ReceiveExit, ReceiveShutdown, ReceiveFails, Own
  <2> QED
    BY <1>6, <2>1
<1>10. CASE Announce(h) \/ AnnounceFails(h) \/ SendFileFails(h) \/ (AcceptData(h) /\ Lowest = -1)
  <2>1. fds' = fds \/ (Lowest # -1 /\ \E f : fds' = [fds EXCEPT ![Lowest] = f])
    BY <1>10 DEF Announce, AnnounceFails, SendFileFails, AcceptData
  <2> QED
    BY <1>4, <1>5, <2>1
<1>11. CASE ReceiveGet(h) \/ ReceiveBad(h) \/ StopAccepting(h) \/ ReceiveNothing(h) \/ AcceptDataFails(h)
            \/ SendMd5(h) \/ NextFile(h)
  BY <1>4, <1>11 DEF ReceiveGet, ReceiveBad, StopAccepting, ReceiveNothing, AcceptDataFails, SendMd5, NextFile
<1> QED
  BY <1>7, <1>8, <1>9, <1>10, <1>11 DEF ThreadStep

\* What a thread's step does to what its client has: nothing but sending a file does.
LEMMA ThreadSent ==
  ASSUME Calm, IInv, IInv', ~server_shutdown => Parts, CalmInv, Unshared, Lasting,
         NEW h \in DOMAIN threads, ThreadStep(h)
  PROVE  SentInv'
<1> DEFINE c == Serves(h)
           t == threads[h]
           p == client[c]
           q == client'[c]
<1>1. CASE server_shutdown
  <2>1. Working = {} /\ t.pc \in {"stop", "ended"}
    BY <1>1 DEF Lasting, Working
  <2>2. StopAccepting(h)
    BY <2>1 DEF ThreadStep, ReceiveGet, ReceiveBad, ReceiveExit, ReceiveShutdown, Receive, ReceiveNothing,
       ReceiveFails, Announce, AnnounceFails, AcceptData, AcceptDataFails, SendFile, SendFileFails, SendMd5,
       NextFile, At
  <2>3. \E u : Becomes(h, u) /\ u.pc = "ended"
    BY <2>2, FinishFacts DEF StopAccepting, IInv, Types
  <2>4. client' = client /\ Working' = {}
    BY <2>1, <2>2, <2>3 DEF StopAccepting, Becomes, Working
  <2> QED
    BY <2>4 DEF CalmInv, SentInv
<1>2. CASE ~server_shutdown
  <2>1. /\ h \in Working /\ c \in Client /\ (t.pc # "recv" => Alive(c))
        /\ t.pc = "send" => Reads(h) = c
        /\ \/ ReceiveGet(h) \/ ReceiveBad(h) \/ ReceiveExit(h) \/ ReceiveShutdown(h)
           \/ Announce(h) /\ Lowest \in 3 .. Descriptors
           \/ AcceptData(h) /\ Lowest \in 3 .. Descriptors
           \/ SendFile(h) \/ NextFile(h)
           \/ SendMd5(h) /\ Send(h, Message("md5sum:", t.file, 0))
    BY <1>2, Smooth DEF CalmInv
  <2>3. /\ t \in ThreadState /\ Holds(t, fds) /\ Talks(t, fds, p) /\ c = Peer(t, fds) /\ c # NoClient
        /\ client \in [Client -> ClientState] /\ p \in ClientState /\ Types /\ Types'
    BY <2>1, PeerFacts DEF IInv, Types, ClientTypes
  <2>4. /\ p.inbox = <<"get">> => Full(p) = {}
        /\ t.pc \in Sending => Full(p) = Sent(t)
        /\ Fetching(t, fds) => p.pc = "data"
        /\ \A i \in DOMAIN p.out : p.out[i].type = "done" => Full(p) = 1 .. Files
    BY <2>1 DEF CalmInv, SentInv
  <2>5. t.pc \in Sending => p.inbox = <<>> /\ \A i \in DOMAIN p.out : p.out[i].type # "done"
    BY <2>1, SendingFacts DEF Ends
  <2> HIDE DEF c
  <2>6. ASSUME NEW u, Becomes(h, u), u.pc \notin {"stop", "ended"} => u.sock = t.sock,
               \A b \in Client : b # c => client'[b] = client[b],
               q.inbox # <<"get">>,
               u.pc \in Sending => Full(q) = Sent(u),
               Fetching(u, fds') => q.pc = "data",
               \A i \in DOMAIN q.out : q.out[i].type = "done" => Full(q) = 1 .. Files
        PROVE  SentInv'
    <3>0. Working' \subseteq Working /\ \A g \in Working' : Serves(g)' = Serves(g)
      <4>1. ReceiveExit(h) \/ ReceiveShutdown(h) \/ ReceiveFails(h) => u.pc \in {"stop", "ended"}
        BY <2>3, <2>6, EndsTurn
      <4> QED
        BY <2>1, <2>6, <4>1, ThreadServes
    <3>1. ASSUME h \in Working' PROVE threads'[h] = u /\ Serves(h)' = c
      BY <2>1, <2>6, <3>0, <3>1 DEF Becomes, Working, c
    <3>4. ASSUME NEW g \in Working', g # h
          PROVE  /\ g \in Working /\ threads'[g] = threads[g] /\ Serves(g)' = Serves(g)
                 /\ client'[Serves(g)'] = client[Serves(g)]
                 /\ Fetching(threads[g], fds') => Fetching(threads[g], fds)
      <4>1. g \in Working /\ threads'[g] = threads[g] /\ Serves(g)' = Serves(g)
        BY <2>6, <3>0, <3>4, PeerFacts DEF Becomes
      <4>2. Serves(g) \in Client /\ Serves(g) # c
        BY <2>1, <3>4, <4>1, ApartFacts, PeerFacts DEF c
      <4>3. Fetching(threads[g], fds') => Fetching(threads[g], fds)
        BY <2>1, <3>4, <4>1, OthersListen DEF Fetching, Offering
      <4> QED
        BY <2>6, <4>1, <4>2, <4>3
    <3>5. ASSUME NEW g \in Working', threads'[g].pc \in Sending
          PROVE  Full(client'[Serves(g)']) = Sent(threads'[g])
      BY <2>6, <3>1, <3>4, <3>5 DEF CalmInv, SentInv
    <3>6. ASSUME NEW g \in Working', Fetching(threads'[g], fds') PROVE client'[Serves(g)'].pc = "data"
      BY <2>6, <3>1, <3>4, <3>6 DEF CalmInv, SentInv
    <3>2. \A b \in Client : client'[b].inbox = <<"get">> => Full(client'[b]) = {}
      BY <2>6 DEF CalmInv, SentInv
    <3>3. \A b \in Client : \A i \in DOMAIN client'[b].out :
            client'[b].out[i].type = "done" => Full(client'[b]) = 1 .. Files
      BY <2>6 DEF CalmInv, SentInv
    <3> QED
      BY <3>2, <3>3, <3>5, <3>6 DEF SentInv
  <2>7. <<>> # <<"get">> /\ DOMAIN <<>> = {}
    OBVIOUS
  <2>8. ASSUME q.pc = p.pc, q.got = p.got, q.data = p.data PROVE Full(q) = Full(p)
    BY <2>8 DEF Full
  <2>9. \A i \in DOMAIN p.out : p.out[i].type # "done" \/ Full(p) = 1 .. Files
    BY <2>4
  <2>10. ASSUME NEW m \in Msg, NEW peers \in [Client -> ClientState], SendFrom(peers, h, m),
                \A b \in Client : b # c => peers[b] = client[b],
                LET o == peers[c] IN o.pc = p.pc /\ o.got = p.got /\ o.data = p.data /\ o.out = p.out /\ o.inbox = <<>>,
                m.type = "done" => Full(p) = 1 .. Files
         PROVE  /\ \A b \in Client : b # c => client'[b] = client[b]
                /\ Full(q) = Full(p) /\ q.pc = p.pc /\ q.inbox = <<>>
                /\ \A i \in DOMAIN q.out : q.out[i].type = "done" => Full(q) = 1 .. Files
    <3>1. /\ \A b \in Client : b # c => client'[b] = client[b]
          /\ Gets(peers[c], q, IF Alive(c) THEN Append(peers[c].out, m) ELSE peers[c].out)
      BY <2>1, <2>3, <2>10, SendFacts DEF c
    <3>2. /\ q.pc = p.pc /\ q.got = p.got /\ q.data = p.data /\ q.inbox = <<>>
          /\ q.out = p.out \/ q.out = Append(p.out, m)
      BY <2>10, <3>1 DEF Gets
    <3>3. Full(q) = Full(p)
      BY <2>8, <3>2
    <3>4. p.out \in Seq(Msg)
      BY <2>3 DEF ClientState
    <3> HIDE DEF p, q
    <3>5. \A i \in DOMAIN Append(p.out, m) :
            (i \in DOMAIN p.out /\ Append(p.out, m)[i] = p.out[i]) \/ Append(p.out, m)[i] = m
      BY <3>4, Appended
    <3>6. \A i \in DOMAIN q.out : (i \in DOMAIN p.out /\ q.out[i] = p.out[i]) \/ q.out[i] = m
      BY <3>2, <3>5
    <3>7. \A i \in DOMAIN q.out : q.out[i].type = "done" => Full(p) = 1 .. Files
      BY <2>9, <2>10, <3>6
    <3> QED
      BY <3>1, <3>2, <3>3, <3>7
  <2>11. ASSUME NEW pc \in ThreadPc, Go(h, pc)
         PROVE  \E u : Becomes(h, u) /\ u.pc = pc /\ u.sock = t.sock /\ u.file = t.file /\ u.lsock = t.lsock
    BY <2>3, <2>11, GoFacts DEF Goes, Types
  <2>12. \A pc \in {"recv", "listen", "accept", "send", "md5", "next", "stop"} : pc \in ThreadPc
    BY DEF ThreadPc
  <2>13. /\ Message("file:", t.file, t.port) \in Msg /\ Message("file:", t.file, t.port).type # "done"
         /\ Message("md5sum:", t.file, 0) \in Msg /\ Message("md5sum:", t.file, 0).type # "done"
         /\ Message("done", 0, 0) \in Msg
         /\ Message("error:", 0, 0) \in Msg /\ Message("error:", 0, 0).type # "done"
    BY <2>3, Messages DEF Message
  <2>14. /\ Taken(h) \in [Client -> ClientState] /\ \A b \in Client : b # c => Taken(h)[b] = client[b]
         /\ LET o == Taken(h)[c] IN
              o.pc = p.pc /\ o.inbox = <<>> /\ o.out = p.out /\ o.data = p.data /\ o.got = p.got
    <3> DEFINE o == [client[c] EXCEPT !.inbox = <<>>]
    <3>1. Taken(h) = [client EXCEPT ![c] = o]
      BY DEF Taken, c
    <3>2. Taken(h) \in [Client -> ClientState]
      BY <2>1, <2>3, TakenFacts DEF c
    <3>3. o.pc = p.pc /\ o.inbox = <<>> /\ o.out = p.out /\ o.data = p.data /\ o.got = p.got
      BY <2>3 DEF ClientState
    <3> HIDE DEF o
    <3>4. Taken(h)[c] = o /\ \A b \in Client : b # c => Taken(h)[b] = client[b]
      BY <2>1, <2>3, <3>1
    <3> QED
      BY <3>2, <3>3, <3>4
  <2> HIDE DEF t, p, q
  <2>15. CASE ReceiveGet(h)
    <3> DEFINE u == [t EXCEPT !.pc = "listen", !.file = 1]
    <3>1. threads' = [threads EXCEPT ![h] = u] /\ client' = Taken(h) /\ p.inbox = <<"get">>
      BY <2>15 DEF ReceiveGet, Receive, t, p, c
    <3>2. u.pc = "listen" /\ u.sock = t.sock /\ u.file = 1
      BY <2>3 DEF ThreadState
    <3> HIDE DEF u
    <3>3. Becomes(h, u)
      BY <2>3, <3>1, Stepped
    <3>4. Full(p) = {} /\ Sent(u) = {}
      BY <2>4, <3>1, <3>2 DEF Sent
    <3>5. Full(q) = Full(p) /\ q.out = p.out /\ q.inbox = <<>>
      BY <2>8, <2>14, <3>1 DEF q
    <3> QED
      BY <2>6, <2>7, <2>9, <2>14, <3>1, <3>2, <3>3, <3>4, <3>5 DEF Fetching
  <2>16. CASE ReceiveBad(h)
    <3>1. threads' = threads /\ SendFrom(Taken(h), h, Message("error:", 0, 0)) /\ t.pc = "recv"
      BY <2>16 DEF ReceiveBad, Receive, At, t
    <3>2. Becomes(h, t)
      BY <2>3 , <3>1 DEF Becomes, t
    <3>3. /\ \A b \in Client : b # c => client'[b] = client[b]
          /\ q.inbox = <<>> /\ \A i \in DOMAIN q.out : q.out[i].type = "done" => Full(q) = 1 .. Files
      BY <2>10, <2>13, <2>14, <3>1
    <3> QED
      BY <2>6, <2>7, <3>1, <3>2, <3>3 DEF Sending, Offering, Fetching
  <2>17. CASE ReceiveExit(h) \/ ReceiveShutdown(h)
    <3>1. client' = Taken(h) /\ (Finish(h) \/ Go(h, "stop"))
      BY <2>17 DEF ReceiveExit, ReceiveShutdown
    <3>2. PICK u : Becomes(h, u) /\ u.pc \in {"stop", "ended"}
      BY <2>1, <2>3, <2>11, <2>12, <3>1, FinishFacts DEF Types
    <3>3. Full(q) = Full(p) /\ q.out = p.out /\ q.inbox = <<>>
      BY <2>8, <2>14, <3>1 DEF q
    <3> QED
      BY <2>6, <2>7, <2>9, <2>14, <3>1, <3>2, <3>3 DEF Sending, Offering, Fetching
  <2>18. CASE Announce(h) /\ Lowest \in 3 .. Descriptors
    <3> DEFINE l == Lowest
               u == [t EXCEPT !.pc = "accept", !.lsock = l]
    <3>1. /\ threads' = [threads EXCEPT ![h] = u] /\ Send(h, Message("file:", t.file, t.port)) /\ t.pc = "listen"
          /\ fds' = [fds EXCEPT ![l] = Listening(t.port, <<>>)]
      BY <2>18 DEF Announce, At, t
    <3>2. l \in DOMAIN fds
      BY <2>3, <2>18, LowestFacts DEF Types, TableTypes
    <3> HIDE DEF l
    <3>3. u.pc = "accept" /\ u.sock = t.sock /\ u.file = t.file /\ u.lsock = l
      BY <2>3 DEF ThreadState
    <3> HIDE DEF u
    <3>4. Becomes(h, u)
      BY <2>3, <3>1, Stepped
    <3>5. fds'[u.lsock].queue = <<>>
      BY <3>1, <3>2, <3>3 DEF Listening
    <3>6. p.inbox = <<>> /\ Full(p) = Sent(t) /\ Sent(u) = Sent(t)
      BY <2>4, <2>5, <3>1, <3>3 DEF Sending, Sent
    <3>7. /\ \A b \in Client : b # c => client'[b] = client[b]
          /\ Full(q) = Full(p) /\ q.inbox = <<>>
          /\ \A i \in DOMAIN q.out : q.out[i].type = "done" => Full(q) = 1 .. Files
      BY <2>3, <2>10, <2>13, <3>1, <3>6 DEF Send, p
    <3> QED
      BY <2>6, <2>7, <3>3, <3>4, <3>5, <3>6, <3>7 DEF Fetching
  <2>19. CASE AcceptData(h) /\ Lowest \in 3 .. Descriptors
    <3> DEFINE l == Lowest
               u == [t EXCEPT !.tsock = l, !.pc = "send"]
    <3>1. /\ threads' = [threads EXCEPT ![h] = u] /\ client' = client /\ t.pc = "accept" /\ fds[t.lsock].queue # <<>>
      <4>1. l # -1 /\ ~(l <= 0)
        BY <2>19
      <4> QED
        BY <2>19, <4>1 DEF AcceptData, At, t
    <3> HIDE DEF l
    <3>3. u.pc = "send" /\ u.sock = t.sock /\ u.file = t.file
      BY <2>3 DEF ThreadState
    <3> HIDE DEF u
    <3>4. Becomes(h, u)
      BY <2>3, <3>1, Stepped
    <3>5. p.pc = "data" /\ p.inbox = <<>> /\ Full(p) = Sent(t) /\ Sent(u) = Sent(t) /\ q = p
      BY <2>4, <2>5, <3>1, <3>3 DEF Sending, Offering, Fetching, Sent, p, q
    <3> QED
      BY <2>6, <2>7, <2>9, <3>1, <3>3, <3>4, <3>5
  <2>20. CASE SendFile(h)
    <3> DEFINE x == [owner |-> c, file |-> t.file]
    <3>1. /\ client' = [client EXCEPT ![c].data = x]
          /\ Go(h, "md5") /\ t.pc = "send"
      BY <2>1, <2>20 DEF SendFile, At, t, c
    <3>2. q.data = x /\ q.pc = p.pc /\ q.got = p.got /\ q.out = p.out /\ q.inbox = p.inbox
          /\ \A b \in Client : b # c => client'[b] = client[b]
      <4> HIDE DEF x
      <4> QED
        BY <2>1, <2>3, <3>1 DEF ClientState, p, q
    <3>3. PICK u : Becomes(h, u) /\ u.pc = "md5" /\ u.sock = t.sock /\ u.file = t.file
      BY <2>11, <2>12, <3>1
    <3>4. p.pc = "data" /\ p.inbox = <<>> /\ Full(p) = 1 .. t.file - 1
          /\ \A i \in DOMAIN p.out : p.out[i].type # "done"
      BY <2>4, <2>5, <3>1 DEF Sending, Offering, Fetching, Sent
    <3>5. p.data = NoData
      BY <2>1, <2>3, <3>1, <3>4 DEF Talks, Ready
    <3>6. x # NoData /\ x.file = t.file
      BY <2>3 DEF NoData
    <3>7. Full(p) = p.got /\ Full(q) = p.got \cup {t.file}
      BY <3>2, <3>4, <3>5, <3>6 DEF Full
    <3>8. Full(q) = Sent(u)
      <4>1. t.file \in 1 .. Files
        BY <2>3 DEF ThreadState
      <4>2. (1 .. t.file - 1) \cup {t.file} = 1 .. t.file
        BY <4>1, Bounds
      <4> QED
        BY <3>3, <3>4, <3>7, <4>2 DEF Sent
    <3> QED
      BY <2>6, <2>7, <3>2, <3>3, <3>4, <3>8 DEF Fetching
  <2>21. CASE SendMd5(h) /\ Send(h, Message("md5sum:", t.file, 0))
    <3>1. Go(h, "next") /\ t.pc = "md5"
      BY <2>21 DEF SendMd5, At, t
    <3>2. PICK u : Becomes(h, u) /\ u.pc = "next" /\ u.sock = t.sock /\ u.file = t.file
      BY <2>11, <2>12, <3>1
    <3>3. p.inbox = <<>> /\ Full(p) = Sent(t) /\ Sent(u) = Sent(t)
      BY <2>4, <2>5, <3>1, <3>2 DEF Sending, Sent
    <3>4. /\ \A b \in Client : b # c => client'[b] = client[b]
          /\ Full(q) = Full(p) /\ q.inbox = <<>>
          /\ \A i \in DOMAIN q.out : q.out[i].type = "done" => Full(q) = 1 .. Files
      BY <2>3, <2>10, <2>13, <2>21, <3>3 DEF Send, p
    <3> QED
      BY <2>6, <2>7, <3>2, <3>3, <3>4 DEF Fetching
  <2>22. CASE NextFile(h)
    <3>1. t.pc = "next" /\ p.inbox = <<>> /\ Full(p) = 1 .. t.file
      BY <2>4, <2>5, <2>22 DEF NextFile, At, Sending, Sent, t
    <3>2. CASE t.file = Files
      <4>1. Send(h, Message("done", 0, 0)) /\ Go(h, "recv")
        BY <2>22, <3>2 DEF NextFile, t
      <4>2. PICK u : Becomes(h, u) /\ u.pc = "recv" /\ u.sock = t.sock
        BY <2>11, <2>12, <4>1
      <4>3. /\ \A b \in Client : b # c => client'[b] = client[b]
            /\ q.inbox = <<>>
            /\ \A i \in DOMAIN q.out : q.out[i].type = "done" => Full(q) = 1 .. Files
        BY <2>3, <2>10, <2>13, <3>1, <3>2, <4>1 DEF Send, p
      <4> QED
        BY <2>6, <2>7, <4>2, <4>3 DEF Fetching, Sending, Offering
    <3>3. CASE t.file # Files
      <4> DEFINE u == [t EXCEPT !.pc = "listen", !.file = t.file + 1]
      <4>1. threads' = [threads EXCEPT ![h] = u] /\ client' = client
        BY <2>22, <3>3 DEF NextFile, t
      <4>2. u.pc = "listen" /\ u.sock = t.sock /\ u.file = t.file + 1
        BY <2>3 DEF ThreadState
      <4> HIDE DEF u
      <4>3. Becomes(h, u)
        BY <2>3, <4>1, Stepped
      <4>4. Sent(u) = 1 .. t.file /\ q = p
        <5>1. t.file \in Int
          BY <2>3, Bounds DEF ThreadState
        <5>2. t.file + 1 - 1 = t.file
          BY <5>1
        <5>3. u.file - 1 = t.file
          <6> DEFINE m == t.file
                     n == u.file
          <6>1. n = m + 1 /\ m \in Int
            BY <4>2, <5>1
          <6> HIDE DEF m, n
          <6>2. n - 1 = m
            BY <6>1
          <6> QED
            BY <6>2 DEF m, n
        <5>4. q = p
          BY <4>1 DEF p, q
        <5> QED
          BY <4>2, <5>3, <5>4 DEF Sent
      <4> QED
        BY <2>6, <2>7, <2>9, <3>1, <4>1, <4>2, <4>3, <4>4 DEF Fetching
    <3> QED
      BY <3>2, <3>3
  <2> QED
    BY <2>1, <2>15, <2>16, <2>17, <2>18, <2>19, <2>20, <2>21, <2>22
<1> QED
  BY <1>1, <1>2
-------------------------------------------------------------------------------
LEMMA CalmInit == Init => CalmInv
<1> SUFFICES ASSUME Init PROVE CalmInv
  OBVIOUS
<1>1. DOMAIN threads = {} /\ Working = {} /\ server_shutdown = FALSE
  BY DEF Init, Working
<1>2. fds = [d \in 0 .. Descriptors |-> IF d <= 2 THEN Other ELSE Closed]
  BY DEF Init
<1>3. OwnedInv
  <2>1. ASSUME NEW d \in 0 .. 2 PROVE fds[d] = Other \/ d \notin 0 .. Descriptors
    BY <1>2
  <2>2. \A d \in 0 .. 2 : d \in 0 .. Descriptors
    BY TransferAssumption
  <2>3. ASSUME NEW d \in 3 .. Descriptors PROVE fds[d].kind = "closed"
    <3>1. d \in 0 .. Descriptors /\ ~(d <= 2)
      BY TransferAssumption
    <3> QED
      BY <1>2, <3>1 DEF Closed
  <2> QED
    BY <2>1, <2>2, <2>3 DEF OwnedInv
<1>4. \A c \in Client : client[c].inbox = <<>> /\ client[c].out = <<>>
  BY DEF Init, ClientInit
<1>5. <<>> # <<"get">> /\ DOMAIN <<>> = {}
  OBVIOUS
<1>6. SentInv
  BY <1>1, <1>4, <1>5 DEF SentInv
<1> QED
  BY <1>1, <1>3, <1>6 DEF CalmInv

LEMMA UnsharedInit == Init => Unshared
  BY DEF Init, Unshared, Transfers

LEMMA UnsharedStays ==
  ASSUME Unshared, [Next /\ Unshared']_vars
  PROVE  Unshared'
  BY DEF vars, Unshared, Transfers

LEMMA OwnedKept ==
  ASSUME Calm, IInv, IInv', PlacesInv, OwnedInv, Unshared, [Next]_vars
  PROVE  OwnedInv'
<1>1. CASE server_shutdown'
  BY <1>1 DEF OwnedInv
<1> SUFFICES ASSUME ~server_shutdown' PROVE OwnedInv'
  BY <1>1
<1>2. ~server_shutdown /\ Parts
  BY ShutdownStays DEF PlacesInv, Parts
<1>3. CASE MainStep
  BY <1>2, <1>3, MainOwned
<1>4. ASSUME NEW h \in DOMAIN threads, ThreadStep(h) PROVE OwnedInv'
  BY <1>2, <1>4, ThreadOwned
<1>5. ASSUME NEW c \in Client,
             \/ Connect(c) \/ Reading(c) \/ Leave(c)
             \/ (\E cmd \in Commands : Ask(c, cmd)) /\ UNCHANGED <<fds, backlog, Others>>
      PROVE  OwnedInv'
  BY <1>2, <1>5, ClientOwned DEF IInv
<1>6. CASE UNCHANGED <<fds, threads, main, server_shutdown>>
  BY <1>6 DEF OwnedInv, Given, Working
<1> QED
  BY <1>3, <1>4, <1>5, <1>6 DEF Next, Expire, vars

LEMMA CalmKept ==
  ASSUME Calm, IInv, IInv', PlacesInv, CalmInv, Unshared, Lasting, [Next]_vars
  PROVE  CalmInv'
<1>1. OwnedInv'
  BY OwnedKept DEF CalmInv
<1>2. ~server_shutdown => Parts
  BY DEF PlacesInv, Parts
<1>3. SentInv
  BY DEF CalmInv
<1>4. CASE MainStep
  BY <1>1, <1>3, <1>4, MainSent DEF CalmInv
<1>5. ASSUME NEW h \in DOMAIN threads, ThreadStep(h) PROVE CalmInv'
  BY <1>1, <1>2, <1>5, ThreadSent DEF CalmInv
<1>6. ASSUME NEW c \in Client,
             \/ Connect(c) \/ Reading(c) \/ Leave(c)
             \/ (\E cmd \in Commands : Ask(c, cmd)) /\ UNCHANGED <<fds, backlog, Others>>
      PROVE  CalmInv'
  BY <1>1, <1>2, <1>3, <1>6, ClientSent DEF CalmInv, Parts
<1>7. CASE UNCHANGED <<fds, threads, main, client, server_shutdown>>
  BY <1>1, <1>3, <1>7 DEF CalmInv, SentInv, Working, Serves, Is
<1> QED
  BY <1>4, <1>5, <1>6, <1>7 DEF Next, Expire, vars

\* DescriptorsOwned and DoneMeansAll, in the words of the invariants.
LEMMA OwnedFits ==
  ASSUME IInv, OwnedInv
  PROVE  DescriptorsOwned
<1>1. DescriptorsOwned
  <2> SUFFICES ASSUME ~server_shutdown
               PROVE  {d \in 3 .. Descriptors : ~Is(d, "closed")} = (UNION {Uses(h) : h \in Live}) \cup Given
    BY DEF DescriptorsOwned, Given
  <2>1. DOMAIN fds = 0 .. Descriptors /\ Descriptors \in Nat /\ Live = Working
    BY TransferAssumption, LiveFacts DEF IInv, Types, TableTypes
  <2>2. \A h \in Working : Uses(h) = Own(threads[h])
    <3> SUFFICES ASSUME NEW h \in Working PROVE Uses(h) = Own(threads[h])
      OBVIOUS
    <3>1. threads[h].pc \in {"recv", "listen", "accept", "send", "md5", "next"}
      BY PeerFacts DEF ThreadState, Working
    <3> QED
      BY <3>1 DEF Uses, Own, Offering
  <2>3. \A d \in 0 .. 2 : fds[d].kind = "other"
    BY DEF OwnedInv, Other
  <2>4. ASSUME NEW d \in 0 .. Descriptors, fds[d].kind \notin {"other", "closed"}
        PROVE  d \in 3 .. Descriptors /\ ~Is(d, "closed")
    <3>1. d \notin 0 .. 2
      BY <2>3, <2>4
    <3> QED
      BY <2>1, <2>4, <3>1 DEF Is
  <2>5. ASSUME NEW h \in Working, NEW d \in Own(threads[h]) PROVE d \in 3 .. Descriptors /\ ~Is(d, "closed")
    <3>1. d \in 0 .. Descriptors /\ Holds(threads[h], fds)
      BY PeerFacts
    <3>2. fds[d].kind \notin {"other", "closed"}
      BY <3>1 DEF Own, Holds, Data
    <3> QED
      BY <2>4, <3>1, <3>2
  <2>6. ASSUME NEW d \in Given PROVE d \in 3 .. Descriptors /\ ~Is(d, "closed")
    <3>1. d \in 0 .. Descriptors /\ Fresh(d)
      BY DEF Given, IInv, Passing, Types, MainTypes
    <3> QED
      BY <2>4, <3>1 DEF Fresh
  <2>7. ASSUME NEW d \in 3 .. Descriptors, ~Is(d, "closed") PROVE d \in Given \/ \E h \in Working : d \in Own(threads[h])
    <3>1. fds[d].kind # "closed"
      BY <2>1, <2>7 DEF Is
    <3> QED
      BY <3>1 DEF OwnedInv
  <2> QED
    BY <2>1, <2>2, <2>5, <2>6, <2>7
<1> QED
  BY <1>1

LEMMA DoneFits ==
  ASSUME IInv, SentInv
  PROVE  DoneMeansAll
<1>2. DoneMeansAll
  <2> SUFFICES ASSUME NEW c \in Client, NEW r \in MayRead(c), Word(r) = "done"
               PROVE  Checked(client[c], r) = 1 .. Files
    BY DEF DoneMeansAll
  <2>1. /\ 1 \in DOMAIN client[c].out /\ r[1] = client[c].out[1]
        /\ Len(r) # 1 => 2 \in DOMAIN client[c].out /\ r[2] = client[c].out[2]
        /\ client[c].pc = "waiting"
    BY LeftEnding, MayReadFacts DEF IInv, Types
  <2>2. IsSum(r) /\ Len(r) # 1 /\ r[2].type = "done"
    BY DEF Word
  <2>3. Full(client[c]) = 1 .. Files
    BY <2>1, <2>2 DEF SentInv
  <2>4. Full(client[c]) = client[c].got
    BY <2>1 DEF Full
  <2> QED
    BY <2>3, <2>4, NothingDeleted
<1> QED
  BY <1>2

\* DescriptorsOwned of the runs, for every number of clients, files and ports, every limit,
\* and three descriptors for each client served at once, when nobody dies, every file can be
\* read and no two transfers under way have one port: what a thread opened it has closed when
\* it is done with it (server.cpp 133, 190, 224-225, 331, 339), also when the lease of its
\* port runs out. Where two have one port it is false: the port is released after each file
\* (server.cpp 324), and the socket of the one whose bind fails is never closed (162-164).
THEOREM DescriptorsHold == Calm => (UnsharedSpec => []DescriptorsOwned)
<1> SUFFICES ASSUME Calm PROVE UnsharedSpec => []DescriptorsOwned
  OBVIOUS
<1> DEFINE J == IInv /\ KeptInv /\ PlacesInv /\ OwnedInv /\ Unshared
<1>1. Mild /\ "idle" \notin Faults
  BY DEF Calm, Mild
<1>2. Init => J
  BY IInvInit, KeptInit, PlacesInit, CalmInit, UnsharedInit DEF CalmInv
<1>3. J /\ [Next /\ Unshared']_vars => J'
  <2> SUFFICES ASSUME J, [Next /\ Unshared']_vars PROVE J'
    OBVIOUS
  <2>1. [Next]_vars
    OBVIOUS
  <2>2. (IInv /\ KeptInv /\ PlacesInv)' /\ Unshared'
    BY <1>1, <2>1, NextKeeps, KeptKept, PlacesKept, UnsharedStays
  <2> QED
    BY <2>1, <2>2, OwnedKept
<1>4. J => DescriptorsOwned
  BY OwnedFits
<1> QED
  BY <1>2, <1>3, <1>4, PTL DEF UnsharedSpec

\* What holds of the server that serves in this way, until its last client shuts it down.
ServedInv == IInv /\ KeptInv /\ PlacesInv /\ CalmInv /\ Unshared

LEMMA ServedInit == Init => ServedInv
  BY IInvInit, KeptInit, PlacesInit, CalmInit, UnsharedInit DEF ServedInv

LEMMA ServedKept ==
  ASSUME Calm, ServedInv, Lasting, [Next /\ Unshared']_vars
  PROVE  ServedInv' /\ [Next]_vars
<1>1. Mild /\ "idle" \notin Faults
  BY DEF Calm, Mild
<1>2. [Next]_vars
  OBVIOUS
<1>3. (IInv /\ KeptInv /\ PlacesInv)' /\ Unshared'
  BY <1>1, <1>2, NextKeeps, KeptKept, PlacesKept, UnsharedStays DEF ServedInv
<1> QED
  BY <1>2, <1>3, CalmKept DEF ServedInv

\* DoneMeansAll of the runs, in the same case, up to the end of a server that its last
\* client shuts down: a client that takes "done" (Program.cs) has every file of the
\* directory with the checksum it was sent, however its reads cut what the server wrote,
\* and whatever the threads beside its own do.
THEOREM DoneHolds == Calm => (UnsharedSpec /\ []Lasting => []DoneMeansAll)
<1> SUFFICES ASSUME Calm PROVE UnsharedSpec /\ []Lasting => []DoneMeansAll
  OBVIOUS
<1>1. ServedInv /\ Lasting /\ [Next /\ Unshared']_vars => ServedInv'
  BY ServedKept
<1>2. ServedInv => DoneMeansAll
  BY DoneFits DEF ServedInv, CalmInv
<1> QED
  BY <1>1, <1>2, ServedInit, PTL DEF UnsharedSpec

\* What the run with one client at a time shows is a case of these: where the limit is 1
\* (server.cpp 429, where it is 5), no two transfers share a port, although it is
\* released after each file (324) and its lease may run out.
THEOREM AloneUnshared == Calm /\ Limit = 1 => (Spec => UnsharedSpec)
<1> SUFFICES ASSUME Calm, Limit = 1 PROVE Spec => UnsharedSpec
  OBVIOUS
<1>1. Mild
  BY DEF Calm
<1>2. ASSUME HandlersWithinLimit, IInv PROVE Unshared
  <2> SUFFICES ASSUME ~server_shutdown, NEW h \in Transfers, NEW g \in Transfers, h # g PROVE FALSE
    BY DEF Unshared
  <2>1. h \in Live /\ g \in Live
    BY DEF Transfers, Live, Sending, Offering
  <2>2. IsFiniteSet(Live) /\ Cardinality(Live) \in Nat /\ Cardinality(Live) <= 1
    BY <1>2, LiveFacts DEF IInv, HandlersWithinLimit
  <2>3. Cardinality(Live) = 1
    BY <2>1, <2>2, FS_EmptySet
  <2>4. \E k : Live = {k}
    BY <2>2, <2>3, FS_Singleton, Zenon
  <2> QED
    BY <2>1, <2>4
<1>3. Spec => []IInv
  <2>1. "idle" \notin Faults
    BY DEF Calm
  <2> QED
    BY <2>1, IInvInit, NextKeeps, PTL DEF Spec
<1>4. Spec => []HandlersWithinLimit
  BY <1>1, LimitHolds
<1> QED
  BY <1>2, <1>3, <1>4, PTL DEF Spec, UnsharedSpec
-------------------------------------------------------------------------------
(***************************************************************************)
(* Files arrive in order.  A client has no file behind the one its thread  *)
(* is at, nor behind one it is told of and has not asked for yet; a client *)
(* that has asked, or was refused, has none.                               *)
(***************************************************************************)
Reaches(S, n, whole) == S \subseteq 1 .. n /\ (whole => S = 1 .. n)

\* what is said of the messages a client has not read
Follows(m, S, whole) ==
  /\ m.type = "file:"  => m.file \in 1 .. Files /\ Reaches(S, m.file - 1, whole)
  /\ m.type = "error:" => S = {}

OrderInv(whole) ==
  /\ \A c \in Client : client[c].inbox # <<>> => Full(client[c]) = {}
  /\ \A h \in Working : threads[h].pc \in Sending => Full(client[Serves(h)]) \subseteq Sent(threads[h])
  /\ \A c \in Client : \A i \in DOMAIN client[c].out : Follows(client[c].out[i], Full(client[c]), whole)

LEMMA OrderInit ==
  ASSUME Init, NEW whole \in BOOLEAN
  PROVE  OrderInv(whole)
<1>1. Working = {} /\ \A c \in Client : client[c].inbox = <<>> /\ client[c].out = <<>>
  BY DEF Init, ClientInit, Working
<1>2. DOMAIN <<>> = {}
  OBVIOUS
<1> QED
  BY <1>1, <1>2 DEF OrderInv

LEMMA MainOrder ==
  ASSUME NEW whole \in BOOLEAN, IInv, OrderInv(whole), MainStep
  PROVE  OrderInv(whole)'
<1>1. client' = client
  BY MainServes
<1>2. ASSUME NEW g \in Working', threads'[g].pc \in Sending
      PROVE  Full(client'[Serves(g)']) \subseteq Sent(threads'[g])
  BY <1>1, <1>2, MainServes DEF OrderInv
<1> QED
  BY <1>1, <1>2 DEF OrderInv

LEMMA ClientOrder ==
  ASSUME NEW whole \in BOOLEAN, IInv, IInv', OrderInv(whole), NEW c \in Client,
         \/ Connect(c) \/ Reading(c) \/ Leave(c)
         \/ (\E cmd \in Commands : Ask(c, cmd)) /\ UNCHANGED <<fds, backlog, Others>>
  PROVE  OrderInv(whole)'
<1> DEFINE p == client[c]
           q == client'[c]
<1>1. \A b \in Client : b # c => client'[b] = client[b]
  BY ClientPaces DEF IInv
<1>2. threads' = threads /\ Working' = Working /\ \A g \in Working : Serves(g)' = Serves(g)
  BY ClientServes
<1>3. \/ p.pc = "prompt" /\ Full(q) = {} /\ q.out = <<>>
      \/ /\ Full(q) = Full(p) /\ q.inbox = p.inbox
         /\ \A i \in DOMAIN q.out : \E j \in DOMAIN p.out : q.out[i] = p.out[j]
      \/ Full(q) \subseteq Full(p) /\ q.inbox = p.inbox /\ q.out = <<>>
  BY ClientFull
<1>4. DOMAIN <<>> = {}
  OBVIOUS
<1>5. /\ p.inbox # <<>> => Full(p) = {}
      /\ \A i \in DOMAIN p.out : Follows(p.out[i], Full(p), whole)
  BY DEF OrderInv
<1> HIDE DEF p, q
<1>6. q.inbox # <<>> => Full(q) = {}
  BY <1>3, <1>5
<1>7. \A i \in DOMAIN q.out : Follows(q.out[i], Full(q), whole)
  BY <1>3, <1>4, <1>5
<1>8. ASSUME NEW b \in Client, client'[b].inbox # <<>> PROVE Full(client'[b]) = {}
  BY <1>1, <1>6, <1>8 DEF OrderInv, q
<1>9. ASSUME NEW b \in Client, NEW i \in DOMAIN client'[b].out PROVE Follows(client'[b].out[i], Full(client'[b]), whole)
  BY <1>1, <1>7, <1>9 DEF OrderInv, q
<1>10. ASSUME NEW g \in Working, threads[g].pc \in Sending
       PROVE  Full(client'[Serves(g)]) \subseteq Sent(threads[g])
  <2>1. Serves(g) \in Client /\ client[Serves(g)].pc # "prompt" /\ Full(client[Serves(g)]) \subseteq Sent(threads[g])
    BY <1>10, SendingFacts DEF OrderInv
  <2> QED
    BY <1>1, <1>3, <2>1 DEF p, q
<1> QED
  BY <1>2, <1>8, <1>9, <1>10 DEF OrderInv

\* A thread sends the file it is at to its own client, and tells it nothing else.
LEMMA ThreadOrder ==
  ASSUME NEW whole \in BOOLEAN, IInv, IInv', "idle" \notin Faults, whole => SentInv, OrderInv(whole), NEW h \in Working, ThreadStep(h)
  PROVE  OrderInv(whole)'
<1> DEFINE c == Serves(h)
           t == threads[h]
           p == client[c]
           q == client'[c]
<1>1. /\ t \in ThreadState /\ Holds(t, fds) /\ Talks(t, fds, p) /\ c = Peer(t, fds) /\ c # NoClient /\ c \in Client
      /\ client \in [Client -> ClientState] /\ p \in ClientState /\ Types /\ Types' /\ h \in DOMAIN threads
  BY PeerFacts DEF IInv, Types, ClientTypes
<1>2. /\ p.inbox # <<>> => Full(p) = {}
      /\ t.pc \in Sending => Full(p) \subseteq Sent(t) /\ p.inbox = <<>>
      /\ \A i \in DOMAIN p.out : Follows(p.out[i], Full(p), whole)
  BY <1>1, SendingFacts DEF OrderInv
<1> HIDE DEF c
<1>3. ASSUME NEW u, Becomes(h, u), u.pc \notin {"stop", "ended"} => u.sock = t.sock,
             \A b \in Client : b # c => client'[b] = client[b],
             q.inbox # <<>> => Full(q) = {},
             u.pc \in Sending => Full(q) \subseteq Sent(u),
             \A i \in DOMAIN q.out : Follows(q.out[i], Full(q), whole)
      PROVE  OrderInv(whole)'
  <2>1. ReceiveExit(h) \/ ReceiveShutdown(h) \/ ReceiveFails(h) => u.pc \in {"stop", "ended"}
    BY <1>1, <1>3, EndsTurn
  <2>2. /\ Working' \subseteq Working /\ \A g \in Working' : Serves(g)' = Serves(g)
    BY <1>1, <1>3, <2>1, ThreadServes
  <2>3. ASSUME NEW g \in Working', threads'[g].pc \in Sending
        PROVE  Full(client'[Serves(g)']) \subseteq Sent(threads'[g])
    <3>1. CASE g = h
      <4>1. threads'[g] = u /\ Serves(g)' = c
        BY <1>1, <1>3, <2>2, <2>3, <3>1 DEF Becomes, c
      <4> QED
        BY <1>3, <2>3, <4>1
    <3>2. CASE g # h
      <4>1. g \in Working /\ threads'[g] = threads[g] /\ Serves(g)' = Serves(g)
        BY <1>3, <2>2, <3>2 DEF Becomes, Working
      <4>2. Serves(g) \in Client /\ Serves(g) # c
        BY <3>2, <4>1, PeerFacts, ApartFacts DEF c
      <4> QED
        BY <1>3, <2>3, <4>1, <4>2 DEF OrderInv
    <3> QED
      BY <3>1, <3>2
  <2>4. \A b \in Client : client'[b].inbox # <<>> => Full(client'[b]) = {}
    BY <1>3 DEF OrderInv
  <2>5. \A b \in Client : \A i \in DOMAIN client'[b].out : Follows(client'[b].out[i], Full(client'[b]), whole)
    BY <1>3 DEF OrderInv
  <2> QED
    BY <2>3, <2>4, <2>5 DEF OrderInv
<1>4. ASSUME q.pc = p.pc, q.got = p.got, q.data = p.data PROVE Full(q) = Full(p)
  BY <1>4 DEF Full
<1>5. ASSUME NEW m \in Msg, NEW peers \in [Client -> ClientState], SendFrom(peers, h, m),
             \A b \in Client : b # c => peers[b] = client[b],
             LET o == peers[c] IN
               o.pc = p.pc /\ o.got = p.got /\ o.data = p.data /\ o.out = p.out /\ o.inbox = <<>>,
             Follows(m, Full(p), whole)
       PROVE  /\ \A b \in Client : b # c => client'[b] = client[b]
              /\ Full(q) = Full(p) /\ q.inbox = <<>>
              /\ \A i \in DOMAIN q.out : Follows(q.out[i], Full(q), whole)
  <2>1. /\ \A b \in Client : b # c => client'[b] = client[b]
        /\ Gets(peers[c], q, IF Alive(c) THEN Append(peers[c].out, m) ELSE peers[c].out)
    BY <1>1, <1>5, SendFacts DEF c
  <2>2. /\ q.pc = p.pc /\ q.got = p.got /\ q.data = p.data /\ q.inbox = <<>>
        /\ q.out = p.out \/ q.out = Append(p.out, m)
    BY <1>5, <2>1 DEF Gets
  <2>3. Full(q) = Full(p)
    BY <1>4, <2>2
  <2>4. p.out \in Seq(Msg)
    BY <1>1 DEF ClientState
  <2> HIDE DEF p, q
  <2>5. \A i \in DOMAIN Append(p.out, m) :
          (i \in DOMAIN p.out /\ Append(p.out, m)[i] = p.out[i]) \/ Append(p.out, m)[i] = m
    BY <2>4, Appended
  <2>6. \A i \in DOMAIN q.out : (i \in DOMAIN p.out /\ q.out[i] = p.out[i]) \/ q.out[i] = m
    BY <2>2, <2>5
  <2> QED
    BY <1>2, <1>5, <2>1, <2>2, <2>3, <2>6
<1>6. ASSUME NEW pc \in ThreadPc, Go(h, pc)
      PROVE  \E u : Becomes(h, u) /\ u.pc = pc /\ u.sock = t.sock /\ u.file = t.file
  BY <1>1, <1>6, GoFacts DEF Goes, Types
<1>7. \A pc \in {"recv", "listen", "accept", "send", "md5", "next", "stop"} : pc \in ThreadPc
  BY DEF ThreadPc
<1>8. /\ Message("file:", t.file, t.port) \in Msg
      /\ Message("md5sum:", t.file, 0) \in Msg /\ \A S : Follows(Message("md5sum:", t.file, 0), S, whole)
      /\ Message("done", 0, 0) \in Msg /\ \A S : Follows(Message("done", 0, 0), S, whole)
      /\ Message("error:", 0, 0) \in Msg /\ Follows(Message("error:", 0, 0), {}, whole)
  BY <1>1, Messages DEF Message, Follows
<1>9. c = Serves(h) /\ (Serves(h) # NoClient => Taken(h) \in [Client -> ClientState]
      /\ (\A b \in Client : b # c => Taken(h)[b] = client[b])
      /\ LET o == Taken(h)[c] IN
           o.pc = p.pc /\ o.inbox = <<>> /\ o.out = p.out /\ o.data = p.data /\ o.got = p.got)
  BY <1>1, TakenFacts DEF c
<1>10. /\ Taken(h) \in [Client -> ClientState] /\ \A b \in Client : b # c => Taken(h)[b] = client[b]
       /\ LET o == Taken(h)[c] IN
            o.pc = p.pc /\ o.inbox = <<>> /\ o.out = p.out /\ o.data = p.data /\ o.got = p.got
  BY <1>1, <1>9
<1> HIDE DEF t, p, q
<1>11. CASE ReceiveGet(h)
  <2> DEFINE u == [t EXCEPT !.pc = "listen", !.file = 1]
  <2>1. threads' = [threads EXCEPT ![h] = u] /\ client' = Taken(h) /\ p.inbox = <<"get">>
    BY <1>11 DEF ReceiveGet, Receive, t, p, c
  <2>2. u.pc = "listen" /\ u.sock = t.sock
    BY <1>1 DEF ThreadState
  <2>3. u \in ThreadState
    BY <1>1, Bounds DEF ThreadState
  <2> HIDE DEF u
  <2>4. Becomes(h, u)
    BY <1>1, <2>1, <2>3, SetThread DEF Types
  <2>5. <<"get">> # <<>>
    OBVIOUS
  <2>6. Full(p) = {}
    BY <1>2, <2>1, <2>5
  <2>7. Full(q) = Full(p) /\ q.out = p.out /\ q.inbox = <<>>
    BY <1>4, <1>10, <2>1 DEF q
  <2> QED
    BY <1>2, <1>3, <1>10, <2>1, <2>2, <2>4, <2>6, <2>7
<1>12. CASE ReceiveBad(h)
  <2>1. threads' = threads /\ SendFrom(Taken(h), h, Message("error:", 0, 0)) /\ t.pc = "recv" /\ p.inbox = <<"bad">>
    BY <1>12 DEF ReceiveBad, Receive, At, t, p, c
  <2>2. Becomes(h, t)
    BY <1>1, <2>1 DEF Becomes, t
  <2>3. <<"bad">> # <<>>
    OBVIOUS
  <2>4. Full(p) = {}
    BY <1>2, <2>1, <2>3
  <2>5. /\ \A b \in Client : b # c => client'[b] = client[b]
        /\ q.inbox = <<>> /\ \A i \in DOMAIN q.out : Follows(q.out[i], Full(q), whole)
    BY <1>5, <1>8, <1>10, <2>1, <2>4
  <2> QED
    BY <1>3, <2>1, <2>2, <2>5 DEF Sending, Offering
<1>13. CASE ReceiveExit(h) \/ ReceiveShutdown(h)
  <2>1. client' = Taken(h) /\ (Finish(h) \/ Go(h, "stop"))
    BY <1>13 DEF ReceiveExit, ReceiveShutdown
  <2>2. PICK u : Becomes(h, u) /\ u.pc \in {"stop", "ended"}
    BY <1>1, <1>6, <1>7, <2>1, FinishFacts DEF Types
  <2>3. Full(q) = Full(p) /\ q.out = p.out /\ q.inbox = <<>>
    BY <1>4, <1>10, <2>1 DEF q
  <2> QED
    BY <1>2, <1>3, <1>10, <2>1, <2>2, <2>3 DEF Sending, Offering
<1>14. CASE ReceiveNothing(h) \/ ReceiveFails(h)
  <2>1. client' = client /\ Finish(h)
    BY <1>14 DEF ReceiveNothing, ReceiveFails
  <2>2. PICK u : Becomes(h, u) /\ u.pc = "ended"
    BY <1>1, <2>1, FinishFacts DEF Types
  <2> QED
    BY <1>2, <1>3, <2>1, <2>2 DEF Sending, Offering, p, q
<1>15. CASE Announce(h)
  <2> DEFINE l == Lowest
             u == [t EXCEPT !.pc = "accept", !.lsock = l]
  <2>1. /\ threads' = [threads EXCEPT ![h] = u] /\ Send(h, Message("file:", t.file, t.port)) /\ t.pc = "listen"
        /\ l # -1
    BY <1>15 DEF Announce, At, t
  <2>2. l \in 0 .. Descriptors
    BY <1>1, <2>1, LowestFacts DEF Types
  <2> HIDE DEF l
  <2>3. u.pc = "accept" /\ u.sock = t.sock /\ u.file = t.file /\ u \in ThreadState
    BY <1>1, <2>2 DEF ThreadState
  <2> HIDE DEF u
  <2>4. Becomes(h, u)
    BY <1>1, <2>1, <2>3, SetThread DEF Types
  <2>5. p.inbox = <<>> /\ Full(p) \subseteq Sent(t) /\ Sent(u) = Sent(t) /\ Sent(t) = 1 .. t.file - 1
    BY <1>2, <2>1, <2>3 DEF Sending, Sent
  <2>6. whole => Full(p) = Sent(t)
    <3>1. t.pc \in Sending
      BY <2>1 DEF Sending
    <3> QED
      BY <3>1 DEF SentInv, t, p, c
  <2>7. t.file \in 1 .. Files
    BY <1>1 DEF ThreadState
  <2>8. Follows(Message("file:", t.file, t.port), Full(p), whole)
    <3> DEFINE m == Message("file:", t.file, t.port)
    <3>1. m.type = "file:" /\ m.file = t.file
      BY DEF Message
    <3> HIDE DEF m
    <3> QED
      BY <2>5, <2>6, <2>7, <3>1 DEF Follows, Reaches, m
  <2>9. /\ \A b \in Client : b # c => client'[b] = client[b]
        /\ Full(q) = Full(p) /\ q.inbox = <<>>
        /\ \A i \in DOMAIN q.out : Follows(q.out[i], Full(q), whole)
    BY <1>1, <1>5, <1>8, <2>1, <2>5, <2>8 DEF Send, p
  <2> QED
    BY <1>3, <2>3, <2>4, <2>5, <2>9
<1>16. CASE AnnounceFails(h) \/ AcceptDataFails(h) \/ SendFileFails(h) \/ (AcceptData(h) /\ Lowest = -1)
  <2>1. client' = client /\ Go(h, "next") /\ t.pc \in {"listen", "accept", "send"}
    BY <1>16 DEF AnnounceFails, AcceptDataFails, SendFileFails, AcceptData, At, t
  <2>2. PICK u : Becomes(h, u) /\ u.pc = "next" /\ u.sock = t.sock /\ u.file = t.file
    BY <1>6, <1>7, <2>1
  <2>3. Full(p) \subseteq 1 .. t.file - 1 /\ p.inbox = <<>>
    BY <1>2, <2>1 DEF Sending, Offering, Sent
  <2>4. Full(p) \subseteq Sent(u)
    <3>1. t.file \in 1 .. Files
      BY <1>1 DEF ThreadState
    <3>2. 1 .. t.file - 1 \subseteq 1 .. t.file
      BY <3>1, Bounds
    <3> QED
      BY <2>2, <2>3, <3>2 DEF Sent
  <2> QED
    BY <1>2, <1>3, <2>1, <2>2, <2>3, <2>4 DEF p, q
<1>17. CASE AcceptData(h) /\ Lowest # -1
  <2> DEFINE l == Lowest
             x == IF l <= 0 THEN "next" ELSE "send"
             u == [t EXCEPT !.tsock = l, !.pc = x]
  <2>1. threads' = [threads EXCEPT ![h] = u] /\ client' = client /\ t.pc = "accept"
    BY <1>17 DEF AcceptData, At, t
  <2>2. l \in 0 .. Descriptors
    BY <1>1, <1>17, LowestFacts DEF Types
  <2>3. x \in {"next", "send"}
    OBVIOUS
  <2> HIDE DEF l, x
  <2>4. u.pc = x /\ u.sock = t.sock /\ u.file = t.file /\ u \in ThreadState
    BY <1>1, <2>2, <2>3 DEF ThreadState
  <2> HIDE DEF u
  <2>5. Becomes(h, u)
    BY <1>1, <2>1, <2>4, SetThread DEF Types
  <2>6. Full(p) \subseteq 1 .. t.file - 1 /\ p.inbox = <<>>
    BY <1>2, <2>1 DEF Sending, Offering, Sent
  <2>7. Full(p) \subseteq Sent(u)
    <3>1. t.file \in 1 .. Files
      BY <1>1 DEF ThreadState
    <3>2. 1 .. t.file - 1 \subseteq 1 .. t.file
      BY <3>1, Bounds
    <3>3. Sent(u) = 1 .. t.file - 1 \/ Sent(u) = 1 .. t.file
      BY <2>4 DEF Sent
    <3> QED
      BY <2>6, <3>2, <3>3
  <2> QED
    BY <1>2, <1>3, <2>1, <2>4, <2>5, <2>6, <2>7 DEF p, q
<1>18. CASE SendFile(h)
  <2>1. t.pc = "send" /\ Reads(h) = c /\ Go(h, "md5")
    <3>1. t.pc = "send" /\ Go(h, "md5")
      BY <1>18 DEF SendFile, At, t
    <3>2. fds[t.tsock] = Data(c) /\ Reads(h) # NoClient
      BY <1>1, <1>18, <3>1 DEF Holds, SendFile
    <3>3. Reads(h) = fds[t.tsock].peer
      BY <3>2 DEF Reads, t
    <3> QED
      BY <3>1, <3>2, <3>3 DEF Data
  <2> DEFINE x == IF Alive(c) THEN [owner |-> c, file |-> t.file] ELSE p.data
  <2>2. client' = [client EXCEPT ![c].data = x]
    BY <1>1, <1>18, <2>1 DEF SendFile, t, c, p
  <2> HIDE DEF x
  <2>3. /\ q.data = x /\ q.pc = p.pc /\ q.got = p.got /\ q.out = p.out /\ q.inbox = p.inbox
        /\ \A b \in Client : b # c => client'[b] = client[b]
    BY <1>1, <2>2 DEF ClientState, p, q
  <2>4. PICK u : Becomes(h, u) /\ u.pc = "md5" /\ u.sock = t.sock /\ u.file = t.file
    BY <1>6, <1>7, <2>1
  <2>5. p.inbox = <<>> /\ Full(p) \subseteq 1 .. t.file - 1
    BY <1>2, <2>1 DEF Sending, Offering, Sent
  <2>6. t.file \in 1 .. Files
    BY <1>1 DEF ThreadState
  <2>7. 1 .. t.file - 1 \subseteq 1 .. t.file /\ t.file \in 1 .. t.file
    BY <2>6, Bounds
  <2>8. Sent(u) = 1 .. t.file
    BY <2>4 DEF Sent
  <2>9. CASE ~Alive(c)
    <3>1. Full(q) = Full(p)
      BY <1>4, <2>3, <2>9 DEF x
    <3> QED
      BY <1>2, <1>3, <2>3, <2>4, <2>5, <2>7, <2>8, <3>1
  <2>10. CASE Alive(c)
    <3>1. x.file = t.file
      BY <2>10 DEF x
    <3>2. p.out = <<>>
      BY <1>1, <2>1, <2>10 DEF Talks, Ready, Alive, p
    <3>3. Full(q) \subseteq p.got \cup {t.file} /\ p.got \subseteq Full(p)
      BY <2>3, <3>1 DEF Full
    <3>4. DOMAIN <<>> = {}
      OBVIOUS
    <3> QED
      BY <1>3, <2>3, <2>4, <2>5, <2>7, <2>8, <3>2, <3>3, <3>4
  <2> QED
    BY <2>9, <2>10
<1>19. CASE SendMd5(h)
  <2>1. Go(h, "next") /\ t.pc = "md5" /\ (Send(h, Message("md5sum:", t.file, 0)) \/ client' = client)
    BY <1>19 DEF SendMd5, At, t
  <2>2. PICK u : Becomes(h, u) /\ u.pc = "next" /\ u.sock = t.sock /\ u.file = t.file
    BY <1>6, <1>7, <2>1
  <2>3. p.inbox = <<>> /\ Full(p) \subseteq Sent(t) /\ Sent(u) = Sent(t)
    BY <1>2, <2>1, <2>2 DEF Sending, Sent
  <2>4. CASE client' = client
    BY <1>2, <1>3, <2>2, <2>3, <2>4 DEF p, q
  <2>5. CASE Send(h, Message("md5sum:", t.file, 0))
    <3>1. /\ \A b \in Client : b # c => client'[b] = client[b]
          /\ Full(q) = Full(p) /\ q.inbox = <<>>
          /\ \A i \in DOMAIN q.out : Follows(q.out[i], Full(q), whole)
      BY <1>1, <1>5, <1>8, <2>3, <2>5 DEF Send, p
    <3> QED
      BY <1>3, <2>2, <2>3, <3>1
  <2> QED
    BY <2>1, <2>4, <2>5
<1>20. CASE NextFile(h)
  <2>1. t.pc = "next" /\ p.inbox = <<>> /\ Full(p) \subseteq 1 .. t.file
    BY <1>2, <1>20 DEF NextFile, At, Sending, Sent, t
  <2>2. CASE t.file = Files
    <3>1. Send(h, Message("done", 0, 0)) /\ Go(h, "recv")
      BY <1>20, <2>2 DEF NextFile, t
    <3>2. PICK u : Becomes(h, u) /\ u.pc = "recv" /\ u.sock = t.sock
      BY <1>6, <1>7, <3>1
    <3>3. /\ \A b \in Client : b # c => client'[b] = client[b]
          /\ q.inbox = <<>>
          /\ \A i \in DOMAIN q.out : Follows(q.out[i], Full(q), whole)
      BY <1>1, <1>5, <1>8, <2>1, <3>1 DEF Send, p
    <3> QED
      BY <1>3, <3>2, <3>3 DEF Sending, Offering
  <2>3. CASE t.file # Files
    <3> DEFINE n == t.file + 1
               u == [t EXCEPT !.pc = "listen", !.file = n]
    <3>1. threads' = [threads EXCEPT ![h] = u] /\ client' = client
      BY <1>20, <2>3 DEF NextFile, t
    <3>2. t.file \in 1 .. Files
      BY <1>1 DEF ThreadState
    <3>3. n \in 1 .. Files /\ n - 1 = t.file
      BY <2>3, <3>2, Bounds
    <3> HIDE DEF n
    <3>4. u.pc = "listen" /\ u.sock = t.sock /\ u.file = n /\ u \in ThreadState
      BY <1>1, <3>3 DEF ThreadState
    <3> HIDE DEF u
    <3>5. Becomes(h, u)
      BY <1>1, <3>1, <3>4, SetThread DEF Types
    <3>6. Sent(u) = 1 .. t.file
      BY <3>3, <3>4 DEF Sent
    <3> QED
      BY <1>2, <1>3, <2>1, <3>1, <3>4, <3>5, <3>6 DEF p, q
  <2> QED
    BY <2>2, <2>3
<1>21. ~StopAccepting(h)
  BY DEF StopAccepting, At, Working
<1> QED
  BY <1>11, <1>12, <1>13, <1>14, <1>15, <1>16, <1>17, <1>18, <1>19, <1>20, <1>21 DEF ThreadStep
LEMMA OrderKept ==
  ASSUME NEW whole \in BOOLEAN, "idle" \notin Faults, whole => SentInv, IInv, IInv', OrderInv(whole), [Next]_vars
  PROVE  OrderInv(whole)'
<1>1. CASE MainStep
  BY <1>1, MainOrder
<1>2. ASSUME NEW h \in DOMAIN threads, ThreadStep(h) PROVE OrderInv(whole)'
  <2>1. CASE h \in Working
    BY <1>2, <2>1, ThreadOrder
  <2>2. CASE h \notin Working
    <3>1. StopAccepting(h)
      BY <1>2, <2>2
         DEF ThreadStep, ReceiveGet, ReceiveBad, ReceiveExit, ReceiveShutdown, Receive, ReceiveNothing, ReceiveFails,
             Announce, AnnounceFails, AcceptData, AcceptDataFails, SendFile, SendFileFails, SendMd5, NextFile, At,
             Working
    <3>2. client' = client /\ fds' = fds /\ Finish(h)
      BY <3>1 DEF StopAccepting
    <3>3. PICK u : Becomes(h, u) /\ u.pc = "ended"
      BY <3>2, FinishFacts DEF IInv, Types
    <3>4. ASSUME NEW g \in Working' PROVE g \in Working /\ threads'[g] = threads[g] /\ Serves(g)' = Serves(g)
      BY <3>2, <3>3 DEF Working, Becomes, Serves, Is
    <3> QED
      BY <3>2, <3>4 DEF OrderInv
  <2> QED
    BY <2>1, <2>2
<1>3. ASSUME NEW c \in Client,
             \/ Connect(c) \/ Reading(c) \/ Leave(c)
             \/ (\E cmd \in Commands : Ask(c, cmd)) /\ UNCHANGED <<fds, backlog, Others>>
      PROVE  OrderInv(whole)'
  BY <1>3, ClientOrder
<1>4. CASE UNCHANGED <<fds, threads, client>>
  BY <1>4 DEF OrderInv, Working, Serves, Is
<1> QED
  BY <1>1, <1>2, <1>3, <1>4 DEF Next, Expire, vars
-------------------------------------------------------------------------------
(***************************************************************************)
(* The service.  A client in the words of TransferService, and what a step *)
(* of the server's model may make of it: nothing, or, in this order, an    *)
(* Arrive, Request, Fetch, Arrives, Finish or Leave.                       *)
(***************************************************************************)
Stage(p) ==
  CASE p.pc = "away"                -> "away"
    [] p.pc = "prompt"              -> "idle"
    [] p.pc \in {"waiting", "data"} -> "asked"
    [] OTHER                        -> "left"
Awaited(p) == IF p.pc = "data" THEN p.told ELSE 0

Turn(p, q, whole) ==
  \/ Stage(q) = Stage(p) /\ Awaited(q) = Awaited(p) /\ q.got = p.got
  \/ Stage(p) = "away" /\ Stage(q) = "idle" /\ Awaited(q) = Awaited(p) /\ q.got = p.got
  \/ Stage(p) = "idle" /\ Stage(q) = "asked" /\ Awaited(q) = Awaited(p) /\ q.got = {}
  \/ /\ Stage(p) = "asked" /\ Stage(q) = Stage(p) /\ Awaited(p) = 0 /\ q.got = p.got
     /\ Awaited(q) \in 1 .. Files /\ Reaches(p.got, Awaited(q) - 1, whole)
  \/ Awaited(p) # 0 /\ Awaited(q) = 0 /\ Stage(q) = Stage(p) /\ q.got \in {p.got, p.got \cup {Awaited(p)}}
  \/ /\ Stage(p) = "asked" /\ Stage(q) = "idle" /\ Awaited(p) = 0 /\ Awaited(q) = 0 /\ q.got = p.got
     /\ whole => p.got = {} \/ p.got = 1 .. Files
  \/ /\ Stage(q) = "left" /\ Awaited(q) = 0
     /\ (Stage(p) = "idle" /\ q.got = {}) \/ (Stage(p) \in {"idle", "asked"} /\ q.got = p.got)

\* The instances differ in what may be passed over.
LEMMA TurnServes ==
  ASSUME NEW whole \in BOOLEAN, NEW c \in Client, \A b \in Client : b # c => client'[b] = client[b], Turn(client[c], client'[c], whole)
  PROVE  /\ [Ordered!ServiceNext]_(Ordered!svars)
         /\ whole => [Whole!ServiceNext]_(Whole!svars)
<1> DEFINE p == client[c]
           q == client'[c]
           s == Stage(q)
           k == Awaited(q)
           g == q.got
<1>1. /\ Stages' = [Stages EXCEPT ![c] = s] /\ Stages[c] = Stage(p)
      /\ Coming' = [Coming EXCEPT ![c] = k] /\ Coming[c] = Awaited(p)
      /\ Got' = [Got EXCEPT ![c] = g] /\ Got[c] = p.got
  BY DEF Stages, Coming, Got, Stage, Awaited
<1>2. /\ s = Stage(p) => Stages' = Stages
      /\ k = Awaited(p) => Coming' = Coming
      /\ g = p.got => Got' = Got
  BY DEF Stages, Coming, Got, Stage, Awaited
<1> HIDE DEF p, q, s, k, g
<1>3. CASE s = Stage(p) /\ k = Awaited(p) /\ g = p.got
  <2>1. UNCHANGED <<Stages, Coming, Got>>
    BY <1>1, <1>2, <1>3
  <2> QED
    BY <2>1 DEF Ordered!svars, Whole!svars
<1>4. CASE Stage(p) = "away" /\ s = "idle" /\ k = Awaited(p) /\ g = p.got
  <2>1. Coming' = Coming /\ Got' = Got
    BY <1>1, <1>2, <1>4
  <2>2. Ordered!Arrive(c) /\ Whole!Arrive(c)
    BY <1>1, <1>4, <2>1 DEF Ordered!Arrive, Ordered!Move, Whole!Arrive, Whole!Move
  <2> QED
    BY <2>2 DEF Ordered!ServiceNext, Whole!ServiceNext
<1>5. CASE Stage(p) = "idle" /\ s = "asked" /\ k = Awaited(p) /\ g = {}
  <2>1. Coming' = Coming
    BY <1>1, <1>2, <1>5
  <2>2. Ordered!Request(c) /\ Whole!Request(c)
    BY <1>1, <1>5, <2>1 DEF Ordered!Request, Ordered!Move, Whole!Request, Whole!Move
  <2> QED
    BY <2>2 DEF Ordered!ServiceNext, Whole!ServiceNext
<1>6. CASE /\ Stage(p) = "asked" /\ s = Stage(p) /\ Awaited(p) = 0 /\ g = p.got
           /\ k \in 1 .. Files /\ Reaches(p.got, k - 1, whole)
  <2>1. Stages' = Stages /\ Got' = Got
    BY <1>1, <1>2, <1>6
  <2>2. Got[c] \subseteq 1 .. k - 1 /\ (whole => Got[c] = 1 .. k - 1)
    BY <1>1, <1>6 DEF Reaches
  <2>3. Ordered!Fetch(c, k) /\ (whole => Whole!Fetch(c, k))
    BY <1>1, <1>6, <2>1, <2>2 DEF Ordered!Fetch, Whole!Fetch
  <2> QED
    BY <1>6, <2>3 DEF Ordered!ServiceNext, Whole!ServiceNext
<1>7. CASE Awaited(p) # 0 /\ k = 0 /\ s = Stage(p) /\ g \in {p.got, p.got \cup {Awaited(p)}}
  <2>1. Stages' = Stages
    BY <1>1, <1>2, <1>7
  <2>2. Got' = Got \/ Got' = [Got EXCEPT ![c] = @ \cup {Coming[c]}]
    BY <1>1, <1>2, <1>7
  <2>3. Ordered!Arrives(c) /\ Whole!Arrives(c)
    BY <1>1, <1>7, <2>1, <2>2 DEF Ordered!Arrives, Whole!Arrives
  <2> QED
    BY <2>3 DEF Ordered!ServiceNext, Whole!ServiceNext
<1>8. CASE /\ Stage(p) = "asked" /\ s = "idle" /\ Awaited(p) = 0 /\ k = 0 /\ g = p.got
           /\ whole => p.got = {} \/ p.got = 1 .. Files
  <2>1. Coming' = Coming /\ Got' = Got
    BY <1>1, <1>2, <1>8
  <2>2. Ordered!Finish(c) /\ (whole => Whole!Finish(c))
    BY <1>1, <1>8, <2>1 DEF Ordered!Finish, Ordered!Move, Whole!Finish, Whole!Move
  <2> QED
    BY <2>2 DEF Ordered!ServiceNext, Whole!ServiceNext
<1>9. CASE /\ s = "left" /\ k = 0
           /\ (Stage(p) = "idle" /\ g = {}) \/ (Stage(p) \in {"idle", "asked"} /\ g = p.got)
  <2>1. Coming' = [Coming EXCEPT ![c] = 0] /\ Stages' = [Stages EXCEPT ![c] = "left"]
    BY <1>1, <1>9
  <2>2. (Stages[c] = "idle" /\ Got' = [Got EXCEPT ![c] = {}]) \/ (Stages[c] \in {"idle", "asked"} /\ Got' = Got)
    BY <1>1, <1>2, <1>9
  <2>3. Ordered!Leave(c) /\ Whole!Leave(c)
    BY <2>1, <2>2 DEF Ordered!Leave, Ordered!Move, Whole!Leave, Whole!Move
  <2> QED
    BY <2>3 DEF Ordered!ServiceNext, Whole!ServiceNext
<1>10. Turn(p, q, whole)
  BY DEF p, q
<1> QED
  BY <1>3, <1>4, <1>5, <1>6, <1>7, <1>8, <1>9, <1>10 DEF Turn, s, k, g

\* A thread changes nothing of that: what it sends has yet to be read.
LEMMA ThreadGot ==
  ASSUME Types, NEW h \in DOMAIN threads, ThreadStep(h)
  PROVE  UNCHANGED <<Stages, Coming, Got>>
<1> SUFFICES \A b \in Client : client'[b].pc = client[b].pc /\ client'[b].told = client[b].told /\ client'[b].got = client[b].got
  BY DEF Stages, Coming, Got
<1>1. client \in [Client -> ClientState]
  BY DEF Types, ClientTypes
<1>2. CASE client' = client
  BY <1>2
<1>3. ASSUME NEW peers \in [Client -> ClientState], NEW m \in Msg, SendFrom(peers, h, m),
             \A b \in Client : peers[b].pc = client[b].pc /\ peers[b].told = client[b].told /\ peers[b].got = client[b].got
      PROVE  \A b \in Client : client'[b].pc = client[b].pc /\ client'[b].told = client[b].told /\ client'[b].got = client[b].got
  <2>1. \A b \in Client : b # Serves(h) => client'[b] = peers[b]
    BY <1>3, SendFacts
  <2>2. \A b \in Client : b = Serves(h) => client'[b].pc = peers[b].pc /\ client'[b].told = peers[b].told /\ client'[b].got = peers[b].got
    BY <1>3, SendFacts DEF Gets
  <2> QED
    BY <1>3, <2>1, <2>2
<1>4. CASE ReceiveGet(h) \/ ReceiveBad(h) \/ ReceiveExit(h) \/ ReceiveShutdown(h)
  <2>1. Serves(h) # NoClient
    BY <1>4 DEF ReceiveGet, ReceiveBad, ReceiveExit, ReceiveShutdown, Receive
  <2>2. /\ Taken(h) \in [Client -> ClientState]
        /\ \A b \in Client : Taken(h)[b].pc = client[b].pc /\ Taken(h)[b].told = client[b].told /\ Taken(h)[b].got = client[b].got
    BY <2>1, TakenFacts
  <2>3. client' = Taken(h) \/ SendFrom(Taken(h), h, Message("error:", 0, 0))
    BY <1>4 DEF ReceiveGet, ReceiveBad, ReceiveExit, ReceiveShutdown
  <2>4. Message("error:", 0, 0) \in Msg
    BY Messages
  <2> QED
    BY <1>3, <2>2, <2>3, <2>4
<1>5. CASE Announce(h) \/ SendMd5(h) \/ NextFile(h)
  <2>1. client' = client \/ \E m \in Msg : SendFrom(client, h, m)
    BY <1>5, Messages DEF Announce, SendMd5, NextFile, Send
  <2> QED
    BY <1>1, <1>3, <2>1
<1>6. CASE SendFile(h)
  BY <1>1, <1>6 DEF SendFile
<1> QED
  BY <1>2, <1>4, <1>5, <1>6
     DEF ThreadStep, StopAccepting, ReceiveNothing, ReceiveFails, AnnounceFails, AcceptData,
         AcceptDataFails, SendFileFails

\* The "file:" line a client goes by is one it was sent.
LEMMA LineRead ==
  ASSUME IInv, NEW c \in Client, NEW r \in MayRead(c), Word(r) \in {"file:", "error:"}
  PROVE  \E i \in DOMAIN client[c].out : client[c].out[i].type = Word(r) /\ (Word(r) = "file:" => client[c].out[i] = Line(r))
<1>1. /\ 1 \in DOMAIN client[c].out /\ r[1] = client[c].out[1] /\ Len(r) \in Nat \ {0}
      /\ Len(r) # 1 => 2 \in DOMAIN client[c].out /\ r[2] = client[c].out[2]
  BY LeftEnding DEF IInv, Types
<1>2. Len(r) # 1 => Len(r) > 1
  <2> DEFINE n == Len(r)
  <2>1. n \in Nat \ {0}
    BY <1>1
  <2> HIDE DEF n
  <2>2. n # 1 => n > 1
    BY <2>1
  <2> QED
    BY <2>2 DEF n
<1>3. CASE IsSum(r)
  BY <1>1, <1>2, <1>3 DEF Word, Line
<1>4. CASE ~IsSum(r)
  BY <1>1, <1>4 DEF Word, Line
<1> QED
  BY <1>3, <1>4

LEMMA ClientTurns ==
  ASSUME NEW whole \in BOOLEAN, IInv, OrderInv(whole), whole => Calm /\ CalmInv, NEW c \in Client,
         \/ Connect(c) \/ Reading(c) \/ Leave(c)
         \/ (\E cmd \in Commands : Ask(c, cmd)) /\ UNCHANGED <<fds, backlog, Others>>
  PROVE  Turn(client[c], client'[c], whole)
<1> DEFINE p == client[c]
<1>1. client \in [Client -> ClientState] /\ p \in ClientState /\ Polite(p, c)
  BY DEF IInv, Types, ClientTypes, Conversations
<1>2. ASSUME NEW r \in MayRead(c)
      PROVE  LET u == Heard(c, r) IN u \in ClientState /\ u.pc = "waiting" /\ u.got = p.got /\ p.pc = "waiting"
  <2>1. Heard(c, r) \in ClientState /\ Heard(c, r).pc = "waiting" /\ p.pc = "waiting"
    BY HeardFacts, MayReadFacts DEF IInv, Types
  <2>2. Checked(p, r) = p.got
    BY NothingDeleted
  <2>3. Heard(c, r).got = p.got
    BY <1>1, <2>2 DEF Heard, ClientState
  <2> QED
    BY <2>1, <2>3
<1> HIDE DEF p
<1>3. ASSUME NEW q, client' = [client EXCEPT ![c] = q], Turn(p, q, whole) PROVE Turn(client[c], client'[c], whole)
  BY <1>1, <1>3 DEF p
<1>4. ASSUME NEW u \in ClientState, u.got = p.got, p.pc \in {"waiting", "data"} PROVE Turn(p, Dead(u), whole)
  <2>1. Dead(u).pc \in {"gone", "crashed"} /\ Dead(u).got = p.got
    BY <1>4, DeadFacts DEF Dead, ClientState
  <2> HIDE DEF Dead
  <2> QED
    BY <1>4, <2>1 DEF Turn, Stage, Awaited
<1>5. CASE Connect(c)
  <2> DEFINE q == [p EXCEPT !.pc = "prompt"]
  <2>1. client' = [client EXCEPT ![c] = q] /\ p.pc = "away"
    BY <1>5 DEF Connect, p
  <2>2. q.pc = "prompt" /\ q.got = p.got
    BY <1>1 DEF ClientState
  <2> HIDE DEF q
  <2>3. Turn(p, q, whole)
    BY <2>1, <2>2 DEF Turn, Stage, Awaited
  <2> QED
    BY <1>3, <2>1, <2>3
<1>6. CASE Leave(c)
  <2>1. CASE p.pc = "prompt" /\ client' = [client EXCEPT ![c].pc = "gone"]
    <3> DEFINE q == [p EXCEPT !.pc = "gone"]
    <3>1. client' = [client EXCEPT ![c] = q]
      BY <2>1 DEF p
    <3>2. q.pc = "gone" /\ q.got = p.got
      BY <1>1 DEF ClientState
    <3> HIDE DEF q
    <3>3. Turn(p, q, whole)
      BY <2>1, <3>2 DEF Turn, Stage, Awaited
    <3> QED
      BY <1>3, <3>1, <3>3
  <2>2. CASE p.pc \in {"waiting", "data"} /\ Die(c)
    BY <1>1, <1>3, <1>4, <2>2 DEF Die, p
  <2> QED
    BY <1>6, <2>1, <2>2 DEF Leave, p
<1>7. CASE DataLost(c)
  <2>1. p.pc = "data" /\ (Die(c) \/ client' = [client EXCEPT ![c].pc = "waiting"])
    BY <1>7 DEF DataLost, p
  <2>2. CASE Die(c)
    BY <1>1, <1>3, <1>4, <2>1, <2>2 DEF Die, p
  <2>3. CASE client' = [client EXCEPT ![c].pc = "waiting"]
    <3> DEFINE q == [p EXCEPT !.pc = "waiting"]
    <3>1. client' = [client EXCEPT ![c] = q]
      BY <2>3 DEF p
    <3>2. q.pc = "waiting" /\ q.got = p.got
      BY <1>1 DEF ClientState
    <3> HIDE DEF q
    <3>3. Turn(p, q, whole)
      BY <2>1, <3>2 DEF Turn, Stage, Awaited
    <3> QED
      BY <1>3, <3>1, <3>3
  <2> QED
    BY <2>1, <2>2, <2>3
<1>8. CASE EndOfStream(c)
  <2>1. p.pc = "waiting" /\ (Die(c) \/ client' = [client EXCEPT ![c].pc = "spins"])
    BY <1>8 DEF EndOfStream, p
  <2>2. CASE Die(c)
    BY <1>1, <1>3, <1>4, <2>1, <2>2 DEF Die, p
  <2>3. CASE client' = [client EXCEPT ![c].pc = "spins"]
    <3> DEFINE q == [p EXCEPT !.pc = "spins"]
    <3>1. client' = [client EXCEPT ![c] = q]
      BY <2>3 DEF p
    <3>2. q.pc = "spins" /\ q.got = p.got
      BY <1>1 DEF ClientState
    <3> HIDE DEF q
    <3>3. Turn(p, q, whole)
      BY <2>1, <3>2 DEF Turn, Stage, Awaited
    <3> QED
      BY <1>3, <3>1, <3>3
  <2> QED
    BY <2>1, <2>2, <2>3
<1>9. ASSUME NEW cmd \in Commands, Ask(c, cmd) PROVE Turn(client[c], client'[c], whole)
  <2> DEFINE pc == IF cmd \in {"exit", "shutdown"} THEN "gone" ELSE "waiting"
             q  == [client[c] EXCEPT !.inbox = <<cmd>>, !.sent = @ + 1, !.got = {}, !.told = 0, !.data = NoData,
                      !.pc = pc]
  <2>1. client' = [client EXCEPT ![c] = q]
    BY <1>9 DEF Ask
  <2>5. p.pc = "prompt"
    BY <1>9 DEF Ask, p
  <2>2. pc \in {"gone", "waiting"}
    OBVIOUS
  <2> HIDE DEF pc
  <2>3. q.pc = pc /\ q.got = {}
    BY <1>1 DEF ClientState, p
  <2> HIDE DEF q
  <2>4. Turn(p, q, whole)
    BY <2>2, <2>3, <2>5 DEF Turn, Stage, Awaited
  <2> QED
    BY <1>3, <2>1, <2>4
<1>10. CASE TakeFile(c)
  <2>1. PICK r \in MayRead(c) :
          /\ Word(r) = "file:"
          /\ LET t == [Heard(c, r) EXCEPT !.told = Line(r).file] IN
               \/ client' = [client EXCEPT ![c] = t]
               \/ client' = [client EXCEPT ![c] = [t EXCEPT !.pc = "data", !.data = NoData]]
    BY <1>10 DEF TakeFile
  <2> DEFINE u == Heard(c, r)
             f == Line(r).file
             t == [u EXCEPT !.told = f]
             v == [t EXCEPT !.pc = "data", !.data = NoData]
  <2>2. u \in ClientState /\ u.pc = "waiting" /\ u.got = p.got /\ p.pc = "waiting"
    BY <1>2
  <2>3. f \in 1 .. Files /\ Reaches(Full(p), f - 1, whole)
    <3>1. PICK i \in DOMAIN p.out : p.out[i].type = "file:" /\ p.out[i] = Line(r)
      BY <2>1, LineRead DEF p
    <3>2. Follows(p.out[i], Full(p), whole)
      BY DEF OrderInv, p
    <3> QED
      BY <3>1, <3>2 DEF Follows
  <2> HIDE DEF u, f
  <2>4. Full(p) = p.got
    BY <2>2 DEF Full
  <2>5. t.got = p.got /\ t.pc = "waiting" /\ v.got = p.got /\ v.pc = "data" /\ v.told = f
    BY <2>2 DEF ClientState
  <2>6. client' = [client EXCEPT ![c] = t] \/ client' = [client EXCEPT ![c] = v]
    BY <2>1 DEF u, f
  <2> HIDE DEF t, v
  <2>7. Turn(p, t, whole)
    BY <2>2, <2>5 DEF Turn, Stage, Awaited
  <2>8. Turn(p, v, whole)
    BY <2>2, <2>3, <2>4, <2>5 DEF Turn, Stage, Awaited
  <2> QED
    BY <1>3, <2>6, <2>7, <2>8
<1>11. CASE Hear(c)
  <2>1. PICK r \in MayRead(c) :
          client' = [client EXCEPT ![c] =
            [Heard(c, r) EXCEPT !.pc = IF Word(r) \in {"done", "error:"} THEN "prompt" ELSE "waiting"]]
    BY <1>11 DEF Hear
  <2> DEFINE u == Heard(c, r)
             x == IF Word(r) \in {"done", "error:"} THEN "prompt" ELSE "waiting"
             q == [u EXCEPT !.pc = x]
  <2>2. u \in ClientState /\ u.pc = "waiting" /\ u.got = p.got /\ p.pc = "waiting"
    BY <1>2
  <2>3. Full(p) = p.got
    BY <2>2 DEF Full
  <2>4. ASSUME whole, Word(r) = "done" PROVE p.got = 1 .. Files
    BY <2>4, DoneFits, NothingDeleted DEF CalmInv, DoneMeansAll, p
  <2>5. ASSUME Word(r) = "error:" PROVE p.got = {}
    <3>1. PICK i \in DOMAIN p.out : p.out[i].type = "error:"
      BY <2>5, LineRead DEF p
    <3>2. Follows(p.out[i], Full(p), whole)
      BY DEF OrderInv, p
    <3> QED
      BY <2>3, <3>1, <3>2 DEF Follows
  <2>6. x = "waiting" \/ (x = "prompt" /\ (whole => p.got = {} \/ p.got = 1 .. Files))
    BY <2>4, <2>5
  <2>7. client' = [client EXCEPT ![c] = q]
    BY <2>1
  <2> HIDE DEF u, x
  <2>8. q.pc = x /\ q.got = p.got
    BY <2>2 DEF ClientState
  <2> HIDE DEF q
  <2>9. Turn(p, q, whole)
    BY <2>2, <2>6, <2>8 DEF Turn, Stage, Awaited
  <2> QED
    BY <1>3, <2>7, <2>9
<1>12. CASE Fail(c)
  <2>1. PICK r \in MayRead(c) : client' = [client EXCEPT ![c] = Dead(Heard(c, r))]
    BY <1>12 DEF Fail
  <2> QED
    BY <1>2, <1>3, <1>4, <2>1
<1>13. CASE EndOfData(c)
  <2> DEFINE g == p.got \cup {p.data.file}
             q == [p EXCEPT !.pc = "waiting", !.got = g]
  <2>1. client' = [client EXCEPT ![c] = q] /\ p.pc = "data" /\ p.data # NoData
    BY <1>13 DEF EndOfData, p
  <2>2. p.data = [owner |-> c, file |-> p.told] /\ p.data \in FileData
    BY <1>1, <2>1 DEF Polite, ClientState
  <2>3. p.told \in 1 .. Files /\ g = p.got \cup {p.told}
    BY <2>2 DEF FileData
  <2>4. p.told # 0
    BY <2>3
  <2> HIDE DEF g
  <2>5. q.pc = "waiting" /\ q.got = g
    BY <1>1 DEF ClientState
  <2> HIDE DEF q
  <2>6. Turn(p, q, whole)
    BY <2>1, <2>3, <2>4, <2>5 DEF Turn, Stage, Awaited
  <2> QED
    BY <1>3, <2>1, <2>6
<1> QED
  BY <1>5, <1>6, <1>7, <1>8, <1>9, <1>10, <1>11, <1>12, <1>13 DEF Reading

\* A step of the model is a step of the service, or none.
LEMMA StepServes ==
  ASSUME NEW whole \in BOOLEAN, IInv, OrderInv(whole), whole => Calm /\ CalmInv, [Next]_vars
  PROVE  /\ [Ordered!ServiceNext]_(Ordered!svars)
         /\ whole => [Whole!ServiceNext]_(Whole!svars)
<1>1. ASSUME UNCHANGED <<Stages, Coming, Got>>
      PROVE  /\ [Ordered!ServiceNext]_(Ordered!svars)
             /\ [Whole!ServiceNext]_(Whole!svars)
  BY <1>1 DEF Ordered!svars, Whole!svars
<1>2. CASE client' = client
  BY <1>1, <1>2 DEF Stages, Coming, Got
<1>3. ASSUME NEW h \in DOMAIN threads, ThreadStep(h) PROVE UNCHANGED <<Stages, Coming, Got>>
  BY <1>3, ThreadGot DEF IInv
<1>4. ASSUME NEW c \in Client,
             \/ Connect(c) \/ Reading(c) \/ Leave(c)
             \/ (\E cmd \in Commands : Ask(c, cmd)) /\ UNCHANGED <<fds, backlog, Others>>
      PROVE  /\ [Ordered!ServiceNext]_(Ordered!svars)
             /\ whole => [Whole!ServiceNext]_(Whole!svars)
  BY <1>4, ClientTurns, ClientPaces, TurnServes DEF IInv
<1>5. MainStep => client' = client
  BY MainServes
<1> QED
  BY <1>1, <1>2, <1>3, <1>4, <1>5 DEF Next, Expire, vars

LEMMA ServiceInit == Init => Ordered!ServiceInit /\ Whole!ServiceInit
<1> SUFFICES ASSUME Init PROVE Ordered!ServiceInit /\ Whole!ServiceInit
  OBVIOUS
<1>1. \A c \in Client : client[c].pc = "away" /\ client[c].got = {}
  BY DEF Init, ClientInit
<1>2. Stages = [c \in Client |-> "away"] /\ Coming = [c \in Client |-> 0] /\ Got = [c \in Client |-> {}]
  BY <1>1 DEF Stages, Coming, Got
<1> QED
  BY <1>2 DEF Ordered!ServiceInit, Whole!ServiceInit

\* DeliversInOrder of the runs, for every number of clients, files, ports and descriptors:
\* the server implements the lossy service. Whatever fails and whoever dies, a client gets
\* a file only while it waits, behind all those it has, once (server.cpp 301-324,
\* Program.cs 203-262), also when its port was granted twice, bind failed for it, or a read
\* cut the messages anywhere; as long as main passes no thread the 0 of a time-out.
THEOREM OrderHolds == "idle" \notin Faults => (Spec => DeliversInOrder)
<1> SUFFICES ASSUME "idle" \notin Faults PROVE Spec => DeliversInOrder
  OBVIOUS
<1> DEFINE J == IInv /\ OrderInv(FALSE)
<1>1. Init => J
  BY IInvInit, OrderInit
<1>2. J /\ [Next]_vars => J'
  BY NextKeeps, OrderKept
<1>3. J /\ [Next]_vars => [Ordered!ServiceNext]_(Ordered!svars)
  BY StepServes
<1>4. Init => Ordered!ServiceInit
  BY ServiceInit
<1> HIDE DEF J
<1> QED
  BY <1>1, <1>2, <1>3, <1>4, PTL DEF Spec, DeliversInOrder, Ordered!ServiceSpec

\* DeliversWhole of the runs, for every number of clients, files and ports, every limit, and
\* three descriptors for each client served at once, when nobody dies, every file can be
\* read, no two transfers under way have one port, and the client that shuts the server
\* down is the last one: the server implements the service that passes no file over, and a
\* conversation ends with the whole directory, or, after an "error:", with nothing
\* (server.cpp 278-324), also when the lease of a port runs out under a transfer.
THEOREM WholeHolds == Calm => (UnsharedSpec /\ []Lasting => DeliversWhole)
<1> SUFFICES ASSUME Calm PROVE UnsharedSpec /\ []Lasting => DeliversWhole
  OBVIOUS
<1> DEFINE J == ServedInv /\ OrderInv(TRUE)
<1>1. Init => J
  BY ServedInit, OrderInit
<1>2. J /\ Lasting /\ [Next /\ Unshared']_vars => J'
  <2> SUFFICES ASSUME J, Lasting, [Next /\ Unshared']_vars PROVE J'
    OBVIOUS
  <2>1. ServedInv' /\ [Next]_vars
    BY ServedKept
  <2>2. "idle" \notin Faults
    BY DEF Calm, Mild
  <2> QED
    BY <2>1, <2>2, OrderKept DEF ServedInv, CalmInv
<1>3. J /\ [Next /\ Unshared']_vars => [Whole!ServiceNext]_(Whole!svars)
  <2> SUFFICES ASSUME J, [Next /\ Unshared']_vars PROVE [Whole!ServiceNext]_(Whole!svars)
    OBVIOUS
  <2>1. [Next]_vars
    OBVIOUS
  <2> QED
    BY <2>1, StepServes DEF ServedInv
<1>4. Init => Whole!ServiceInit
  BY ServiceInit
<1> HIDE DEF J
<1> QED
  BY <1>1, <1>2, <1>3, <1>4, PTL DEF UnsharedSpec, DeliversWhole, Whole!ServiceSpec
===============================================================================
