----------------------- MODULE OldTransferServer_proofs -----------------------
(***************************************************************************)
(* A file is announced once, and left out only over a port whose lease has *)
(* run out, for every set of clients, files and ports, whoever dies when.  *)
(***************************************************************************)
EXTENDS OldTransferServer, SequenceTheorems, TLAPS

Gets == {Get(f) : f \in File}
Active == pc \notin {"request", "accept", "ended"}

OutMessage ==
  [type : {"file:", "md5sum", "done", "fin"}, file : File \cup {"none"}, port : Port \cup {NoPort}]
ClientState ==
  [pc : {"away", "wait", "copy", "sum", "gone", "reset"}, command : Command \cup {NoCommand},
   unread : BOOLEAN, out : Seq(OutMessage), told : Nat, broken : BOOLEAN, eof : BOOLEAN]

Types ==
  /\ pc \in {"request", "accept", "recv", "handle", "offer", "send", "md5", "close", "done", "ended"}
  /\ info \in [comm : Client \cup {NoClient}, ftp_port : Port \cup {NoPort}, data : Client \cup {NoClient}]
  /\ echo_buff \in Command \cup {NoCommand} /\ msg_size \in {0, 1}
  /\ granted \subseteq Port /\ lapsed \subseteq Port
  /\ DOMAIN bound \subseteq granted \cup lapsed
  /\ bound \in [DOMAIN bound -> Seq(Client)]
  /\ backlog \in Seq(Client) /\ client \in [Client -> ClientState]

Transfer == {"offer", "send", "md5", "close"}

\* The command is the client's own.  Where it was told of a file, its port is listened on
\* from then on, and no other kind of command can come; and a port whose lease never ran
\* out is listened on by nobody else.
Serving ==
  Active =>
    LET told == client[info.comm].told IN
    /\ info.comm \in Client /\ info.ftp_port \in Port \cap (granted \cup lapsed)
    /\ echo_buff \in {NoCommand, client[info.comm].command}
    /\ client[info.comm].unread => echo_buff = NoCommand
    /\ Listens(info.ftp_port) => told # 0 \/ info.ftp_port \in lapsed
    /\ told # 0 => Listens(info.ftp_port) /\ echo_buff \in Gets
    /\ pc \in Transfer => told # 0
    /\ pc = "done" => echo_buff \in Gets /\ (Listens(info.ftp_port) \/ echo_buff.file \in Missing)

Waiting ==
  pc = "accept" =>
    /\ info.comm = NoClient /\ info.data = NoClient
    /\ info.ftp_port \in Port \cap (granted \cup lapsed)
    /\ Listens(info.ftp_port) => info.ftp_port \in lapsed

\* Who knows a port was told it; and of the client served, nobody else was, or waits there.
Announced ==
  /\ \A c \in Client : \A i \in DOMAIN client[c].out :
       client[c].out[i].type = "file:" => Listens(client[c].out[i].port)
  /\ Active =>
       (client[info.comm].told # 0 =>
          /\ \A c \in Client : \A i \in DOMAIN client[c].out :
               client[c].out[i].type = "file:" =>
                 (client[c].out[i].port = info.ftp_port => c = info.comm)
          /\ \A i \in DOMAIN bound[info.ftp_port] : bound[info.ftp_port][i] = info.comm)
  /\ info.data # NoClient => info.data = info.comm

\* Nobody is served twice, and nobody is told anything before.
Queued ==
  /\ \A i, j \in DOMAIN backlog : backlog[i] = backlog[j] => i = j
  /\ \A i \in DOMAIN backlog :
       /\ backlog[i] # info.comm
       /\ client[backlog[i]].told = 0 /\ client[backlog[i]].pc # "away"
  /\ \A c \in Client : client[c].pc = "away" =>
       c # info.comm /\ client[c].told = 0 /\ client[c].out = <<>>

IInv == Types /\ Serving /\ Waiting /\ Announced /\ Queued /\ AnnouncedOnce
-------------------------------------------------------------------------------
\* Commands to send a file are no others.
LEMMA GetsFacts ==
  /\ \A m \in Gets : m.cmd = "get"
  /\ NoCommand \notin Gets /\ Gets \subseteq Command
  /\ \A m \in Command \cup {NoCommand} : m.file \in File \cup {"none"}
<1>1. \A o : Plain(o).cmd = o /\ Plain(o).file = "none"
  BY DEF Plain
<1>2. \A f : Get(f).cmd = "get" /\ Get(f).file = f
  BY DEF Get
<1>3. NoCommand.cmd = "none" /\ NoCommand.file = "none"
  BY <1>1 DEF NoCommand
<1>4. \A m \in Gets : m.cmd = "get"
  BY <1>2 DEF Gets
<1> QED
  BY <1>1, <1>2, <1>3, <1>4 DEF Gets, Command

\* What a client does to itself: it reads what has come, and forgets nothing.
Reads(q, p) ==
  /\ q \in ClientState /\ q.pc # "away"
  /\ q.command = p.command /\ q.unread = p.unread /\ q.told = p.told
  /\ \A i \in DOMAIN q.out : \E j \in DOMAIN p.out : q.out[i] = p.out[j]

LEMMA ReadsInv ==
  ASSUME IInv, NEW c \in Client, client[c].pc # "away", NEW q, Reads(q, client[c]),
         client' = [client EXCEPT ![c] = q],
         UNCHANGED <<pc, info, echo_buff, msg_size, granted, lapsed, bound, backlog>>
  PROVE  IInv'
<1>1. /\ client \in [Client -> ClientState] /\ client' \in [Client -> ClientState]
      /\ \A d \in Client : client'[d] = IF d = c THEN q ELSE client[d]
  BY DEF IInv, Types, Reads
<1>2. \A d \in Client :
        /\ client'[d].command = client[d].command /\ client'[d].unread = client[d].unread
        /\ client'[d].told = client[d].told
        /\ client'[d].pc = "away" => client[d].pc = "away" /\ client'[d] = client[d]
        /\ client[d].pc = "away" => client'[d].pc = "away"
        /\ \A i \in DOMAIN client'[d].out :
             \E j \in DOMAIN client[d].out : client'[d].out[i] = client[d].out[j]
  BY <1>1 DEF Reads
<1>3. Types'
  BY <1>1 DEF IInv, Types
<1>4. Serving'
  BY <1>2 DEF IInv, Serving, Active, Listens
<1>5. Waiting'
  BY DEF IInv, Waiting, Listens
<1>6. Announced'
  BY <1>2 DEF IInv, Announced, Serving, Active, Listens
<1>7. Queued'
  <2>1. \A i \in DOMAIN backlog : backlog[i] \in Client
    BY LenProperties, ElementOfSeq DEF IInv, Types
  <2> QED
    BY <1>2, <2>1 DEF IInv, Queued
<1>8. AnnouncedOnce'
  BY <1>2 DEF IInv, AnnouncedOnce
<1> QED
  BY <1>3, <1>4, <1>5, <1>6, <1>7, <1>8 DEF IInv

\* What has been read off, and what a client leaves unread.
LEMMA ReadsFacts ==
  ASSUME Types, NEW c \in Client, NEW n \in 0 .. Len(client[c].out)
  PROVE  /\ After(c, n) \in ClientState
         /\ After(c, n).pc = client[c].pc
         /\ Reads([After(c, n) EXCEPT !.pc = "copy"], client[c])
         /\ Reads(Gone(After(c, n)), client[c])
<1> DEFINE p == client[c]
           rest == SubSeq(p.out, n + 1, Len(p.out))
           a == [p EXCEPT !.out = rest]
<1>1. p \in ClientState
  BY DEF Types
<1>2. p.out \in Seq(OutMessage) /\ Len(p.out) \in Nat /\ n \in Nat /\ DOMAIN p.out = 1 .. Len(p.out)
  BY <1>1, LenProperties DEF ClientState
<1>3. \A i \in n + 1 .. Len(p.out) : p.out[i] \in OutMessage
  BY <1>2, ElementOfSeq
<1>4. /\ rest \in Seq(OutMessage) /\ Len(rest) <= Len(p.out) - n
      /\ \A i \in 1 .. Len(rest) : rest[i] = p.out[n + i]
  <2>1. n + 1 \in Int /\ Len(p.out) \in Int /\ n <= Len(p.out)
    BY <1>2
  <2>2. /\ rest \in Seq(OutMessage)
        /\ Len(rest) = IF n + 1 <= Len(p.out) THEN Len(p.out) - (n + 1) + 1 ELSE 0
        /\ \A i \in 1 .. Len(p.out) - (n + 1) + 1 : rest[i] = p.out[(n + 1) + i - 1]
    BY <1>3, <2>1, SubSeqProperties
  <2>3. Len(rest) <= Len(p.out) - n
    BY <1>2, <2>1, <2>2
  <2>4. \A i \in 1 .. Len(rest) : i \in 1 .. Len(p.out) - (n + 1) + 1 /\ (n + 1) + i - 1 = n + i
    BY <1>2, <2>3
  <2> QED
    BY <2>2, <2>3, <2>4
<1> HIDE DEF rest
<1>5. \A i \in DOMAIN rest : \E j \in DOMAIN p.out : rest[i] = p.out[j]
  <2> SUFFICES ASSUME NEW i \in DOMAIN rest PROVE \E j \in DOMAIN p.out : rest[i] = p.out[j]
    OBVIOUS
  <2>1. i \in 1 .. Len(rest)
    BY <1>4, LenProperties
  <2>2. n + i \in DOMAIN p.out /\ rest[i] = p.out[n + i]
    BY <1>2, <1>4, <2>1
  <2> QED
    BY <2>2
<1>6. /\ a \in ClientState /\ a.pc = p.pc /\ a.command = p.command /\ a.unread = p.unread
      /\ a.told = p.told /\ a.out = rest
  BY <1>1, <1>4 DEF ClientState
<1>7. After(c, n) = a
  BY DEF After, rest
<1> HIDE DEF a, p
<1>8. Reads([a EXCEPT !.pc = "copy"], p)
  <2> DEFINE g == [a EXCEPT !.pc = "copy"]
  <2>1. /\ g \in ClientState /\ g.pc = "copy" /\ g.command = p.command /\ g.unread = p.unread
        /\ g.told = p.told /\ g.out = rest
    BY <1>6 DEF ClientState
  <2>2. [a EXCEPT !.pc = "copy"] = g
    OBVIOUS
  <2> HIDE DEF g
  <2>3. Reads(g, p)
    BY <1>5, <2>1 DEF Reads
  <2> QED
    BY <2>2, <2>3
<1>9. Reads(Gone(a), p)
  <2> DEFINE g == [a EXCEPT !.pc = IF a.out = <<>> THEN "gone" ELSE "reset", !.out = <<>>]
  <2>1. <<>> \in Seq(OutMessage) /\ DOMAIN <<>> = {}
    OBVIOUS
  <2>2. /\ g \in ClientState /\ g.pc # "away" /\ g.command = p.command /\ g.unread = p.unread
        /\ g.told = p.told /\ g.out = <<>>
    BY <1>6, <2>1 DEF ClientState
  <2>3. Gone(a) = g
    BY DEF Gone
  <2> HIDE DEF g
  <2> QED
    BY <2>1, <2>2, <2>3 DEF Reads
<1> QED
  BY <1>6, <1>7, <1>8, <1>9 DEF p

\* A client that connects for its file waits at the port it was told.
LEMMA TakeFileInv ==
  ASSUME IInv, NEW c \in Client, TakeFile(c)
  PROVE  IInv'
<1>1. /\ client[c].pc = "wait" /\ client[c].out # <<>> /\ client[c].out[1].type = "file:"
      /\ UNCHANGED <<backlog, info, echo_buff, msg_size, granted, lapsed, pc>>
  BY DEF TakeFile, Others
<1> DEFINE p == client[c].out[1].port
<1>2. PICK n \in 1 .. Len(client[c].out) :
        IF Listens(p) /\ pc # "ended"
          THEN /\ client' = [client EXCEPT ![c] = [After(c, n) EXCEPT !.pc = "copy"]]
               /\ bound' = [bound EXCEPT ![p] = Append(@, c)]
          ELSE client' = [client EXCEPT ![c] = Gone(After(c, n))] /\ UNCHANGED bound
  BY DEF TakeFile
<1>3. /\ Types /\ client[c] \in ClientState /\ client[c].out \in Seq(OutMessage)
      /\ Len(client[c].out) \in Nat /\ 1 \in DOMAIN client[c].out
  BY <1>1, LenProperties, EmptySeq DEF IInv, Types, ClientState
<1>4. /\ Reads([After(c, n) EXCEPT !.pc = "copy"], client[c])
      /\ Reads(Gone(After(c, n)), client[c])
  BY <1>2, <1>3, ReadsFacts
<1>5. CASE ~(Listens(p) /\ pc # "ended")
  BY <1>1, <1>2, <1>4, <1>5, ReadsInv
<1>6. CASE Listens(p) /\ pc # "ended"
  <2> DEFINE q == [After(c, n) EXCEPT !.pc = "copy"]
  <2>1. client' = [client EXCEPT ![c] = q] /\ bound' = [bound EXCEPT ![p] = Append(@, c)]
        /\ Reads(q, client[c])
    BY <1>2, <1>4, <1>6
  <2>2. Active /\ client[info.comm].told # 0 => (p = info.ftp_port => c = info.comm)
    BY <1>1, <1>3 DEF IInv, Announced
  <2> HIDE DEF q, p
  <2>3. /\ client \in [Client -> ClientState] /\ client' \in [Client -> ClientState]
        /\ \A d \in Client : client'[d] = IF d = c THEN q ELSE client[d]
    BY <2>1 DEF IInv, Types, Reads
  <2>4. \A d \in Client :
          /\ client'[d].command = client[d].command /\ client'[d].unread = client[d].unread
          /\ client'[d].told = client[d].told
          /\ client'[d].pc = "away" => client[d].pc = "away" /\ client'[d] = client[d]
          /\ client[d].pc = "away" => client'[d].pc = "away"
          /\ \A i \in DOMAIN client'[d].out :
               \E j \in DOMAIN client[d].out : client'[d].out[i] = client[d].out[j]
    BY <1>1, <2>1, <2>3 DEF Reads
  <2>5. /\ bound[p] \in Seq(Client) /\ Append(bound[p], c) \in Seq(Client)
        /\ \A i \in DOMAIN Append(bound[p], c) :
             Append(bound[p], c)[i] = c \/ (i \in DOMAIN bound[p] /\ Append(bound[p], c)[i] = bound[p][i])
    <3>1. bound[p] \in Seq(Client)
      BY <1>6 DEF IInv, Types, Listens
    <3>2. Append(bound[p], c) \in Seq(Client) /\ Len(Append(bound[p], c)) = Len(bound[p]) + 1
      BY <3>1, AppendProperties
    <3> QED
      BY <3>1, <3>2, AppendProperties, LenProperties
  <2>6. DOMAIN bound' = DOMAIN bound /\ bound' \in [DOMAIN bound -> Seq(Client)]
        /\ bound'[p] = Append(bound[p], c) /\ \A r \in DOMAIN bound \ {p} : bound'[r] = bound[r]
    BY <1>6, <2>1, <2>5 DEF IInv, Types, Listens
  <2>7. Types'
    BY <1>1, <2>3, <2>6 DEF IInv, Types
  <2>8. Serving'
    BY <1>1, <2>4, <2>6 DEF IInv, Serving, Active, Listens
  <2>9. Waiting'
    BY <1>1, <2>6 DEF IInv, Waiting, Listens
  <2>10. Announced'
    <3>1. ASSUME Active, client[info.comm].told # 0
          PROVE  \A i \in DOMAIN bound'[info.ftp_port] : bound'[info.ftp_port][i] = info.comm
      <4>0. info.ftp_port \in DOMAIN bound
        BY <3>1 DEF IInv, Serving, Listens
      <4>1. CASE p = info.ftp_port
        BY <2>2, <2>5, <2>6, <3>1, <4>1 DEF IInv, Announced
      <4>2. CASE p # info.ftp_port
        BY <2>6, <3>1, <4>0, <4>2 DEF IInv, Announced
      <4> QED
        BY <4>1, <4>2
    <3>2. Active => info.comm \in Client
      BY DEF IInv, Serving
    <3>3. Active' <=> Active
      BY <1>1 DEF Active
    <3>4. ASSUME NEW d \in Client, NEW i \in DOMAIN client'[d].out, client'[d].out[i].type = "file:"
          PROVE  /\ client'[d].out[i].port \in DOMAIN bound'
                 /\ Active /\ client[info.comm].told # 0 =>
                      (client'[d].out[i].port = info.ftp_port => d = info.comm)
      <4>1. PICK j \in DOMAIN client[d].out : client'[d].out[i] = client[d].out[j]
        BY <2>4
      <4> QED
        BY <2>6, <3>4, <4>1 DEF IInv, Announced, Listens
    <3>5. Active => client'[info.comm].told = client[info.comm].told
      BY <2>4, <3>2
    <3>6. info.data # NoClient => info.data = info.comm
      BY DEF IInv, Announced
    <3> QED
      BY <1>1, <3>1, <3>3, <3>4, <3>5, <3>6 DEF Announced, Listens
  <2>11. Queued'
    <3>1. \A i \in DOMAIN backlog : backlog[i] \in Client
      BY LenProperties, ElementOfSeq DEF IInv, Types
    <3> QED
      BY <1>1, <2>4, <3>1 DEF IInv, Queued
  <2>12. AnnouncedOnce'
    BY <2>4 DEF IInv, AnnouncedOnce
  <2> QED
    BY <2>7, <2>8, <2>9, <2>10, <2>11, <2>12 DEF IInv
<1> QED
  BY <1>5, <1>6

LEMMA ReadingInv ==
  ASSUME IInv, NEW c \in Client, Reading(c) \/ Crash(c)
  PROVE  IInv'
<1>1. Types /\ client[c] \in ClientState
  BY DEF IInv, Types
<1>2. client[c].out \in Seq(OutMessage) /\ Len(client[c].out) \in Nat
  BY <1>1, LenProperties DEF ClientState
<1>3. ASSUME NEW n \in 0 .. Len(client[c].out), client[c].pc # "away",
             client' = [client EXCEPT ![c] = Gone(After(c, n))], UNCHANGED <<backlog, bound, Others>>
      PROVE  IInv'
  BY <1>1, <1>3, ReadsFacts, ReadsInv DEF Others
<1>4. CASE TakeFile(c)
  BY <1>4, TakeFileInv
<1>5. CASE Abort(c)
  BY <1>3, <1>5 DEF Abort
<1>6. CASE EndOfFile(c)
  <2> DEFINE q == [client[c] EXCEPT !.pc = "sum"]
  <2>1. /\ client' = [client EXCEPT ![c] = q] /\ client[c].pc # "away"
        /\ UNCHANGED <<pc, info, echo_buff, msg_size, granted, lapsed, bound, backlog>>
    BY <1>6 DEF EndOfFile, Others
  <2>2. /\ q \in ClientState /\ q.pc = "sum" /\ q.command = client[c].command
        /\ q.unread = client[c].unread /\ q.told = client[c].told /\ q.out = client[c].out
    BY <1>1 DEF ClientState
  <2> HIDE DEF q
  <2>3. Reads(q, client[c])
    BY <2>2 DEF Reads
  <2> QED
    BY <2>1, <2>3, ReadsInv
<1>7. CASE TakeMd5(c)
  <2>1. PICK n \in 1 .. Len(client[c].out) : client' = [client EXCEPT ![c] = Gone(After(c, n))]
    BY <1>7 DEF TakeMd5
  <2>2. n \in 0 .. Len(client[c].out)
    BY <1>2, <2>1
  <2> QED
    BY <1>3, <1>7, <2>1, <2>2 DEF TakeMd5
<1>8. CASE Crash(c)
  <2> DEFINE q == [client[c] EXCEPT !.pc = IF client[c].out = <<>> THEN "gone" ELSE "reset", !.out = <<>>]
  <2>1. /\ client' = [client EXCEPT ![c] = q] /\ client[c].pc # "away"
        /\ UNCHANGED <<pc, info, echo_buff, msg_size, granted, lapsed, bound, backlog>>
    BY <1>8 DEF Crash, Die, Gone, Others
  <2>2. <<>> \in Seq(OutMessage) /\ DOMAIN <<>> = {}
    OBVIOUS
  <2>3. /\ q \in ClientState /\ q.pc # "away" /\ q.command = client[c].command
        /\ q.unread = client[c].unread /\ q.told = client[c].told /\ q.out = <<>>
    BY <1>1, <2>2 DEF ClientState
  <2> HIDE DEF q
  <2>4. Reads(q, client[c])
    BY <2>2, <2>3 DEF Reads
  <2> QED
    BY <2>1, <2>4, ReadsInv
<1> QED
  BY <1>4, <1>5, <1>6, <1>7, <1>8 DEF Reading

\* A client that connects has been told nothing, and stands in the queue once.
LEMMA ConnectInv ==
  ASSUME IInv, NEW c \in Client, NEW m \in Command, Connect(c, m)
  PROVE  IInv'
<1>1. /\ client[c].pc = "away" /\ backlog' = Append(backlog, c)
      /\ UNCHANGED <<bound, pc, info, echo_buff, msg_size, granted, lapsed>>
  BY DEF Connect, Others
<1>2. c # info.comm /\ client[c].told = 0 /\ client[c].out = <<>> /\ client[c] \in ClientState
  BY <1>1 DEF IInv, Types, Queued
<1>3. PICK q \in ClientState :
        client' = [client EXCEPT ![c] = q] /\ q.pc # "away" /\ q.told = 0 /\ q.out = <<>>
  <2> DEFINE q1 == [client[c] EXCEPT !.pc = "wait", !.command = m, !.unread = TRUE]
             q2 == [client[c] EXCEPT !.pc = "gone"]
  <2>1. q1 \in ClientState /\ q1.pc = "wait" /\ q1.told = 0 /\ q1.out = <<>>
    BY <1>2 DEF ClientState
  <2>2. q2 \in ClientState /\ q2.pc = "gone" /\ q2.told = 0 /\ q2.out = <<>>
    BY <1>2 DEF ClientState
  <2>3. client' = [client EXCEPT ![c] = q1] \/ client' = [client EXCEPT ![c] = q2]
    BY DEF Connect
  <2> HIDE DEF q1, q2
  <2> QED
    BY <2>1, <2>2, <2>3
<1>4. /\ client \in [Client -> ClientState] /\ client' \in [Client -> ClientState]
      /\ client'[c] = q /\ \A d \in Client \ {c} : client'[d] = client[d]
  BY <1>3 DEF IInv, Types
<1>5. /\ backlog \in Seq(Client) /\ backlog' \in Seq(Client) /\ Len(backlog) \in Nat
      /\ DOMAIN backlog = 1 .. Len(backlog) /\ DOMAIN backlog' = 1 .. Len(backlog) + 1
      /\ \A i \in DOMAIN backlog : backlog'[i] = backlog[i] /\ backlog[i] \in Client
      /\ backlog'[Len(backlog) + 1] = c
  <2>1. backlog \in Seq(Client) /\ Len(backlog) \in Nat /\ DOMAIN backlog = 1 .. Len(backlog)
    BY LenProperties DEF IInv, Types
  <2> QED
    BY <1>1, <2>1, AppendProperties, LenProperties, ElementOfSeq
<1>6. Types'
  BY <1>1, <1>4, <1>5 DEF IInv, Types
<1>7. Serving'
  BY <1>1, <1>2, <1>4 DEF IInv, Serving, Active, Listens
<1>8. Waiting'
  BY <1>1 DEF IInv, Waiting, Listens
<1>9. Announced'
  <2>1. DOMAIN q.out = {}
    BY <1>3
  <2> QED
    BY <1>1, <1>2, <1>4, <2>1 DEF IInv, Announced, Serving, Active, Listens
<1>10. Queued'
  <2>1. \A i \in DOMAIN backlog : backlog[i] # c
    BY <1>1 DEF IInv, Queued
  <2>2. \A i, j \in DOMAIN backlog' : backlog'[i] = backlog'[j] => i = j
    BY <1>5, <2>1 DEF IInv, Queued
  <2>3. \A i \in DOMAIN backlog' :
       /\ backlog'[i] # info.comm
       /\ client'[backlog'[i]].told = 0 /\ client'[backlog'[i]].pc # "away"
    BY <1>2, <1>3, <1>4, <1>5, <2>1 DEF IInv, Queued
  <2>4. \A d \in Client : client'[d].pc = "away" =>
       d # info.comm /\ client'[d].told = 0 /\ client'[d].out = <<>>
    BY <1>3, <1>4 DEF IInv, Queued
  <2> QED
    BY <1>1, <2>2, <2>3, <2>4 DEF Queued
<1>11. AnnouncedOnce'
  BY <1>3, <1>4 DEF IInv, AnnouncedOnce
<1> QED
  BY <1>6, <1>7, <1>8, <1>9, <1>10, <1>11 DEF IInv

-------------------------------------------------------------------------------
\* A step of the server that tells nobody of a file, in the middle of a connection.
Stages == {"recv", "handle", "offer", "send", "md5", "close", "done", "request", "ended"}

Says(q, p) ==
  /\ q \in ClientState
  /\ q.pc = p.pc /\ q.command = p.command /\ q.unread = p.unread /\ q.told = p.told
  /\ \A i \in DOMAIN q.out :
       q.out[i].type # "file:" \/ \E j \in DOMAIN p.out : q.out[i] = p.out[j]

\* A place it may move to: it tells of no file on the way.
Follows(next) ==
  /\ next \in Stages
  /\ next \in Transfer => pc \in Transfer
  /\ next = "done" => echo_buff \in Gets /\ (Listens(info.ftp_port) \/ echo_buff.file \in Missing)

LEMMA SaysInv ==
  ASSUME IInv, Active, Follows(pc'),
         client' \in [Client -> ClientState],
         \A d \in Client : Says(client'[d], client[d]),
         \A d \in Client : client[d].pc = "away" => client'[d].out = client[d].out,
         UNCHANGED <<info, echo_buff, msg_size, granted, lapsed, bound, backlog>>
  PROVE  IInv'
<1>1. \A d \in Client :
        /\ client'[d].pc = client[d].pc /\ client'[d].command = client[d].command
        /\ client'[d].unread = client[d].unread /\ client'[d].told = client[d].told
        /\ \A i \in DOMAIN client'[d].out :
             \/ client'[d].out[i].type # "file:"
             \/ \E j \in DOMAIN client[d].out : client'[d].out[i] = client[d].out[j]
  BY DEF Says
<1>2. Types'
  BY DEF IInv, Types, Follows, Stages
<1>3. Serving'
  <2>1. info.comm \in Client /\ client'[info.comm].told = client[info.comm].told
    BY <1>1 DEF IInv, Serving
  <2> QED
    BY <1>1, <2>1 DEF IInv, Serving, Follows, Listens
<1>4. Waiting'
  BY DEF Waiting, Follows, Stages
<1>5. Announced'
  <2>1. info.comm \in Client /\ client'[info.comm].told = client[info.comm].told
    BY <1>1 DEF IInv, Serving
  <2> QED
    BY <1>1, <2>1 DEF IInv, Announced, Listens
<1>6. Queued'
  <2>1. \A i \in DOMAIN backlog : backlog[i] \in Client
    BY LenProperties, ElementOfSeq DEF IInv, Types
  <2> QED
    BY <1>1, <2>1 DEF IInv, Queued
<1>7. AnnouncedOnce'
  BY <1>1 DEF IInv, AnnouncedOnce
<1> QED
  BY <1>2, <1>3, <1>4, <1>5, <1>6, <1>7 DEF IInv

\* The server moves, and nobody hears of it.
LEMMA SilentInv ==
  ASSUME IInv, Active, Follows(pc'),
         UNCHANGED <<info, echo_buff, msg_size, granted, lapsed, bound, backlog, client>>
  PROVE  IInv'
<1>1. client' \in [Client -> ClientState] /\ \A d \in Client : client[d] \in ClientState
  BY DEF IInv, Types
<1>2. \A d \in Client : Says(client'[d], client[d])
  BY <1>1 DEF Says
<1> QED
  BY <1>1, <1>2, SaysInv

\* What send does to the client that is served, alive or not.
LEMMA SendFacts ==
  ASSUME Types, info.comm \in Client, NEW m \in OutMessage, NEW next, Send(m, next)
  PROVE  /\ pc' \in {next, "ended"}
         /\ \E q \in ClientState :
              /\ client' = [client EXCEPT ![info.comm] = q]
              /\ q.pc = client[info.comm].pc /\ q.command = client[info.comm].command
              /\ q.unread = client[info.comm].unread
              /\ q.told = client[info.comm].told + (IF m.type = "file:" THEN 1 ELSE 0)
              /\ \A i \in DOMAIN q.out :
                   q.out[i] = m \/ \E j \in DOMAIN client[info.comm].out : q.out[i] = client[info.comm].out[j]
<1>1. PICK p \in ClientState : p = client[info.comm]
  BY DEF Types
<1>2. PICK k \in Nat : k = p.told + (IF m.type = "file:" THEN 1 ELSE 0)
  BY <1>1 DEF ClientState
<1> DEFINE t  == [p EXCEPT !.told = @ + (IF m.type = "file:" THEN 1 ELSE 0)]
           q1 == [t EXCEPT !.out = Append(@, m)]
           q2 == [t EXCEPT !.broken = TRUE]
<1>3. /\ pc' \in {next, "ended"}
      /\ client' = [client EXCEPT ![info.comm] = q1] \/ client' = [client EXCEPT ![info.comm] = q2]
  BY <1>1 DEF Send
<1>4. p.out \in Seq(OutMessage) /\ Append(p.out, m) \in Seq(OutMessage)
  BY AppendProperties DEF ClientState
<1>5. \A i \in DOMAIN Append(p.out, m) :
        Append(p.out, m)[i] = m \/ \E j \in DOMAIN p.out : Append(p.out, m)[i] = p.out[j]
  <2>1. Len(p.out) \in Nat /\ DOMAIN p.out = 1 .. Len(p.out)
    BY <1>4, LenProperties
  <2>2. DOMAIN Append(p.out, m) = 1 .. Len(p.out) + 1
    BY <1>4, <2>1, AppendProperties, LenProperties
  <2> QED
    BY <1>4, <2>1, <2>2, AppendProperties
<1>6. /\ t \in ClientState /\ t.pc = p.pc /\ t.command = p.command /\ t.unread = p.unread
      /\ t.told = k /\ t.out = p.out
  BY <1>2 DEF ClientState
<1> HIDE DEF t
<1>7. /\ q1 \in ClientState /\ q1.pc = p.pc /\ q1.command = p.command /\ q1.unread = p.unread
      /\ q1.told = k /\ q1.out = Append(p.out, m)
  BY <1>4, <1>6 DEF ClientState
<1>8. /\ q2 \in ClientState /\ q2.pc = p.pc /\ q2.command = p.command /\ q2.unread = p.unread
      /\ q2.told = k /\ q2.out = p.out
  BY <1>6 DEF ClientState
<1> HIDE DEF q1, q2
<1>9. PICK q \in {q1, q2} : client' = [client EXCEPT ![info.comm] = q]
  BY <1>3
<1>10. /\ q \in ClientState /\ q.pc = p.pc /\ q.command = p.command /\ q.unread = p.unread
       /\ q.told = k
       /\ \A i \in DOMAIN q.out : q.out[i] = m \/ \E j \in DOMAIN p.out : q.out[i] = p.out[j]
  <2>1. CASE q = q1
    BY <1>5, <1>7, <2>1
  <2>2. CASE q = q2
    BY <1>8, <2>2
  <2> QED
    BY <1>9, <2>1, <2>2
<1>11. /\ q.pc = client[info.comm].pc /\ q.command = client[info.comm].command
       /\ q.unread = client[info.comm].unread
       /\ \A i \in DOMAIN q.out :
            q.out[i] = m \/ \E j \in DOMAIN client[info.comm].out : q.out[i] = client[info.comm].out[j]
  BY <1>1, <1>10
<1>12. q.told = client[info.comm].told + (IF m.type = "file:" THEN 1 ELSE 0)
  BY <1>1, <1>2, <1>10
<1> QED
  BY <1>3, <1>9, <1>10, <1>11, <1>12

\* md5sum and done go out.
LEMMA SayInv ==
  ASSUME IInv, Active, NEW m \in OutMessage, m.type # "file:", NEW next, Follows(next),
         Send(m, next), UNCHANGED <<info, echo_buff, msg_size, granted, lapsed, bound, backlog>>
  PROVE  IInv'
<1>1. Types /\ info.comm \in Client /\ client[info.comm].pc # "away"
  BY DEF IInv, Serving, Queued
<1>2. pc' \in {next, "ended"}
  BY <1>1, SendFacts
<1>3. PICK q \in ClientState :
        /\ client' = [client EXCEPT ![info.comm] = q]
        /\ q.pc = client[info.comm].pc /\ q.command = client[info.comm].command
        /\ q.unread = client[info.comm].unread
        /\ q.told = client[info.comm].told + (IF m.type = "file:" THEN 1 ELSE 0)
        /\ \A i \in DOMAIN q.out :
             q.out[i] = m \/ \E j \in DOMAIN client[info.comm].out : q.out[i] = client[info.comm].out[j]
  BY <1>1, SendFacts
<1>4. q.told = client[info.comm].told
  BY <1>1, <1>3 DEF Types, ClientState
<1>5. /\ client \in [Client -> ClientState] /\ client' \in [Client -> ClientState]
      /\ \A d \in Client : client'[d] = IF d = info.comm THEN q ELSE client[d]
  BY <1>1, <1>3 DEF Types
<1>6. \A d \in Client : Says(client'[d], client[d])
  BY <1>3, <1>4, <1>5 DEF Says
<1>7. \A d \in Client : client[d].pc = "away" => client'[d].out = client[d].out
  BY <1>1, <1>5
<1>8. Follows(pc')
  BY <1>2 DEF Follows, Stages, Transfer
<1> QED
  BY <1>5, <1>6, <1>7, <1>8, SaysInv

\* A new port is one nobody has been told of.
LEMMA RequestPortInv ==
  ASSUME IInv, RequestPort
  PROVE  IInv'
<1>1. UNCHANGED <<echo_buff, msg_size, lapsed, bound, backlog, client>> /\ pc = "request"
  BY DEF RequestPort
<1>2. CASE pc' = "ended" /\ UNCHANGED <<granted, info>>
  BY <1>1, <1>2 DEF IInv, Types, Serving, Active, Waiting, Announced, Queued, AnnouncedOnce, Listens
<1>3. ASSUME NEW p \in Port \ granted, granted' = granted \cup {p}, pc' = "accept",
             info' = [comm |-> NoClient, ftp_port |-> p, data |-> NoClient]
      PROVE  IInv'
  <2>1. info'.comm = NoClient /\ info'.ftp_port = p /\ info'.data = NoClient /\ p \in granted'
    BY <1>3
  <2>2. p \in DOMAIN bound => p \in lapsed
    BY <1>3 DEF IInv, Types
  <2>3. Types'
    BY <1>1, <1>3 DEF IInv, Types
  <2>4. Serving'
    BY <1>3 DEF Serving, Active
  <2>5. Waiting'
    BY <1>1, <2>1, <2>2 DEF Waiting, Listens
  <2>6. Announced'
    BY <1>1, <1>3, <2>1 DEF IInv, Announced, Active, Listens
  <2>7. Queued'
    <3>1. \A i \in DOMAIN backlog : backlog[i] \in Client
      BY LenProperties, ElementOfSeq DEF IInv, Types
    <3> QED
      BY <1>1, <2>1, <3>1, OldTransferAssumption DEF IInv, Queued
  <2>8. AnnouncedOnce'
    BY <1>1 DEF IInv, AnnouncedOnce
  <2> QED
    BY <2>3, <2>4, <2>5, <2>6, <2>7, <2>8 DEF IInv
<1> QED
  BY <1>2, <1>3 DEF RequestPort

\* The client accepted has been told nothing.
LEMMA AcceptInv ==
  ASSUME IInv, Accept
  PROVE  IInv'
<1> DEFINE c == Head(backlog)
<1>1. /\ pc = "accept" /\ backlog # <<>> /\ backlog' = Tail(backlog) /\ pc' = "recv"
      /\ info' = [info EXCEPT !.comm = c] /\ echo_buff' = NoCommand
      /\ UNCHANGED <<msg_size, granted, lapsed, bound, client>>
  BY DEF Accept
<1>2. /\ info.comm = NoClient /\ info.data = NoClient
      /\ info.ftp_port \in Port \cap (granted \cup lapsed)
      /\ Listens(info.ftp_port) => info.ftp_port \in lapsed
  BY <1>1 DEF IInv, Waiting
<1>3. /\ backlog \in Seq(Client) /\ c \in Client /\ c = backlog[1] /\ 1 \in DOMAIN backlog
      /\ backlog' \in Seq(Client)
      /\ \A i \in DOMAIN backlog' :
           i \in Nat /\ i > 0 /\ i + 1 \in DOMAIN backlog /\ backlog'[i] = backlog[i + 1]
  <2>1. backlog \in Seq(Client) /\ Len(backlog) \in Nat /\ DOMAIN backlog = 1 .. Len(backlog)
    BY LenProperties DEF IInv, Types
  <2>2. /\ c \in Client /\ Tail(backlog) \in Seq(Client) /\ Len(Tail(backlog)) = Len(backlog) - 1
        /\ \A i \in 1 .. Len(Tail(backlog)) : Tail(backlog)[i] = backlog[i + 1]
    BY <1>1, <2>1, HeadTailProperties
  <2>3. DOMAIN Tail(backlog) = 1 .. Len(Tail(backlog)) /\ Len(backlog) > 0
    BY <1>1, <2>1, <2>2, LenProperties, EmptySeq
  <2>4. Head(backlog) = backlog[1]
    BY <2>1
  <2> QED
    BY <1>1, <2>1, <2>2, <2>3, <2>4
<1> HIDE DEF c
<1>4. info'.comm = c /\ info'.ftp_port = info.ftp_port /\ info'.data = NoClient
      /\ info' \in [comm : Client \cup {NoClient}, ftp_port : Port \cup {NoPort}, data : Client \cup {NoClient}]
  BY <1>1, <1>2, <1>3 DEF IInv, Types
<1>5. client[c].told = 0 /\ client[c].pc # "away"
  BY <1>3 DEF IInv, Queued
<1>6. Types'
  BY <1>1, <1>3, <1>4 DEF IInv, Types
<1>7. Serving'
  BY <1>1, <1>2, <1>3, <1>4, <1>5 DEF Serving, Transfer, Listens
<1>8. Waiting'
  BY <1>1 DEF Waiting
<1>9. Announced'
  BY <1>1, <1>2, <1>4, <1>5 DEF IInv, Announced, Listens
<1>10. Queued'
  <2>1. \A i \in DOMAIN backlog' : backlog'[i] # c
    <3>1. \A i \in DOMAIN backlog' : i + 1 # 1
      BY <1>3
    <3> QED
      BY <1>3, <3>1 DEF IInv, Queued
  <2>2. \A i, j \in DOMAIN backlog' : backlog'[i] = backlog'[j] => i = j
    <3>1. \A i, j \in DOMAIN backlog' : i + 1 = j + 1 => i = j
      BY <1>3
    <3> QED
      BY <1>3, <3>1 DEF IInv, Queued
  <2>3. \A i \in DOMAIN backlog' : client[backlog'[i]].told = 0 /\ client[backlog'[i]].pc # "away"
    BY <1>3 DEF IInv, Queued
  <2>4. \A d \in Client : client[d].pc = "away" => d # c /\ client[d].told = 0 /\ client[d].out = <<>>
    BY <1>5 DEF IInv, Queued
  <2> QED
    BY <1>1, <1>4, <2>1, <2>2, <2>3, <2>4 DEF Queued
<1>11. AnnouncedOnce'
  BY <1>1 DEF IInv, AnnouncedOnce
<1> QED
  BY <1>6, <1>7, <1>8, <1>9, <1>10, <1>11 DEF IInv

\* The one command of a client is read while nothing listens on its port.
LEMMA ReceiveInv ==
  ASSUME IInv, Receive
  PROVE  IInv'
<1>1. PICK c \in Client : c = info.comm
  BY DEF IInv, Serving, Active, Receive
<1>2. PICK p \in ClientState : p = client[c]
  BY DEF IInv, Types
<1> DEFINE q == [p EXCEPT !.unread = FALSE]
<1>3. /\ client' = [client EXCEPT ![c] = q] /\ pc = "recv" /\ pc' = "handle"
      /\ echo_buff' = (IF p.unread THEN p.command ELSE echo_buff)
      /\ msg_size' = (IF p.unread THEN 1 ELSE 0)
      /\ UNCHANGED <<info, granted, lapsed, bound, backlog>>
  BY <1>1, <1>2 DEF Receive, Peer
<1>4. /\ q \in ClientState /\ q.pc = p.pc /\ q.command = p.command /\ q.unread = FALSE
      /\ q.told = p.told /\ q.out = p.out
  BY DEF ClientState
<1> HIDE DEF q
<1>5. /\ client \in [Client -> ClientState] /\ client' \in [Client -> ClientState]
      /\ \A d \in Client : client'[d] = IF d = c THEN q ELSE client[d]
  BY <1>3, <1>4 DEF IInv, Types
<1>6. \A d \in Client :
        /\ client'[d].pc = client[d].pc /\ client'[d].command = client[d].command
        /\ client'[d].told = client[d].told /\ client'[d].out = client[d].out
  BY <1>2, <1>4, <1>5
<1>7. Types'
  <2>1. p.command \in Command \cup {NoCommand}
    BY DEF ClientState
  <2> QED
    BY <1>3, <1>5, <2>1 DEF IInv, Types
<1>8. Serving'
  <2>1. /\ info.comm \in Client /\ info.ftp_port \in Port \cap (granted \cup lapsed)
        /\ echo_buff \in {NoCommand, p.command}
        /\ p.unread => echo_buff = NoCommand
        /\ Listens(info.ftp_port) => p.told # 0 \/ info.ftp_port \in lapsed
        /\ p.told # 0 => Listens(info.ftp_port) /\ echo_buff \in Gets
    BY <1>1, <1>2, <1>3 DEF IInv, Serving, Active
  <2>2. echo_buff' \in {NoCommand, p.command} /\ (p.told # 0 => echo_buff' \in Gets)
    <3>1. CASE p.unread
      <4>1. echo_buff' = p.command
        BY <1>3, <3>1
      <4>2. NoCommand \notin Gets
        BY GetsFacts
      <4>3. p.told = 0
        BY <2>1, <3>1, <4>2
      <4> QED
        BY <4>1, <4>3
    <3>2. CASE ~p.unread
      <4>1. echo_buff' = echo_buff
        BY <1>3, <3>2
      <4> QED
        BY <2>1, <4>1
    <3> QED
      BY <3>1, <3>2
  <2> QED
    BY <1>1, <1>3, <1>4, <1>5, <2>1, <2>2 DEF Serving, Transfer, Listens
<1>9. Waiting'
  BY <1>3 DEF Waiting
<1>10. Announced'
  BY <1>1, <1>3, <1>6 DEF IInv, Announced, Active, Listens
<1>11. Queued'
  <2>1. \A i \in DOMAIN backlog : backlog[i] \in Client
    BY LenProperties, ElementOfSeq DEF IInv, Types
  <2> QED
    BY <1>3, <1>6, <2>1 DEF IInv, Queued
<1>12. AnnouncedOnce'
  BY <1>6 DEF IInv, AnnouncedOnce
<1> QED
  BY <1>7, <1>8, <1>9, <1>10, <1>11, <1>12 DEF IInv

\* A client that sent "exit" was told of no file: what listens on the port that it gives
\* back was there before, over a lease that ran out.
LEMMA ExitInv ==
  ASSUME IInv, Exit
  PROVE  IInv'
<1>1. /\ pc = "handle" /\ echo_buff.cmd = "exit" /\ pc' = "request"
      /\ UNCHANGED <<info, echo_buff, msg_size, lapsed, bound, backlog>>
  BY DEF Exit
<1>2. /\ info.comm \in Client /\ (Listens(info.ftp_port) => info.ftp_port \in lapsed)
  BY <1>1, GetsFacts DEF IInv, Serving, Active
<1>3. client[info.comm].pc # "away"
  BY <1>2 DEF IInv, Queued
<1>4. PICK p \in ClientState : p = client[info.comm]
  BY <1>2 DEF IInv, Types
<1> DEFINE q == [p EXCEPT !.out = Append(@, Fin)]
<1>5. Fin \in OutMessage /\ Fin.type = "fin"
  BY DEF Fin, Message, OutMessage
<1>6. p.out \in Seq(OutMessage) /\ Append(p.out, Fin) \in Seq(OutMessage)
  BY <1>5, AppendProperties DEF ClientState
<1>7. \A i \in DOMAIN Append(p.out, Fin) :
        \/ Append(p.out, Fin)[i].type # "file:"
        \/ \E j \in DOMAIN p.out : Append(p.out, Fin)[i] = p.out[j]
  <2>1. Len(p.out) \in Nat /\ DOMAIN p.out = 1 .. Len(p.out)
    BY <1>6, LenProperties
  <2>2. DOMAIN Append(p.out, Fin) = 1 .. Len(p.out) + 1
    BY <1>6, <2>1, AppendProperties, LenProperties
  <2>3. \A i \in DOMAIN Append(p.out, Fin) :
          Append(p.out, Fin)[i] = Fin \/ \E j \in DOMAIN p.out : Append(p.out, Fin)[i] = p.out[j]
    BY <1>6, <2>1, <2>2, AppendProperties
  <2> QED
    BY <1>5, <2>3
<1>8. Says(q, p)
  <2>1. /\ q \in ClientState /\ q.pc = p.pc /\ q.command = p.command /\ q.unread = p.unread
        /\ q.told = p.told /\ q.out = Append(p.out, Fin)
    BY <1>6 DEF ClientState
  <2> HIDE DEF q
  <2> QED
    BY <1>7, <2>1 DEF Says
<1>9. /\ client' = client \/ client' = [client EXCEPT ![info.comm] = q]
      /\ granted' = granted \/ granted' = granted \ {info.ftp_port}
  BY <1>4 DEF Exit
<1>10. \A d \in Client : Says(client[d], client[d])
  BY DEF Says, IInv, Types
<1> HIDE DEF q
<1>11. /\ client' \in [Client -> ClientState]
       /\ \A d \in Client : Says(client'[d], client[d])
       /\ \A d \in Client : client[d].pc = "away" => client'[d].out = client[d].out
  <2>1. client \in [Client -> ClientState] /\ q \in ClientState
    BY <1>8 DEF IInv, Types, Says
  <2>2. CASE client' = client
    BY <1>10, <2>1, <2>2
  <2>3. CASE client' = [client EXCEPT ![info.comm] = q]
    BY <1>2, <1>3, <1>4, <1>8, <1>10, <2>1, <2>3
  <2> QED
    BY <1>9, <2>2, <2>3
<1>12. \A d \in Client :
        /\ client'[d].pc = client[d].pc /\ client'[d].command = client[d].command
        /\ client'[d].told = client[d].told
        /\ \A i \in DOMAIN client'[d].out :
             \/ client'[d].out[i].type # "file:"
             \/ \E j \in DOMAIN client[d].out : client'[d].out[i] = client[d].out[j]
  BY <1>11 DEF Says
<1>13. Types'
  <2>1. granted' \subseteq Port /\ DOMAIN bound \subseteq granted' \cup lapsed
    BY <1>2, <1>9 DEF IInv, Types, Listens
  <2> QED
    BY <1>1, <1>11, <2>1 DEF IInv, Types
<1>14. Serving'
  BY <1>1 DEF Serving, Active
<1>15. Waiting'
  BY <1>1 DEF Waiting
<1>16. Announced'
  BY <1>1, <1>12 DEF IInv, Announced, Active, Listens
<1>17. Queued'
  <2>1. \A i \in DOMAIN backlog : backlog[i] \in Client
    BY LenProperties, ElementOfSeq DEF IInv, Types
  <2> QED
    BY <1>1, <1>11, <1>12, <2>1 DEF IInv, Queued
<1>18. AnnouncedOnce'
  BY <1>12 DEF IInv, AnnouncedOnce
<1> QED
  BY <1>13, <1>14, <1>15, <1>16, <1>17, <1>18 DEF IInv

\* A file is announced when nothing listens on the port: its client was told nothing,
\* and the port is listened on from then on.
LEMMA AnnounceInv ==
  ASSUME IInv, Announce
  PROVE  IInv'
<1> DEFINE m == Message("file:", Wanted, info.ftp_port)
<1>1. /\ pc = "handle" /\ echo_buff \in Gets /\ ~Listens(info.ftp_port)
      /\ bound' = [p \in DOMAIN bound \cup {info.ftp_port} |-> IF Listens(p) THEN bound[p] ELSE <<>>]
      /\ Send(m, "offer") /\ UNCHANGED <<info, echo_buff, msg_size, granted, lapsed, backlog>>
  BY DEF Announce, Handles, Gets
<1>2. PICK c \in Client : c = info.comm
  BY <1>1 DEF IInv, Serving, Active
<1>3. /\ info.ftp_port \in Port \cap (granted \cup lapsed) /\ echo_buff = client[c].command
      /\ ~client[c].unread /\ client[c].told = 0 /\ client[c].command \in Gets
  BY <1>1, <1>2, GetsFacts DEF IInv, Serving, Active
<1>4. m \in OutMessage /\ m.type = "file:" /\ m.port = info.ftp_port
  <2>1. Wanted \in File \cup {"none"}
    BY GetsFacts DEF Wanted, IInv, Types
  <2>2. info.ftp_port \in Port
    BY <1>3 DEF IInv, Types
  <2> QED
    BY <2>1, <2>2 DEF Message, OutMessage
<1> HIDE DEF m
<1>5. pc' \in {"offer", "ended"}
  BY <1>1, <1>2, <1>4, SendFacts DEF IInv
<1>6. PICK q \in ClientState :
        /\ client' = [client EXCEPT ![info.comm] = q]
        /\ q.pc = client[info.comm].pc /\ q.command = client[info.comm].command
        /\ q.unread = client[info.comm].unread
        /\ q.told = client[info.comm].told + (IF m.type = "file:" THEN 1 ELSE 0)
        /\ \A i \in DOMAIN q.out :
             q.out[i] = m \/ \E j \in DOMAIN client[info.comm].out : q.out[i] = client[info.comm].out[j]
  BY <1>1, <1>2, <1>4, SendFacts DEF IInv
<1>7. q.told = 1
  BY <1>2, <1>3, <1>4, <1>6
<1>8. /\ client \in [Client -> ClientState] /\ client' \in [Client -> ClientState]
      /\ \A d \in Client : client'[d] = IF d = c THEN q ELSE client[d]
  BY <1>2, <1>6 DEF IInv, Types
<1>9. /\ DOMAIN bound' = DOMAIN bound \cup {info.ftp_port}
      /\ bound'[info.ftp_port] = <<>> /\ \A r \in DOMAIN bound : bound'[r] = bound[r]
      /\ bound' \in [DOMAIN bound' -> Seq(Client)]
  <2>1. \A r \in DOMAIN bound : bound[r] \in Seq(Client)
    BY DEF IInv, Types
  <2>2. <<>> \in Seq(Client)
    OBVIOUS
  <2> QED
    BY <1>1, <2>1, <2>2 DEF Listens
<1>10. \A d \in Client : client'[d].pc = client[d].pc
  BY <1>2, <1>6, <1>8
<1>11. Types'
  BY <1>1, <1>3, <1>5, <1>8, <1>9 DEF IInv, Types
<1>12. Serving'
  <2>1. client'[c].told = 1 /\ client'[c].command = client[c].command /\ ~client'[c].unread
    BY <1>2, <1>3, <1>6, <1>7, <1>8
  <2>2. info.ftp_port \in DOMAIN bound'
    BY <1>9
  <2>3. echo_buff \in Gets
    BY <1>1
  <2> QED
    BY <1>1, <1>2, <1>3, <1>5, <2>1, <2>2, <2>3 DEF Serving, Listens
<1>13. Waiting'
  BY <1>5 DEF Waiting
<1>14. Announced'
  <2>1. ASSUME NEW d \in Client, NEW i \in DOMAIN client'[d].out, client'[d].out[i].type = "file:"
        PROVE  /\ client'[d].out[i].port \in DOMAIN bound'
               /\ client'[d].out[i].port = info.ftp_port => d = info.comm
    <3>1. CASE d = c /\ client'[d].out[i] = m
      BY <1>2, <1>4, <1>9, <3>1
    <3>2. CASE \E j \in DOMAIN client[d].out : client'[d].out[i] = client[d].out[j]
      BY <1>1, <1>9, <2>1, <3>2 DEF IInv, Announced, Listens
    <3>3. d = c => client'[d].out = q.out
      BY <1>8
    <3>4. d # c => client'[d] = client[d]
      BY <1>8
    <3> QED
      BY <1>2, <1>6, <2>1, <3>1, <3>2, <3>3, <3>4
  <2>2. DOMAIN <<>> = {}
    OBVIOUS
  <2>3. \A i \in DOMAIN bound'[info.ftp_port] : bound'[info.ftp_port][i] = info.comm
    BY <1>9, <2>2
  <2>4. info.data # NoClient => info.data = info.comm
    BY DEF IInv, Announced
  <2> QED
    BY <1>1, <2>1, <2>3, <2>4 DEF Announced, Listens
<1>15. Queued'
  <2>1. \A i \in DOMAIN backlog : backlog[i] \in Client
    BY LenProperties, ElementOfSeq DEF IInv, Types
  <2>2. \A d \in Client : d # info.comm => client'[d] = client[d]
    BY <1>2, <1>8
  <2> QED
    BY <1>1, <1>10, <2>1, <2>2 DEF IInv, Queued
<1>16. AnnouncedOnce'
  <2>1. client[c].command \in {Get(f) : f \in File}
    BY <1>3 DEF Gets
  <2> QED
    BY <1>2, <1>6, <1>7, <1>8, <2>1 DEF IInv, AnnouncedOnce
<1> QED
  BY <1>11, <1>12, <1>13, <1>14, <1>15, <1>16 DEF IInv

\* Whoever waits at the port is the client served.
LEMMA AcceptDataInv ==
  ASSUME IInv, AcceptData
  PROVE  IInv'
<1> DEFINE h == Head(bound[info.ftp_port])
<1>1. /\ pc = "offer" /\ bound[info.ftp_port] # <<>> /\ pc' = "send"
      /\ info' = [info EXCEPT !.data = h]
      /\ bound' = [bound EXCEPT ![info.ftp_port] = Tail(@)]
      /\ UNCHANGED <<echo_buff, msg_size, granted, lapsed, backlog, client>>
  BY DEF AcceptData
<1>2. /\ info.comm \in Client /\ info.ftp_port \in Port
      /\ client[info.comm].told # 0 /\ Listens(info.ftp_port)
  BY <1>1 DEF IInv, Serving, Active, Transfer
<1>3. PICK s \in Seq(Client) : s = bound[info.ftp_port]
  BY <1>2 DEF IInv, Types, Listens
<1>4. \A i \in DOMAIN s : s[i] = info.comm
  BY <1>1, <1>2, <1>3 DEF IInv, Announced, Active
<1>5. /\ Head(s) = info.comm /\ Tail(s) \in Seq(Client)
      /\ \A i \in DOMAIN Tail(s) : Tail(s)[i] = info.comm
  <2>1. Len(s) \in Nat /\ DOMAIN s = 1 .. Len(s) /\ Len(s) > 0
    BY <1>1, <1>3, LenProperties, EmptySeq
  <2>2. /\ Tail(s) \in Seq(Client) /\ Len(Tail(s)) = Len(s) - 1
        /\ \A i \in 1 .. Len(Tail(s)) : Tail(s)[i] = s[i + 1]
    BY <1>1, <1>3, HeadTailProperties
  <2>3. DOMAIN Tail(s) = 1 .. Len(Tail(s))
    BY <2>2, LenProperties
  <2>4. Head(s) = s[1]
    OBVIOUS
  <2>5. \A i \in DOMAIN Tail(s) : i + 1 \in DOMAIN s
    BY <2>1, <2>2, <2>3
  <2> QED
    BY <1>4, <2>1, <2>2, <2>3, <2>4, <2>5
<1>6. h = info.comm
  BY <1>3, <1>5
<1> HIDE DEF h
<1>7. /\ info'.comm = info.comm /\ info'.ftp_port = info.ftp_port /\ info'.data = info.comm
      /\ info' \in [comm : Client \cup {NoClient}, ftp_port : Port \cup {NoPort}, data : Client \cup {NoClient}]
  BY <1>1, <1>2, <1>6 DEF IInv, Types
<1>8. /\ DOMAIN bound' = DOMAIN bound /\ bound'[info.ftp_port] = Tail(s)
      /\ bound' \in [DOMAIN bound' -> Seq(Client)]
  BY <1>1, <1>2, <1>3, <1>5 DEF IInv, Types, Listens
<1>9. Types'
  BY <1>1, <1>7, <1>8 DEF IInv, Types
<1>10. Serving'
  BY <1>1, <1>2, <1>7, <1>8 DEF IInv, Serving, Active, Transfer, Listens
<1>11. Waiting'
  BY <1>1 DEF Waiting
<1>12. Announced'
  BY <1>1, <1>2, <1>5, <1>7, <1>8 DEF IInv, Announced, Active, Listens
<1>13. Queued'
  BY <1>1, <1>7 DEF IInv, Queued
<1>14. AnnouncedOnce'
  BY <1>1 DEF IInv, AnnouncedOnce
<1> QED
  BY <1>9, <1>10, <1>11, <1>12, <1>13, <1>14 DEF IInv

\* The end of the file reaches whoever the data connection is with.
LEMMA CloseDataInv ==
  ASSUME IInv, CloseData
  PROVE  IInv'
<1>1. /\ pc = "close" /\ client' = [client EXCEPT ![info.data].eof = TRUE] /\ pc' = "done"
      /\ UNCHANGED <<info, echo_buff, msg_size, granted, lapsed, bound, backlog>>
  BY DEF CloseData
<1>2. client \in [Client -> ClientState]
  BY DEF IInv, Types
<1>3. \A d \in Client : client'[d] = IF d = info.data THEN [client[d] EXCEPT !.eof = TRUE] ELSE client[d]
  BY <1>1, <1>2
<1>4. \A p \in ClientState : [p EXCEPT !.eof = TRUE] \in ClientState
  BY DEF ClientState
<1>5. client' \in [Client -> ClientState]
  BY <1>1, <1>2, <1>3, <1>4
<1>6. ASSUME NEW d \in Client PROVE Says(client'[d], client[d]) /\ client'[d].out = client[d].out
  <2>1. PICK p \in ClientState : p = client[d]
    BY <1>2
  <2> DEFINE q == [p EXCEPT !.eof = TRUE]
  <2>2. /\ q \in ClientState /\ q.pc = p.pc /\ q.command = p.command /\ q.unread = p.unread
        /\ q.told = p.told /\ q.out = p.out
    BY DEF ClientState
  <2>3. client'[d] = q \/ client'[d] = p
    BY <1>3, <2>1
  <2> HIDE DEF q
  <2> QED
    BY <2>1, <2>2, <2>3 DEF Says
<1>7. Active /\ Follows(pc')
  BY <1>1 DEF IInv, Serving, Active, Stages, Transfer, Follows
<1> QED
  BY <1>1, <1>5, <1>6, <1>7, SaysInv

-------------------------------------------------------------------------------
LEMMA ServerInv ==
  ASSUME IInv, ServerStep
  PROVE  IInv'
<1>1. ASSUME Active, Follows(pc'),
             UNCHANGED <<info, echo_buff, msg_size, granted, lapsed, bound, backlog, client>>
      PROVE  IInv'
  BY <1>1, SilentInv
<1>2. pc \in Transfer => Active /\ Listens(info.ftp_port) /\ echo_buff \in Gets
  BY DEF IInv, Serving, Active, Transfer
<1>3. Loop \in {"recv", "request"}
  BY DEF Loop
<1>4. CASE RequestPort
  BY <1>4, RequestPortInv
<1>5. CASE Accept
  BY <1>5, AcceptInv
<1>6. CASE Receive
  BY <1>6, ReceiveInv
<1>7. CASE ReceiveFails
  BY <1>1, <1>7 DEF ReceiveFails, Active, Stages, Transfer, Follows
<1>8. CASE Ignore
  BY <1>1, <1>3, <1>8 DEF Ignore, Active, Stages, Transfer, Follows
<1>9. CASE Exit
  BY <1>9, ExitInv
<1>10. CASE GetNothing
  BY <1>1, <1>10 DEF GetNothing, Active, Stages, Transfer, Follows
<1>11. CASE OpenFails
  BY <1>1, <1>11 DEF OpenFails, Handles, Wanted, Gets, Active, Stages, Transfer, Follows
<1>12. CASE Announce
  BY <1>12, AnnounceInv
<1>13. CASE AcceptData
  BY <1>13, AcceptDataInv
<1>14. CASE AcceptTimesOut
  BY <1>1, <1>14 DEF AcceptTimesOut, Active, Stages, Transfer, Follows
<1>15. CASE SendFile
  BY <1>1, <1>2, <1>15 DEF SendFile, Stages, Transfer, Follows
<1>16. CASE SendFileFails
  BY <1>1, <1>2, <1>16 DEF SendFileFails, Stages, Transfer, Follows
<1>17. CASE SendMd5
  <2> DEFINE m == Message("md5sum", Wanted, NoPort)
  <2>1. Wanted \in File \cup {"none"}
    BY GetsFacts DEF Wanted, IInv, Types
  <2>2. m \in OutMessage /\ m.type # "file:"
    BY <2>1 DEF Message, OutMessage
  <2>3. Send(m, "close") /\ pc = "md5" /\ UNCHANGED <<info, echo_buff, msg_size, granted, lapsed, bound, backlog>>
    BY <1>17 DEF SendMd5
  <2> HIDE DEF m
  <2>4. Active /\ Follows("close")
    BY <1>2, <2>3 DEF Stages, Transfer, Follows
  <2> QED
    BY <2>2, <2>3, <2>4, SayInv
<1>18. CASE SumFails
  BY <1>1, <1>2, <1>18 DEF SumFails, Stages, Transfer, Follows
<1>19. CASE CloseData
  BY <1>19, CloseDataInv
<1>20. CASE SendDone
  <2> DEFINE m == Message("done", "none", NoPort)
  <2>1. m \in OutMessage /\ m.type # "file:"
    BY DEF Message, OutMessage
  <2>2. Send(m, Loop) /\ pc = "done" /\ UNCHANGED <<info, echo_buff, msg_size, granted, lapsed, bound, backlog>>
    BY <1>20 DEF SendDone
  <2> HIDE DEF m
  <2>3. Active /\ Follows(Loop)
    BY <1>3, <2>2 DEF Active, Stages, Transfer, Follows
  <2> QED
    BY <2>1, <2>2, <2>3, SayInv
<1> QED
  BY <1>4, <1>5, <1>6, <1>7, <1>8, <1>9, <1>10, <1>11, <1>12, <1>13, <1>14, <1>15, <1>16,
     <1>17, <1>18, <1>19, <1>20 DEF ServerStep

\* A lease that runs out takes the port back from nobody who listens on it.
LEMMA ExpireInv ==
  ASSUME IInv, NEW p \in Port, Expire(p)
  PROVE  IInv'
<1>1. /\ p \in granted /\ granted' = granted \ {p} /\ lapsed' = lapsed \cup {p}
      /\ UNCHANGED <<pc, info, echo_buff, msg_size, bound, backlog, client>>
  BY DEF Expire
<1>2. granted' \cup lapsed' = granted \cup lapsed /\ lapsed \subseteq lapsed'
  BY <1>1
<1>3. Types'
  BY <1>1, <1>2 DEF IInv, Types
<1>4. Serving' /\ Waiting'
  BY <1>1, <1>2 DEF IInv, Serving, Waiting, Active, Listens
<1>5. Announced' /\ Queued' /\ AnnouncedOnce'
  BY <1>1 DEF IInv, Announced, Queued, AnnouncedOnce, Active, Listens
<1> QED
  BY <1>3, <1>4, <1>5 DEF IInv

LEMMA InitInv ==
  Init => IInv
<1> SUFFICES ASSUME Init PROVE IInv
  OBVIOUS
<1> DEFINE q == [pc |-> "away", command |-> NoCommand, unread |-> FALSE,
                 out |-> <<>>, told |-> 0, broken |-> FALSE, eof |-> FALSE]
<1>1. <<>> \in Seq(OutMessage) /\ <<>> \in Seq(Client) /\ DOMAIN <<>> = {}
  OBVIOUS
<1>2. q \in ClientState /\ q.pc = "away" /\ q.told = 0 /\ q.out = <<>>
  BY <1>1 DEF ClientState
<1>3. client = [c \in Client |-> q]
  BY DEF Init
<1> HIDE DEF q
<1>4. /\ client \in [Client -> ClientState]
      /\ \A c \in Client : client[c].pc = "away" /\ client[c].told = 0 /\ client[c].out = <<>>
  BY <1>2, <1>3
<1>5. /\ pc = "request" /\ info.comm = NoClient /\ info.ftp_port = NoPort /\ info.data = NoClient
      /\ echo_buff = NoCommand /\ msg_size = 0 /\ granted = {} /\ lapsed = {} /\ DOMAIN bound = {} /\ backlog = <<>>
      /\ info \in [comm : Client \cup {NoClient}, ftp_port : Port \cup {NoPort}, data : Client \cup {NoClient}]
      /\ bound \in [DOMAIN bound -> Seq(Client)]
  BY DEF Init
<1>6. Types
  BY <1>1, <1>4, <1>5 DEF Types
<1>7. Serving /\ Waiting
  BY <1>5 DEF Serving, Active, Waiting
<1>8. Announced
  BY <1>1, <1>4, <1>5 DEF Announced, Active, Listens
<1>9. Queued
  BY <1>1, <1>4, <1>5, OldTransferAssumption DEF Queued
<1>10. AnnouncedOnce
  BY <1>4 DEF AnnouncedOnce
<1> QED
  BY <1>6, <1>7, <1>8, <1>9, <1>10 DEF IInv

\* The invariant holds in every state.
THEOREM InvHolds == Spec => []IInv
<1>1. ASSUME IInv, [Next]_vars
      PROVE  IInv'
  <2>1. CASE ServerStep
    BY <1>1, <2>1, ServerInv
  <2>2. ASSUME NEW c \in Client, Reading(c) \/ Crash(c)
        PROVE  IInv'
    BY <1>1, <2>2, ReadingInv
  <2>3. ASSUME NEW c \in Client, NEW m \in Command, Connect(c, m)
        PROVE  IInv'
    BY <1>1, <2>3, ConnectInv
  <2>5. ASSUME NEW p \in Port, Expire(p)
        PROVE  IInv'
    BY <1>1, <2>5, ExpireInv
  <2>4. CASE UNCHANGED vars
    BY <1>1, <2>4 DEF vars, IInv, Types, Serving, Active, Waiting, Announced, Queued, AnnouncedOnce, Listens
  <2> QED
    BY <1>1, <2>1, <2>2, <2>3, <2>4, <2>5 DEF Next
<1> QED
  BY InitInv, <1>1, PTL DEF Spec

\* The variables have their types, and a client is served only while it has a port,
\* however many clients come and whoever of them dies.
THEOREM TypeHolds == Spec => []TypeOK
<1>1. IInv => TypeOK
  BY DEF IInv, Types, Serving, Active, TypeOK, ClientState
<1> QED
  BY <1>1, InvHolds, PTL

\* A command that is executed again when its client has left (server.cpp 158) never
\* announces its file a second time, and no file goes to a client that asked for none.
THEOREM FilesAreAnnouncedOnce == Spec => []AnnouncedOnce
<1>1. IInv => AnnouncedOnce
  BY DEF IInv
<1> QED
  BY <1>1, InvHolds, PTL

\* The file of a client is left out only when its port was granted again over a lease
\* that ran out, or when it is missing; an "exit" never brings that about, whoever sends
\* it when, and a data connection is never with another client.
THEOREM NoneIsLeftOut == Spec => []NoneLeftOut
<1>1. IInv => NoneLeftOut
  <2> SUFFICES ASSUME IInv PROVE NoneLeftOut
    OBVIOUS
  <2>1. info.data # NoClient => info.data = info.comm
    BY DEF IInv, Announced
  <2>2. ASSUME pc = "done", client[info.comm].told = 0,
               client[info.comm].command \in {Get(f) : f \in File \ Missing}
        PROVE  info.ftp_port \in lapsed
    <3>1. /\ echo_buff \in {NoCommand, client[info.comm].command} /\ echo_buff \in Gets
          /\ Listens(info.ftp_port) \/ echo_buff.file \in Missing
          /\ Listens(info.ftp_port) => info.ftp_port \in lapsed
      BY <2>2 DEF IInv, Serving, Active
    <3>2. echo_buff = client[info.comm].command
      BY <3>1, GetsFacts
    <3>3. PICK f \in File \ Missing : echo_buff = Get(f)
      BY <2>2, <3>2
    <3>4. echo_buff.file = f
      BY <3>3 DEF Get
    <3> QED
      BY <3>1, <3>3, <3>4
  <2> QED
    BY <2>1, <2>2 DEF NoneLeftOut
<1> QED
  BY <1>1, InvHolds, PTL
-------------------------------------------------------------------------------
\* The steps that are left to an execution of a command, and those of the connection:
\* the command a client sent is executed, and once more when the client has left.
Rank(p) ==
  CASE p = "recv" -> 7 [] p = "handle" -> 6 [] p = "offer" -> 5 [] p = "send" -> 4
    [] p = "md5" -> 3 [] p = "close" -> 2 [] p = "done" -> 1 [] OTHER -> 0

\* the client served has sent its command, and nobody has read it
Unheard == IF client[info.comm].unread THEN 1 ELSE 0
Left    == IF Active THEN 7 * (IF pc = "recv" THEN Unheard ELSE msg_size) + Rank(pc) ELSE 0

\* What is executed has been read, and a client sends one command.
Heard == pc \in {"handle", "offer", "send", "md5", "close", "done"} => Unheard = 0

\* Where a step of the server leads in the middle of a connection.
Leads ==
  /\ info'.comm = info.comm /\ msg_size' \in {0, 1}
  /\ \/ pc' \in {"request", "ended"}
     \/ pc = "recv" /\ pc' = "handle" /\ Unheard' = 0 /\ msg_size' = Unheard
     \/ /\ pc # "recv" /\ msg_size' = msg_size /\ Unheard' = Unheard
        /\ \/ pc' = "recv" /\ pc \in {"handle", "done"} /\ msg_size = 1
           \/ pc' \in {"offer", "send", "md5", "close", "done"} /\ Rank(pc') < Rank(pc)

\* What is sent, or seen to be at its end, leaves what a client has sent as it is.
LEMMA UnheardFacts ==
  ASSUME IInv, Active
  PROVE  /\ \A m \in OutMessage : \A next : Send(m, next) /\ UNCHANGED info => Unheard' = Unheard
         /\ CloseData => Unheard' = Unheard
         /\ Receive => Unheard' = 0
<1>1. Types /\ info.comm \in Client /\ \A c \in Client : client[c] \in ClientState
  BY DEF IInv, Types, Serving
<1>2. ASSUME NEW m \in OutMessage, NEW next, Send(m, next), UNCHANGED info PROVE Unheard' = Unheard
  <2>1. PICK q \in ClientState : /\ client' = [client EXCEPT ![info.comm] = q]
                                 /\ q.unread = client[info.comm].unread
    BY <1>1, <1>2, SendFacts
  <2> QED
    BY <1>1, <1>2, <2>1 DEF Types, Unheard
<1>3. CloseData => Unheard' = Unheard
  BY <1>1 DEF CloseData, Types, ClientState, Unheard
<1>4. Receive => Unheard' = 0
  BY <1>1 DEF Receive, Types, ClientState, Unheard
<1> QED
  BY <1>2, <1>3, <1>4

LEMMA ServerLeads ==
  ASSUME IInv, ServerStep, Active
  PROVE  Leads
<1>1. /\ pc \notin {"request", "accept", "ended"} /\ msg_size \in {0, 1}
      /\ echo_buff.file \in File \cup {"none"} /\ info.ftp_port \in Port
  BY GetsFacts DEF Active, IInv, Types, Serving
<1>2. Loop = IF msg_size = 1 THEN "recv" ELSE "request"
  BY <1>1 DEF Loop
<1>3. CASE Receive
  <2>1. msg_size' = Unheard
    BY <1>3 DEF Receive, Peer, Unheard
  <2>2. Unheard' = 0
    BY <1>3, UnheardFacts
  <2> QED
    BY <1>3, <2>1, <2>2 DEF Receive, Leads, Unheard
<1>4. CASE ReceiveFails \/ Exit \/ GetNothing \/ AcceptTimesOut
  BY <1>1, <1>4 DEF ReceiveFails, Exit, GetNothing, AcceptTimesOut, Leads
<1>5. CASE Ignore
  BY <1>1, <1>2, <1>5 DEF Ignore, Leads, Unheard
<1>6. CASE OpenFails \/ SendFile \/ SendFileFails \/ SumFails
  BY <1>1, <1>6 DEF OpenFails, Handles, SendFile, SendFileFails, SumFails, Leads, Unheard, Rank
<1>7. CASE AcceptData
  <2>1. info'.comm = info.comm
    BY <1>7 DEF AcceptData, IInv, Types
  <2> QED
    BY <1>1, <1>7, <2>1 DEF AcceptData, Leads, Unheard, Rank
<1>8. CASE CloseData
  <2>1. Unheard' = Unheard
    BY <1>8, UnheardFacts
  <2> QED
    BY <1>1, <1>8, <2>1 DEF CloseData, Leads, Rank
<1>9. ASSUME NEW m \in OutMessage, NEW next, Send(m, next), UNCHANGED <<info, msg_size>>
      PROVE  /\ Unheard' = Unheard /\ info'.comm = info.comm /\ msg_size' = msg_size
             /\ pc' \in {next, "ended"}
  <2>1. Types /\ info.comm \in Client
    BY DEF IInv, Serving
  <2> QED
    BY <1>9, <2>1, UnheardFacts, SendFacts
<1>10. CASE Announce
  <2> DEFINE m == Message("file:", Wanted, info.ftp_port)
  <2>1. m \in OutMessage
    BY <1>1 DEF Message, OutMessage, Wanted
  <2>2. Send(m, "offer") /\ pc = "handle" /\ UNCHANGED <<info, msg_size>>
    BY <1>10 DEF Announce, Handles
  <2> HIDE DEF m
  <2> QED
    BY <1>1, <1>9, <2>1, <2>2 DEF Leads, Rank
<1>11. CASE SendMd5
  <2> DEFINE m == Message("md5sum", Wanted, NoPort)
  <2>1. m \in OutMessage
    BY <1>1 DEF Message, OutMessage, Wanted
  <2>2. Send(m, "close") /\ pc = "md5" /\ UNCHANGED <<info, msg_size>>
    BY <1>11 DEF SendMd5
  <2> HIDE DEF m
  <2> QED
    BY <1>1, <1>9, <2>1, <2>2 DEF Leads, Rank
<1>12. CASE SendDone
  <2> DEFINE m == Message("done", "none", NoPort)
  <2>1. m \in OutMessage
    BY DEF Message, OutMessage
  <2>2. Send(m, Loop) /\ pc = "done" /\ UNCHANGED <<info, msg_size>>
    BY <1>12 DEF SendDone
  <2> HIDE DEF m
  <2> QED
    BY <1>1, <1>2, <1>9, <2>1, <2>2 DEF Leads
<1> QED
  BY <1>1, <1>3, <1>4, <1>5, <1>6, <1>7, <1>8, <1>10, <1>11, <1>12
     DEF ServerStep, RequestPort, Accept

\* Nobody else moves the server, or sends it more of a command that it serves.
LEMMA OthersLeave ==
  ASSUME IInv, [Next]_vars, ~ServerStep
  PROVE  UNCHANGED <<pc, msg_size>> /\ (Active => Unheard' = Unheard)
<1>1. Types /\ \A c \in Client : client[c] \in ClientState /\ client[c].out \in Seq(OutMessage)
                                 /\ Len(client[c].out) \in Nat
  BY LenProperties DEF IInv, Types, ClientState
<1>2. Active => info.comm \in Client /\ client[info.comm].pc # "away"
  BY DEF IInv, Serving, Queued
<1>3. ASSUME NEW c \in Client, Reading(c) \/ Crash(c) PROVE UNCHANGED <<pc, msg_size, info>>
  BY <1>3 DEF Reading, Crash, TakeFile, Abort, EndOfFile, TakeMd5, Others
<1>4. ASSUME NEW c \in Client, Reading(c) \/ Crash(c)
      PROVE  \A d \in Client : client'[d].unread = client[d].unread
  <2>1. ASSUME NEW q, client' = [client EXCEPT ![c] = q], Reads(q, client[c])
        PROVE  \A d \in Client : client'[d].unread = client[d].unread
    BY <1>1, <2>1 DEF Reads, Types
  <2>2. ASSUME NEW n \in 0 .. Len(client[c].out)
        PROVE  /\ Reads([After(c, n) EXCEPT !.pc = "copy"], client[c])
               /\ Reads(Gone(After(c, n)), client[c])
    BY <1>1, ReadsFacts
  <2>3. \A n \in 1 .. Len(client[c].out) : n \in 0 .. Len(client[c].out)
    BY <1>1
  <2>4. CASE TakeFile(c)
    BY <2>1, <2>2, <2>3, <2>4 DEF TakeFile
  <2>5. CASE Abort(c) \/ TakeMd5(c)
    BY <2>1, <2>2, <2>3, <2>5 DEF Abort, TakeMd5
  <2>6. ASSUME NEW q, client' = [client EXCEPT ![c] = q], q.unread = client[c].unread
        PROVE  \A d \in Client : client'[d].unread = client[d].unread
    BY <1>1, <2>6 DEF Types
  <2>7. CASE EndOfFile(c)
    <3> DEFINE q == [client[c] EXCEPT !.pc = "sum"]
    <3>1. client' = [client EXCEPT ![c] = q]
      BY <2>7 DEF EndOfFile
    <3>2. q.unread = client[c].unread
      BY <1>1 DEF ClientState
    <3> HIDE DEF q
    <3> QED
      BY <2>6, <3>1, <3>2
  <2>8. CASE Crash(c)
    <3> DEFINE q == [client[c] EXCEPT !.pc = IF client[c].out = <<>> THEN "gone" ELSE "reset", !.out = <<>>]
    <3>1. client' = [client EXCEPT ![c] = q]
      BY <2>8 DEF Crash, Die, Gone
    <3>2. q.unread = client[c].unread
      BY <1>1 DEF ClientState
    <3> HIDE DEF q
    <3> QED
      BY <2>6, <3>1, <3>2
  <2> QED
    BY <1>4, <2>4, <2>5, <2>7, <2>8 DEF Reading
<1>5. ASSUME NEW c \in Client, NEW m \in Command, Connect(c, m)
      PROVE  UNCHANGED <<pc, msg_size>> /\ (Active => Unheard' = Unheard)
  <2>1. UNCHANGED <<pc, msg_size, info>> /\ client[c].pc = "away"
        /\ \E q : client' = [client EXCEPT ![c] = q]
    <3>1. CASE client' = [client EXCEPT ![c].pc = "wait", ![c].command = m, ![c].unread = TRUE]
      BY <1>5, <3>1 DEF Connect, Others
    <3>2. CASE client' = [client EXCEPT ![c].pc = "gone"]
      BY <1>5, <3>2 DEF Connect, Others
    <3> QED
      BY <1>5, <3>1, <3>2 DEF Connect
  <2> QED
    BY <1>1, <1>2, <2>1 DEF Types, Unheard
<1>6. CASE UNCHANGED vars
  BY <1>6 DEF vars, Unheard
<1>7. ASSUME NEW p \in Port, Expire(p) PROVE UNCHANGED <<pc, msg_size, info, client>>
  BY <1>7 DEF Expire
<1> QED
  BY <1>2, <1>3, <1>4, <1>5, <1>6, <1>7 DEF Next, Unheard

LEMMA HeardStep ==
  ASSUME IInv, Heard, [Next]_vars
  PROVE  Heard'
<1>1. CASE ~ServerStep
  BY <1>1, OthersLeave DEF Heard, Active
<1>2. CASE ServerStep /\ Active
  <2>1. Leads
    BY <1>2, ServerLeads
  <2> QED
    BY <1>2, <2>1 DEF Leads, Heard, Active, IInv, Types
<1>3. CASE ServerStep /\ ~Active
  BY <1>3 DEF Active, ServerStep, RequestPort, Accept, Receive, ReceiveFails, Ignore, Exit, GetNothing,
     OpenFails, Handles, Announce, AcceptData, AcceptTimesOut, SendFile, SendFileFails, SendMd5, SumFails,
     CloseData, SendDone, Heard
<1> QED
  BY <1>1, <1>2, <1>3

\* A client that is served costs the server fourteen steps at most: each of its own leaves it fewer,
\* and no client adds to them, whoever dies.  It is the reason that the loop around recv ends
\* (server.cpp 142-174): a command is executed once more only when its client has left.
Advances ==
  Active => /\ Left \in 0 .. 14
            /\ IF ServerStep THEN Left' < Left ELSE Left' = Left

\* With fairness, the server comes back for the next client, or has ended.
THEOREM ServingAdvances == Spec => [][Advances]_vars
<1>1. ASSUME IInv, Heard, [Next]_vars PROVE [Advances]_vars
  <2> SUFFICES ASSUME Active PROVE Advances
    BY DEF Advances
  <2>1. msg_size \in {0, 1} /\ Unheard \in {0, 1}
        /\ pc \in {"recv", "handle", "offer", "send", "md5", "close", "done"}
    BY <1>1 DEF IInv, Types, Active, Unheard
  <2>2. Rank(pc) \in 1 .. 7 /\ (pc # "recv" => Rank(pc) \in 1 .. 6)
    BY <2>1 DEF Rank
  <2>3. Left \in 0 .. 14
    BY <2>1, <2>2 DEF Left
  <2>4. CASE ~ServerStep
    <3>1. UNCHANGED <<pc, msg_size>> /\ Unheard' = Unheard
      BY <1>1, <2>4, OthersLeave
    <3> QED
      BY <2>3, <2>4, <3>1 DEF Left, Active, Rank, Advances
  <2>5. CASE ServerStep
    <3> SUFFICES Left' < Left
      BY <2>3, <2>5 DEF Advances
    <3>1. Leads
      BY <1>1, <2>5, ServerLeads
    <3> DEFINE w == IF pc = "recv" THEN Unheard ELSE msg_size
               v == IF pc' = "recv" THEN Unheard' ELSE msg_size'
               k == Rank(pc)
               l == Rank(pc')
    <3>2. Left = 7 * w + k /\ w \in {0, 1} /\ k \in 1 .. 7
      BY <2>1, <2>2 DEF Left
    <3>3. pc' \notin {"request", "accept", "ended"} => Left' = 7 * v + l
      BY DEF Left, Active
    <3>4. CASE pc' \in {"request", "ended"}
      <4>1. Left' = 0
        BY <3>4 DEF Left, Active
      <4> HIDE DEF w, k
      <4> QED
        BY <3>2, <4>1
    <3>5. CASE pc = "recv" /\ pc' = "handle" /\ Unheard' = 0 /\ msg_size' = Unheard
      <4>1. w = v /\ k = 7 /\ l = 6
        BY <3>5 DEF Rank
      <4> HIDE DEF w, v, k, l
      <4> QED
        BY <3>2, <3>3, <3>5, <4>1
    <3>6. CASE pc' = "recv" /\ pc \in {"handle", "done"} /\ msg_size = 1 /\ Unheard' = Unheard
      <4>1. Unheard = 0
        BY <1>1, <3>6 DEF Heard
      <4>2. w = 1 /\ v = 0 /\ l = 7
        BY <3>6, <4>1 DEF Rank
      <4> HIDE DEF w, v, k, l
      <4> QED
        BY <3>2, <3>3, <3>6, <4>2
    <3>7. CASE /\ pc # "recv" /\ msg_size' = msg_size
               /\ pc' \in {"offer", "send", "md5", "close", "done"} /\ Rank(pc') < Rank(pc)
      <4>1. w = v /\ l \in 1 .. 7 /\ l < k
        BY <3>7 DEF Rank
      <4> HIDE DEF w, v, k, l
      <4> QED
        BY <3>2, <3>3, <3>7, <4>1
    <3> QED
      BY <3>1, <3>4, <3>5, <3>6, <3>7 DEF Leads
  <2> QED
    BY <2>4, <2>5
<1>2. Init => Heard
  BY DEF Init, Heard
<1> QED
  BY <1>1, <1>2, HeardStep, InvHolds, PTL DEF Spec
===============================================================================
