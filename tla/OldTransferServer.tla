--------------------------- MODULE OldTransferServer ---------------------------
(***************************************************************************)
(* The file transfer server of lab4_old, the sequential predecessor of     *)
(* lab4/server.cpp, with its client, client_folder/simple_client.cpp.      *)
(* One connection is served until its client leaves.  echo_buff is not     *)
(* cleared between two calls of recv, so when recv returns 0 the last      *)
(* command is executed once more; no listening socket is ever closed; and  *)
(* nothing keeps the lease of a port alive.                                *)
(***************************************************************************)
EXTENDS Integers, Sequences, FiniteSets

CONSTANTS
  Client,      \* runs of simple_client, which sends one command each
  File,        \* the files a command may name
  Missing,     \* those of them that may be missing, or cannot be summed
  Port,        \* the ports the name server may grant
  Other,       \* commands other than "get <file>"
  Slow         \* clients that may take more than 50 s, or die at any time

NoClient == "none"
NoPort   == 0

ASSUME OldTransferAssumption ==
  /\ NoClient \notin Client
  /\ Port \subseteq Nat \ {0}
  /\ Missing \subseteq File
  /\ Slow \subseteq Client
  /\ Other \subseteq {"exit", "shutdown", "get", "none"}

Get(f)   == [cmd |-> "get", file |-> f]
Plain(o) == [cmd |-> o, file |-> "none"]
Command  == {Get(f) : f \in File} \cup {Plain(o) : o \in Other}

VARIABLES
  pc,         \* where the server is; "ended" when the process has gone
  info,       \* connection_info: the client served, its ftp_port, and who is
              \* at the other end of the data connection
  echo_buff,  \* the command executed last, or none
  msg_size,   \* positive, or 0 when the peer has closed
  granted,    \* external: ports the name server holds for this server
  lapsed,     \* history: ports whose lease has run out once
  bound,      \* port -> clients queued at the socket that listens on it
  backlog,    \* connections to server_sock not accepted yet
  client      \* the clients, with what was sent to them and not read

vars == <<pc, info, echo_buff, msg_size, granted, lapsed, bound, backlog, client>>

NoCommand == Plain("none")
Listens(p) == p \in DOMAIN bound
Alive(c)   == client[c].pc \notin {"gone", "reset"}

Init ==
  /\ pc = "request"
  /\ info = [comm |-> NoClient, ftp_port |-> NoPort, data |-> NoClient]
  /\ echo_buff = NoCommand /\ msg_size = 0
  /\ granted = {} /\ lapsed = {}
  /\ bound = [p \in {} |-> <<>>]
  /\ backlog = <<>>
  /\ client = [c \in Client |-> [pc |-> "away", command |-> NoCommand, unread |-> FALSE,
                                 out |-> <<>>, told |-> 0, broken |-> FALSE, eof |-> FALSE]]

\* send on the control connection.  The first message to a peer that has gone
\* is answered by a reset; the next one raises SIGPIPE, which ends the server
Send(m, next) ==
  LET c == info.comm
      t == [client[c] EXCEPT !.told = @ + (IF m.type = "file:" THEN 1 ELSE 0)] IN
    IF Alive(c)
      THEN client' = [client EXCEPT ![c] = [t EXCEPT !.out = Append(@, m)]] /\ pc' = next
      ELSE /\ client' = [client EXCEPT ![c] = [t EXCEPT !.broken = TRUE]]
           /\ pc' \in IF client[c].broken THEN {next, "ended"} ELSE {next}

Message(type, file, port) == [type |-> type, file |-> file, port |-> port]

(***************************************************************************)
(* wait_for_client and HandleTCPClient.                                    *)
(***************************************************************************)
RequestPort ==
  /\ pc = "request"
  /\ \/ \E p \in Port \ granted :
          /\ granted' = granted \cup {p} /\ pc' = "accept"
          /\ info' = [comm |-> NoClient, ftp_port |-> p, data |-> NoClient]
     \/ granted = Port /\ pc' = "ended" /\ UNCHANGED <<granted, info>>
  /\ UNCHANGED <<echo_buff, msg_size, bound, backlog, client, lapsed>>

\* mutant: the buffer outlives the connection
AcceptKeepsBuffer ==
  /\ pc = "accept" /\ backlog # <<>>
  /\ info' = [info EXCEPT !.comm = Head(backlog)]
  /\ backlog' = Tail(backlog)
  /\ pc' = "recv"
  /\ UNCHANGED <<echo_buff, msg_size, granted, bound, client, lapsed>>

Accept ==
  /\ pc = "accept" /\ backlog # <<>>
  /\ info' = [info EXCEPT !.comm = Head(backlog)]
  /\ backlog' = Tail(backlog)
  /\ echo_buff' = NoCommand
  /\ pc' = "recv"
  /\ UNCHANGED <<msg_size, granted, bound, client, lapsed>>

Peer == client[info.comm]

\* recv returns a command, or 0 and leaves the buffer as it is
Receive ==
  /\ pc = "recv"
  /\ Peer.unread \/ Peer.pc = "gone"
  /\ echo_buff' = IF Peer.unread THEN Peer.command ELSE echo_buff
  /\ msg_size' = IF Peer.unread THEN 1 ELSE 0
  /\ client' = [client EXCEPT ![info.comm].unread = FALSE]
  /\ pc' = "handle"
  /\ UNCHANGED <<info, granted, bound, backlog, lapsed>>

\* mutant of ReceiveFails: the -1 of recv is not looked at
ReceiveUnchecked ==
  /\ pc = "recv" /\ ~Alive(info.comm) /\ ~Peer.unread
  /\ Peer.pc = "reset" \/ Peer.broken
  /\ msg_size' = -1 /\ pc' = "handle"
  /\ UNCHANGED <<info, echo_buff, granted, bound, backlog, client, lapsed>>

\* recv fails: the connection and its port are left as they are
ReceiveFails ==
  /\ pc = "recv" /\ ~Alive(info.comm) /\ ~Peer.unread
  /\ Peer.pc = "reset" \/ Peer.broken
  /\ pc' = "request"
  /\ UNCHANGED <<info, echo_buff, msg_size, granted, bound, backlog, client, lapsed>>

Loop == IF msg_size > 0 THEN "recv" ELSE "request"

\* mutant of Ignore: the loop does not end with the connection
IgnoreForever ==
  /\ pc = "handle" /\ echo_buff.cmd \in {"shutdown", "none"}
  /\ pc' = "recv"
  /\ UNCHANGED <<info, echo_buff, msg_size, granted, bound, backlog, client, lapsed>>

\* "shutdown" is not implemented, and nothing else is known
Ignore ==
  /\ pc = "handle" /\ echo_buff.cmd \in {"shutdown", "none"}
  /\ pc' = Loop
  /\ UNCHANGED <<info, echo_buff, msg_size, granted, bound, backlog, client, lapsed>>

Fin == Message("fin", "none", NoPort)

\* the port goes back and the connection is closed; when the name server does
\* not take the port, the connection is left as it is
Exit ==
  /\ pc = "handle" /\ echo_buff.cmd = "exit"
  /\ \/ /\ granted' = granted \ {info.ftp_port}
        /\ client' = IF Alive(info.comm) THEN [client EXCEPT ![info.comm].out = Append(@, Fin)] ELSE client
     \/ UNCHANGED <<granted, client>>
  /\ pc' = "request"
  /\ UNCHANGED <<info, echo_buff, msg_size, bound, backlog, lapsed>>

\* substr(4) of "get" throws, and nobody catches it
GetNothing ==
  /\ pc = "handle" /\ echo_buff = Plain("get")
  /\ pc' = "ended"
  /\ UNCHANGED <<info, echo_buff, msg_size, granted, bound, backlog, client, lapsed>>

(***************************************************************************)
(* send_file, and the "done" of handle_get after each of its outcomes.     *)
(***************************************************************************)
Wanted == echo_buff.file
Handles == pc = "handle" /\ echo_buff \in {Get(f) : f \in File}

\* the file cannot be opened, or bind fails
OpenFails ==
  /\ Handles
  /\ Wanted \in Missing \/ Listens(info.ftp_port)
  /\ pc' = "done"
  /\ UNCHANGED <<info, echo_buff, msg_size, granted, bound, backlog, client, lapsed>>

Announce ==
  /\ Handles /\ ~Listens(info.ftp_port)
  /\ bound' = [p \in DOMAIN bound \cup {info.ftp_port} |-> IF Listens(p) THEN bound[p] ELSE <<>>]
  /\ Send(Message("file:", Wanted, info.ftp_port), "offer")
  /\ UNCHANGED <<info, echo_buff, msg_size, granted, backlog, lapsed>>

AcceptData ==
  /\ pc = "offer" /\ bound[info.ftp_port] # <<>>
  /\ info' = [info EXCEPT !.data = Head(bound[info.ftp_port])]
  /\ bound' = [bound EXCEPT ![info.ftp_port] = Tail(@)]
  /\ pc' = "send"
  /\ UNCHANGED <<echo_buff, msg_size, granted, backlog, client, lapsed>>

\* DieWithError
AcceptTimesOut ==
  /\ pc = "offer" /\ bound[info.ftp_port] = <<>>
  /\ info.comm \in Slow \/ ~Alive(info.comm)
  /\ pc' = "ended"
  /\ UNCHANGED <<info, echo_buff, msg_size, granted, bound, backlog, client, lapsed>>

\* mutant of SendFile: the listening socket is closed
SendFileCloses ==
  /\ pc = "send"
  /\ bound' = [p \in DOMAIN bound \ {info.ftp_port} |-> bound[p]]
  /\ pc' = "md5"
  /\ UNCHANGED <<info, echo_buff, msg_size, granted, backlog, client, lapsed>>

\* the file goes out; its socket is closed after the checksum
SendFile ==
  /\ pc = "send"
  /\ pc' = "md5"
  /\ UNCHANGED <<info, echo_buff, msg_size, granted, bound, backlog, client, lapsed>>

\* the client has gone: an error, or the signal
SendFileFails ==
  /\ pc = "send" /\ ~Alive(info.data)
  /\ pc' \in {"done", "ended"}
  /\ UNCHANGED <<info, echo_buff, msg_size, granted, bound, backlog, client, lapsed>>

SendMd5 ==
  /\ pc = "md5"
  /\ Send(Message("md5sum", Wanted, NoPort), "close")
  /\ UNCHANGED <<info, echo_buff, msg_size, granted, bound, backlog, lapsed>>

\* the data connection stays open
SumFails ==
  /\ pc = "md5" /\ Wanted \in Missing
  /\ pc' = "done"
  /\ UNCHANGED <<info, echo_buff, msg_size, granted, bound, backlog, client, lapsed>>

CloseData ==
  /\ pc = "close"
  /\ client' = [client EXCEPT ![info.data].eof = TRUE]
  /\ pc' = "done"
  /\ UNCHANGED <<info, echo_buff, msg_size, granted, bound, backlog, lapsed>>

\* mutant: the port goes back with the listening socket still on it, which is
\* what the successor of this server does
SendDoneReleases ==
  /\ pc = "done"
  /\ Send(Message("done", "none", NoPort), Loop)
  /\ granted' = granted \ {info.ftp_port}
  /\ UNCHANGED <<info, echo_buff, msg_size, bound, backlog, lapsed>>

SendDone ==
  /\ pc = "done"
  /\ Send(Message("done", "none", NoPort), Loop)
  /\ UNCHANGED <<info, echo_buff, msg_size, granted, bound, backlog, lapsed>>

ServerStep ==
  \/ RequestPort \/ Accept \/ Receive \/ ReceiveFails \/ Ignore \/ Exit \/ GetNothing
  \/ OpenFails \/ Announce \/ AcceptData \/ AcceptTimesOut
  \/ SendFile \/ SendFileFails \/ SendMd5 \/ SumFails \/ CloseData \/ SendDone

(***************************************************************************)
(* simple_client: one command, one file, its checksum.                     *)
(***************************************************************************)
Others == <<info, echo_buff, msg_size, granted, lapsed, pc>>

\* one of Slow may be gone before it has sent anything
Connect(c, m) ==
  /\ client[c].pc = "away" /\ pc # "ended"
  /\ backlog' = Append(backlog, c)
  /\ \/ client' = [client EXCEPT ![c].pc = "wait", ![c].command = m, ![c].unread = TRUE]
     \/ c \in Slow /\ client' = [client EXCEPT ![c].pc = "gone"]
  /\ UNCHANGED <<bound, Others>>

\* with something unread the kernel resets the connection
Gone(p) == [p EXCEPT !.pc = IF p.out = <<>> THEN "gone" ELSE "reset", !.out = <<>>]
Die(c)  == client' = [client EXCEPT ![c] = Gone(@)]

\* the rest of what has arrived when a read takes n messages
After(c, n) == [client[c] EXCEPT !.out = SubSeq(@, n + 1, Len(@))]

\* connect to the port of the "file:" line
TakeFile(c) ==
  /\ client[c].pc = "wait" /\ client[c].out # <<>> /\ client[c].out[1].type = "file:"
  /\ LET p == client[c].out[1].port IN
       \E n \in 1 .. Len(client[c].out) :
         IF Listens(p) /\ pc # "ended"
           THEN /\ client' = [client EXCEPT ![c] = [After(c, n) EXCEPT !.pc = "copy"]]
                /\ bound' = [bound EXCEPT ![p] = Append(@, c)]
           ELSE client' = [client EXCEPT ![c] = Gone(After(c, n))] /\ UNCHANGED bound
  /\ UNCHANGED <<backlog, Others>>

\* anything else has no port in it, and stoi throws; so does the end of the
\* stream; and the memset of 2048 bytes over a buffer of 50 may end it first
Abort(c) ==
  /\ client[c].pc = "wait"
  /\ client[c].out # <<>> \/ pc = "ended"
  /\ \E n \in 0 .. Len(client[c].out) : client' = [client EXCEPT ![c] = Gone(After(c, n))]
  /\ UNCHANGED <<backlog, bound, Others>>

EndOfFile(c) ==
  /\ client[c].pc = "copy"
  /\ client[c].eof \/ pc = "ended"
  /\ client' = [client EXCEPT ![c].pc = "sum"]
  /\ UNCHANGED <<backlog, bound, Others>>

\* whatever comes is printed, and the client leaves; what comes later is unread
TakeMd5(c) ==
  /\ client[c].pc = "sum"
  /\ \E n \in 1 .. Len(client[c].out) : client' = [client EXCEPT ![c] = Gone(After(c, n))]
  /\ UNCHANGED <<backlog, bound, Others>>

Reading(c) == TakeFile(c) \/ Abort(c) \/ EndOfFile(c) \/ TakeMd5(c)

Crash(c) ==
  /\ c \in Slow /\ Alive(c) /\ client[c].pc # "away"
  /\ Die(c)
  /\ UNCHANGED <<backlog, bound, Others>>

\* external: the server asks for a port once and sends no KEEP_ALIVE
Expire(p) ==
  /\ p \in granted
  /\ granted' = granted \ {p} /\ lapsed' = lapsed \cup {p}
  /\ UNCHANGED <<pc, info, echo_buff, msg_size, bound, backlog, client>>

Next ==
  \/ ServerStep
  \/ \E p \in Port : Expire(p)
  \/ \E c \in Client : Reading(c) \/ Crash(c)
  \/ \E c \in Client, m \in Command : Connect(c, m)

Spec == Init /\ [][Next]_vars

\* The server runs; its clients owe it nothing.
FairSpec == Spec /\ WF_vars(ServerStep)
-------------------------------------------------------------------------------
\* The variables have their types; a client is served only with a port.
TypeOK ==
  /\ pc \in {"request", "accept", "recv", "handle", "offer", "send", "md5", "close", "done", "ended"}
  /\ info.comm \in Client \cup {NoClient} /\ info.ftp_port \in Port \cup {NoPort}
  /\ echo_buff \in Command \cup {NoCommand} /\ msg_size \in {0, 1}
  /\ granted \subseteq Port /\ lapsed \subseteq Port /\ DOMAIN bound \subseteq Port
  /\ \A p \in DOMAIN bound : bound[p] \in Seq(Client)
  /\ pc \notin {"request", "accept", "ended"} =>
       info.comm \in Client /\ info.ftp_port \in Port
  /\ \A c \in Client :
       client[c].pc \in {"away", "wait", "copy", "sum", "gone", "reset"}

\* A file is announced only to a client that asked for it, and once at most,
\* although its command is executed again when it has left (server.cpp 158).  It
\* rests on the listening socket that send_file leaves behind: bind fails.
AnnouncedOnce ==
  \A c \in Client :
    client[c].told <= (IF client[c].command \in {Get(f) : f \in File} THEN 1 ELSE 0)

\* Every listening socket is left open (send_file closes only client_sock, line 119), and
\* a port it keeps may come back from the name server, which is where bind fails: the
\* next client gets "done" and no file, without a word.  That takes a lease that ran out,
\* for nothing keeps it alive; the other way back, an "exit" (158), never gives up a
\* port that is listened on.  And on whatever port, a file goes to no other client.
NoneLeftOut ==
  /\ pc = "done" /\ client[info.comm].told = 0
       /\ client[info.comm].command \in {Get(f) : f \in File \ Missing} => info.ftp_port \in lapsed
  /\ info.data # NoClient => info.data = info.comm

\* A client that has left does not keep the server: it accepts again, or ends.
ServerMovesOn ==
  \A c \in Client :
    info.comm = c /\ ~Alive(c) ~> info.comm # c \/ pc \in {"request", "ended"}
=============================================================================
