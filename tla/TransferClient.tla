----------------------------- MODULE TransferClient -----------------------------
(***************************************************************************)
(* The file transfer client, Program.cs: its conversation on the control   *)
(* connection.  TCP keeps no message boundaries: a read returns what has   *)
(* arrived, and the client looks at the first words of it, or, after a     *)
(* checksum, at the words of the second line.  What else came with them is *)
(* lost.  What concerns the server's sockets is in TransferServer.         *)
(***************************************************************************)
EXTENDS Integers, Sequences

CONSTANTS
  Client,
  NoClient,
  Commands,     \* what the user types
  MaxCommands   \* bound on the commands of one client

ASSUME ClientAssumption ==
  /\ Commands \subseteq {"get", "bad", "exit", "shutdown"}
  /\ MaxCommands \in Nat \ {0}
  /\ NoClient \notin Client

VARIABLE client     \* the clients, with both directions of their connection

NoPort == -1
NoData == [owner |-> NoClient, file |-> 0]
Message(type, file, port) == [type |-> type, file |-> file, port |-> port]

\* told: the file of the last "file:", which is full_path; data: what came over
\* the last data connection, which is what client_checksum is the sum of
ClientInit ==
  client = [c \in Client |-> [pc |-> "away", sent |-> 0, inbox |-> <<>>, out |-> <<>>,
                              broken |-> FALSE, told |-> 0, data |-> NoData, got |-> {}]]

Alive(c) == client[c].pc \notin {"gone", "crashed"}

\* a client that dies with something unread resets the connection
Dead(p) == [p EXCEPT !.pc = IF p.out = <<>> THEN "gone" ELSE "crashed", !.out = <<>>, !.data = NoData]
Die(c)  == client' = [client EXCEPT ![c] = Dead(@)]

Ask(c, cmd) ==
  /\ client[c].pc = "prompt" /\ client[c].sent < MaxCommands
  /\ client' = [client EXCEPT ![c].inbox = <<cmd>>, ![c].sent = @ + 1, ![c].got = {},
                  ![c].told = 0, ![c].data = NoData,
                  ![c].pc = IF cmd \in {"exit", "shutdown"} THEN "gone" ELSE "waiting"]

(***************************************************************************)
(* One turn of the inner loop: the messages r of one read.                 *)
(***************************************************************************)
MayRead(c) ==
  IF client[c].pc # "waiting" THEN {}
  ELSE {SubSeq(client[c].out, 1, n) : n \in 1 .. Len(client[c].out)}

IsSum(r) == r[1].type = "md5sum:"

\* the line whose words are compared
Line(r) == IF IsSum(r) /\ Len(r) > 1 THEN r[2] ELSE r[1]

\* what they are taken for.  Only the second line is without its newline, and
\* "done\n" is no "done"; the port of "file:" is not a number when more follows
Word(r) ==
  IF IsSum(r) THEN (IF Len(r) = 1 THEN "nothing" ELSE r[2].type)
  ELSE IF r[1].type = "done" THEN "nothing"
  ELSE IF r[1].type = "file:" /\ (Len(r) > 1 \/ r[1].port = NoPort) THEN "exception"
  ELSE r[1].type

\* a file whose checksum differs is deleted
Checked(p, r) ==
  IF IsSum(r) /\ p.data.file # r[1].file THEN p.got \ {p.told} ELSE p.got

Left(p, r) == SubSeq(p.out, Len(r) + 1, Len(p.out))

\* after the read, and before anything it asks for
Heard(c, r) == [client[c] EXCEPT !.out = Left(client[c], r), !.got = Checked(client[c], r)]

\* "done", "error:", or nothing the client knows
Hear(c) ==
  \E r \in MayRead(c) :
    /\ Word(r) \in {"done", "error:", "nothing", "md5sum:"}
    /\ client' = [client EXCEPT ![c] =
         [Heard(c, r) EXCEPT !.pc = IF Word(r) \in {"done", "error:"} THEN "prompt" ELSE "waiting"]]

\* FormatException and ArgumentOutOfRangeException are not caught
Fail(c) ==
  \E r \in MayRead(c) :
    /\ \/ Word(r) = "exception"
       \/ Word(r) = "file:" /\ Line(r).port = NoPort
    /\ client' = [client EXCEPT ![c] = Dead(Heard(c, r))]

\* the server closed the data connection: the file is complete
EndOfData(c) ==
  /\ client[c].pc = "data" /\ client[c].data # NoData
  /\ client' = [client EXCEPT ![c].pc = "waiting", ![c].got = @ \cup {client[c].data.file}]
=============================================================================
