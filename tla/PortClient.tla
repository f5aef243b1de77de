------------------------------ MODULE PortClient ------------------------------
(***************************************************************************)
(* do_request of getport.c (define_port, lookup_port, release_port and the *)
(* keep-alive of lab4/server.cpp go through it) talking over UDP to the    *)
(* name server of lab2.  The library keeps one socket per process in a     *)
(* global, so threads of one process receive on the same socket; a call    *)
(* waits without a timeout and takes the first datagram that arrives.      *)
(* GetPort of Program.cs does the same for its one look-up, and takes the  *)
(* port of the answer without looking at its status: 0 is no port.         *)
(***************************************************************************)
EXTENDS NameServer

CONSTANTS
  Threads,
  Socket,      \* thread -> g_nameserver of its process
  Calls,       \* thread -> the requests it may make
  CSharp,      \* the threads that are in GetPort
  MaxCalls,    \* bound on the calls made
  MaxLost      \* bound on the datagrams lost; any may be overtaken

ASSUME ClientAssumption ==
  /\ CSharp \subseteq Threads
  /\ \A t \in CSharp : \A m \in Calls[t] : m.msg_type = LOOKUP_PORT /\ m.port = 0
  /\ MaxCalls \in Nat
  /\ MaxLost \in Nat

VARIABLES
  calls,     \* calls made so far; numbers them for the properties
  pending,   \* thread -> the call it is blocked in, or NoCall
  requests,  \* datagrams on their way to the server
  remaddr,   \* the call being served: its number, and the socket to answer
  replies,   \* datagrams on their way to, or queued at, the sockets
  returned,  \* history: thread -> what its last call returned
  lost,      \* history: the calls whose request or answer was lost
  during     \* history: thread -> the ports that the table held for the name it
             \* looked up last, at any time from the call to its return

clientVars == <<calls, pending, requests, remaddr, replies, returned, lost>>
allVars == <<vars, clientVars, during>>

REQUEST_PORT == 7   \* of lab4's nameserver.h; lab2's server does not know it

NoCall     == [id |-> 0, msg |-> BadRequest]
NoReturn   == [call |-> NoCall, id |-> 0, value |-> 0]
Request(c, t) == [id |-> c.id, to |-> Socket[t], msg |-> c.msg]

HeldFor(m) == {table[s].port : s \in {x \in DOMAIN table : m.msg_type = LOOKUP_PORT /\ x = m.name}}

CInit ==
  /\ Init
  /\ calls = 0
  /\ pending = [t \in Threads |-> NoCall]
  /\ requests = {} /\ replies = {}
  /\ remaddr = [id |-> 0, to |-> 0]
  /\ returned = [t \in Threads |-> NoReturn]
  /\ lost = {}
  /\ during = [t \in Threads |-> {}]

\* the call returns value v, having read the answer to call number id
Return(t, id, v) ==
  /\ returned' = [returned EXCEPT ![t] = [call |-> pending[t], id |-> id, value |-> v]]
  /\ pending' = [pending EXCEPT ![t] = NoCall]

\* do_request up to sendto
SendRequest(t, m) ==
  /\ pending[t] = NoCall /\ calls < MaxCalls
  /\ calls' = calls + 1
  /\ LET c == [id |-> calls + 1, msg |-> m] IN
       /\ pending' = [pending EXCEPT ![t] = c]
       /\ requests' = requests \cup {Request(c, t)}
  /\ during' = [during EXCEPT ![t] = HeldFor(m)]
  /\ UNCHANGED <<vars, remaddr, replies, returned, lost>>

\* sendto fails: -1, or an exception that ends the C# client
SendFails(t, m) ==
  /\ pending[t] = NoCall /\ calls < MaxCalls
  /\ calls' = calls + 1
  /\ returned' = [returned EXCEPT ![t] =
                    [call |-> [id |-> calls + 1, msg |-> m], id |-> calls + 1, value |-> -1]]
  /\ UNCHANGED <<vars, pending, requests, remaddr, replies, lost, during>>

Value(t, r) == IF r.status = SUCCESS \/ t \in CSharp THEN r.port ELSE -4

\* mutants of TakeReply: another socket's datagram; the status is not looked at
TakeReplyOfAny(t, r) ==
  /\ pending[t] # NoCall
  /\ Return(t, r.id, Value(t, r))
  /\ replies' = replies \ {r}
  /\ UNCHANGED <<vars, calls, requests, remaddr, lost, during>>
TakeReplyAnyStatus(t, r) ==
  /\ pending[t] # NoCall /\ r.to = Socket[t]
  /\ Return(t, r.id, r.port)
  /\ replies' = replies \ {r}
  /\ UNCHANGED <<vars, calls, requests, remaddr, lost, during>>

\* recvfrom returns the next datagram of the socket, whoever it was meant for
TakeReply(t, r) ==
  /\ pending[t] # NoCall /\ r.to = Socket[t]
  /\ Return(t, r.id, Value(t, r))
  /\ replies' = replies \ {r}
  /\ UNCHANGED <<vars, calls, requests, remaddr, lost, during>>

\* the server's recvfrom; a type it does not know fails to decode
Deliver(d) ==
  /\ IF d.msg \in Message THEN Receive(d.msg) ELSE ReceiveInvalid
  /\ remaddr' = [id |-> d.id, to |-> d.to]
  /\ requests' = requests \ {d}
  /\ UNCHANGED <<calls, pending, replies, returned, lost, during>>

\* mutant of Reply: failures are not answered
ReplyToSuccess ==
  /\ SendReply
  /\ replies' = IF req.status # SUCCESS THEN replies
                ELSE replies \cup {[id |-> remaddr.id, to |-> remaddr.to,
                                    status |-> req.status, port |-> req.port]}
  /\ UNCHANGED <<calls, pending, requests, remaddr, returned, lost, during>>

\* the server's sendto
Reply ==
  /\ SendReply
  /\ replies' = replies \cup {[id |-> remaddr.id, to |-> remaddr.to,
                               status |-> req.status, port |-> req.port]}
  /\ UNCHANGED <<calls, pending, requests, remaddr, returned, lost, during>>

Lose ==
  /\ Cardinality(lost) < MaxLost
  /\ \E d \in requests \cup replies :
       /\ requests' = requests \ {d} /\ replies' = replies \ {d}
       /\ lost' = lost \cup {d.id}
  /\ UNCHANGED <<vars, calls, pending, remaddr, returned, during>>

Process ==
  /\ \/ BeginSweep \/ (\E s \in sweep : SweepEntry(s)) \/ (\E t \in MsgType : PortsFull(t))
     \/ DefineService \/ KeepAlive \/ UpdateService \/ LookupServicePort \/ RemoveService
     \/ Shutdown
  /\ UNCHANGED clientVars
  /\ during' = [t \in Threads |-> during[t] \cup HeldFor(pending[t].msg)']

Server == Process \/ Reply \/ \E d \in requests : Deliver(d)

CNext ==
  \/ Server
  \/ Tick /\ UNCHANGED <<clientVars, during>>
  \/ \E t \in Threads : \E m \in Calls[t] : SendRequest(t, m) \/ SendFails(t, m)
  \/ \E t \in Threads : \E r \in replies : TakeReply(t, r)
  \/ Lose

CSpec == CInit /\ [][CNext]_allVars

\* The server runs and the network delivers to it; a blocked thread is woken when
\* a datagram is there for its socket.  Making calls and losing datagrams is no
\* one's duty.
CFairness ==
  /\ WF_allVars(Server)
  /\ \A t \in Threads : WF_allVars(\E r \in replies : TakeReply(t, r))
-------------------------------------------------------------------------------
\* A call returns the answer to the request it sent, although answers carry
\* nothing that ties them to a request (getport.c 99).  It rests on one thread
\* per socket.
OwnAnswer == \A t \in Threads : returned[t].id = returned[t].call.id

\* A look-up that returns a port returns one that the table held for that very name at
\* some instant between the call and its return: no answer that was decided before, and
\* none to another name (getport.c 131 with lookup_service_port, across lost and
\* reordered datagrams).  So does GetPort of Program.cs, which never looks at the status.
LookupWasHeld ==
  \A t \in Threads : LET r == returned[t] IN
    /\ pending[t] = NoCall /\ r.call.msg.msg_type = LOOKUP_PORT
    /\ r.value >= (IF t \in CSharp THEN 1 ELSE 0)
    => r.value \in during[t]

\* What has been decided of a call is the answer being prepared for it, or its answer
\* on the way back.
Outcomes(id) ==
  {<<r.status, r.port>> : r \in {q \in replies : q.id = id}}
    \cup (IF pc = "reply" /\ remaddr.id = id THEN {<<req.status, req.port>>} ELSE {})
Stage(c) == IF c = NoCall THEN "none" ELSE IF c.id \in lost THEN "lost" ELSE "asked"
CallsSeen ==
  [t \in Threads |-> [stage |-> Stage(pending[t]), msg |-> pending[t].msg,
                     outcome |-> Outcomes(pending[t].id)]]
Results == [t \in Threads |-> [msg |-> returned[t].call.msg, value |-> returned[t].value]]

Service == INSTANCE NameService
  WITH Capacity <- MaxPorts, Term <- KeepAliveTime,
       clock <- now, leases <- table, answer <- Decided,
       Thread <- Threads, Asks <- Calls, Trusting <- CSharp,
       ReadAs <- [n \in Name |-> CString(n)],
       call <- CallsSeen, result <- Results

\* Through threads, sockets, two queues of datagrams and the loop of the server, every call
\* takes effect once at most, at one instant while it is made, and returns what was
\* decided for it then (do_request of getport.c with main of oit_ns.cpp).
ImplementsService == Service!NSpec

\* Every call returns, unless its own request or answer was lost or the server
\* was stopped: nothing else ends the wait (getport.c 99 has no timeout).
CallReturns ==
  \A t \in Threads :
    pending[t] # NoCall ~> pending[t] = NoCall \/ pending[t].id \in lost \/ pc = "stopped"

\* getport.h 32-34: lookup_port is to "look up a port number for the specified
\* name" and return "the assigned port" of that name.
LookupAnswersTheName ==
  \A t \in Threads : returned[t].call.msg.msg_type = LOOKUP_PORT /\ returned[t].value >= 0
    => returned[t].id = returned[t].call.id
===============================================================================
