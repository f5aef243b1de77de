--------------------------- MODULE PortClient_proofs ---------------------------
(***************************************************************************)
(* A call of the library returns its own answer, a look-up a port that its *)
(* name held meanwhile, and every call takes effect at one instant, for    *)
(* every number of threads and calls, whatever is lost or overtaken, as    *)
(* long as no two threads share a socket.                                  *)
(***************************************************************************)
EXTENDS PortClient, NameServer_proofs

\* g_nameserver is a global of the process: one thread of each uses it.
OneSocketEach == \A t, u \in Threads : Socket[t] = Socket[u] => t = u

Asked == (UNION {Calls[t] : t \in Threads}) \cup {BadRequest}
Call  == [id : Nat, msg : Asked]

For(t, id) == pending[t] # NoCall /\ pending[t].id = id
WaitsFor(p, d) == \E t \in Threads : p[t] # NoCall /\ p[t].id = d.id /\ d.to = Socket[t]
Awaited(d) == WaitsFor(pending, d)
Served     == pc \notin Idle

CallsKnown ==
  /\ calls \in Nat
  /\ pending \in [Threads -> Call]
  /\ \A t \in Threads : pending[t] # NoCall => pending[t].msg \in Calls[t] /\ pending[t].id \in 1 .. calls
  /\ \A t, u \in Threads : For(t, pending[u].id) => t = u

\* Somebody waits for every datagram on its way, and for the one that is served.
InFlight ==
  /\ \A d \in requests \cup replies : Awaited(d)
  /\ Served => Awaited(remaddr)

\* A call is on its way to the server, or there, or on its way back.
OnlyOnce ==
  /\ \A d, e \in requests : d.id = e.id => d = e
  /\ \A r, q \in replies : r.id = q.id => r = q
  /\ \A d \in requests, r \in replies : d.id # r.id
  /\ Served => \A d \in requests \cup replies : d.id # remaddr.id

Returns == DOMAIN returned = Threads /\ OwnAnswer

Flights == CallsKnown /\ InFlight /\ OnlyOnce /\ Returns
-------------------------------------------------------------------------------
\* A thread that makes no call.
LEMMA NoCallFacts == NoCall \in Call /\ NoCall.id = 0
<1>1. BadRequest \in Asked
  BY DEF Asked
<1> QED
  BY <1>1 DEF NoCall, Call

\* Nothing is on its way at first.
LEMMA FlightsInit == CInit => Flights
<1> SUFFICES ASSUME CInit PROVE Flights
  OBVIOUS
<1>1. NoCall \in Call /\ NoCall.id = 0
  BY NoCallFacts
<1>2. CallsKnown
  BY <1>1 DEF CInit, CallsKnown, For
<1>3. InFlight /\ OnlyOnce
  BY DEF CInit, Init, InFlight, OnlyOnce, Served, Idle
<1>4. Returns
  BY DEF CInit, Returns, OwnAnswer, NoReturn, NoCall
<1> QED
  BY <1>2, <1>3, <1>4 DEF Flights

\* A new call has a number nothing on its way has.
LEMMA SendFlights ==
  ASSUME Flights, NEW t \in Threads, NEW m \in Calls[t], SendRequest(t, m)
  PROVE  Flights'
<1> DEFINE c == [id |-> calls + 1, msg |-> m]
<1>1. /\ pending[t] = NoCall /\ calls' = calls + 1
      /\ pending' = [pending EXCEPT ![t] = c] /\ requests' = requests \cup {Request(c, t)}
      /\ UNCHANGED <<pc, remaddr, replies, returned>>
  BY DEF SendRequest, vars
<1>2. calls \in Nat /\ calls + 1 \in Nat \ {0}
  BY DEF Flights, CallsKnown
<1>3. c \in Call /\ c.id = calls + 1 /\ c.msg = m /\ c # NoCall
  BY <1>2 DEF Call, Asked, NoCall
<1>4. Request(c, t).id = calls + 1 /\ Request(c, t).to = Socket[t]
  BY DEF Request
<1> HIDE DEF c
<1>5. /\ pending \in [Threads -> Call] /\ pending' \in [Threads -> Call]
      /\ \A u \in Threads : pending'[u] = IF u = t THEN c ELSE pending[u]
  BY <1>1, <1>3 DEF Flights, CallsKnown
<1>6. \A u \in Threads : pending[u] # NoCall => pending[u].id \in 1 .. calls /\ pending[u].id # calls + 1
  BY <1>2 DEF Flights, CallsKnown
<1>7. NoCall.id = 0
  BY DEF NoCall
<1>8. \A d : Awaited(d) => WaitsFor(pending', d) /\ d.id # calls + 1
  BY <1>1, <1>5, <1>6 DEF Awaited, WaitsFor, For
<1>9. CallsKnown'
  <2>1. \A u \in Threads : pending'[u] # NoCall => pending'[u].msg \in Calls[u] /\ pending'[u].id \in 1 .. calls + 1
    BY <1>2, <1>3, <1>5, <1>6 DEF Flights, CallsKnown
  <2>2. \A u, w \in Threads : pending'[u] # NoCall /\ pending'[u].id = pending'[w].id => u = w
    <3>1. \A u \in Threads \ {t} : pending[u].id # calls + 1
      BY <1>2, <1>6, <1>7
    <3> QED
      BY <1>3, <1>5, <3>1 DEF Flights, CallsKnown, For
  <2> QED
    BY <1>1, <1>2, <1>5, <2>1, <2>2 DEF CallsKnown, For
<1>10. InFlight'
  <2>1. \A d \in requests \cup replies : WaitsFor(pending', d)
    BY <1>8 DEF Flights, InFlight
  <2>2. WaitsFor(pending', Request(c, t))
    BY <1>3, <1>4, <1>5 DEF Awaited, WaitsFor, For
  <2>3. Served => WaitsFor(pending', remaddr)
    BY <1>8 DEF Flights, InFlight
  <2> QED
    BY <1>1, <2>1, <2>2, <2>3 DEF InFlight, Served, Awaited
<1>11. OnlyOnce'
  <2>1. \A d \in requests \cup replies : d.id # calls + 1
    BY <1>8 DEF Flights, InFlight
  <2>2. Served => remaddr.id # calls + 1
    BY <1>8 DEF Flights, InFlight
  <2> QED
    BY <1>1, <1>4, <2>1, <2>2 DEF Flights, OnlyOnce, Served
<1>12. Returns'
  BY <1>1 DEF Flights, Returns, OwnAnswer
<1> QED
  BY <1>9, <1>10, <1>11, <1>12 DEF Flights

\* A call that could not be sent has returned, and counts as answered by itself.
LEMMA SendFailsFlights ==
  ASSUME Flights, NEW t \in Threads, NEW m \in Calls[t], SendFails(t, m)
  PROVE  Flights'
<1> DEFINE r == [call |-> [id |-> calls + 1, msg |-> m], id |-> calls + 1, value |-> -1]
<1>1. /\ calls' = calls + 1 /\ returned' = [returned EXCEPT ![t] = r]
      /\ UNCHANGED <<pc, pending, requests, remaddr, replies>>
  BY DEF SendFails, vars
<1>2. r.id = r.call.id
  OBVIOUS
<1> HIDE DEF r
<1>3. CallsKnown'
  BY <1>1 DEF Flights, CallsKnown, For
<1>4. InFlight' /\ OnlyOnce'
  BY <1>1 DEF Flights, InFlight, OnlyOnce, Served, Awaited, WaitsFor, For
<1>5. Returns'
  BY <1>1, <1>2 DEF Flights, Returns, OwnAnswer
<1> QED
  BY <1>3, <1>4, <1>5 DEF Flights

\* The datagram at the socket of a thread is the answer to its call.
LEMMA TakesItsOwn ==
  ASSUME OneSocketEach, Flights, NEW t \in Threads, NEW r \in replies, TakeReply(t, r)
  PROVE  For(t, r.id)
<1>1. PICK u \in Threads : For(u, r.id) /\ r.to = Socket[u]
  BY DEF Flights, InFlight, Awaited, WaitsFor, For
<1>2. r.to = Socket[t]
  BY DEF TakeReply
<1> QED
  BY <1>1, <1>2 DEF OneSocketEach

\* A call that returns leaves nothing behind on the network.
LEMMA TakeFlights ==
  ASSUME OneSocketEach, Flights, NEW t \in Threads, NEW r \in replies, TakeReply(t, r)
  PROVE  Flights'
<1> DEFINE q == [call |-> pending[t], id |-> r.id, value |-> Value(t, r)]
<1>1. /\ returned' = [returned EXCEPT ![t] = q] /\ pending' = [pending EXCEPT ![t] = NoCall]
      /\ replies' = replies \ {r} /\ UNCHANGED <<pc, calls, requests, remaddr>>
  BY DEF TakeReply, Return, vars
<1>2. For(t, r.id)
  BY TakesItsOwn
<1>3. q.id = q.call.id
  BY <1>2 DEF For
<1> HIDE DEF q
<1>4. NoCall \in Call
  BY NoCallFacts
<1>5. /\ pending \in [Threads -> Call] /\ pending' \in [Threads -> Call]
      /\ \A u \in Threads : pending'[u] = IF u = t THEN NoCall ELSE pending[u]
  BY <1>1, <1>4 DEF Flights, CallsKnown
<1>6. \A d : Awaited(d) /\ d.id # r.id => WaitsFor(pending', d)
  BY <1>1, <1>2, <1>5 DEF Awaited, WaitsFor, For
<1>7. CallsKnown'
  <2>1. \A u, w \in Threads : For(u, pending[w].id) => u = w
    BY DEF Flights, CallsKnown
  <2>2. \A u, w \in Threads : pending'[u] # NoCall /\ pending'[u].id = pending'[w].id => u = w
    <3> SUFFICES ASSUME NEW u \in Threads, NEW w \in Threads, pending'[u] # NoCall,
                        pending'[u].id = pending'[w].id
                 PROVE  u = w
      OBVIOUS
    <3>1. u # t /\ pending'[u] = pending[u]
      BY <1>5
    <3>2. pending[u].id \in 1 .. calls /\ calls \in Nat /\ NoCall.id = 0
      BY <1>5, <3>1 DEF Flights, CallsKnown, NoCall
    <3>3. w # t
      BY <1>5, <3>1, <3>2
    <3> QED
      BY <1>5, <2>1, <3>1, <3>3 DEF For
  <2> QED
    BY <1>1, <1>5, <2>2 DEF Flights, CallsKnown, For
<1>8. InFlight'
  <2>1. \A d \in requests \cup (replies \ {r}) : WaitsFor(pending', d)
    BY <1>6 DEF Flights, InFlight, OnlyOnce
  <2>2. Served => WaitsFor(pending', remaddr)
    BY <1>6 DEF Flights, InFlight, OnlyOnce
  <2> QED
    BY <1>1, <2>1, <2>2 DEF InFlight, Served, Awaited
<1>9. OnlyOnce'
  BY <1>1 DEF Flights, OnlyOnce, Served
<1>10. Returns'
  BY <1>1, <1>3 DEF Flights, Returns, OwnAnswer
<1> QED
  BY <1>7, <1>8, <1>9, <1>10 DEF Flights

\* What the server and the network do leaves the calls as they are.
LEMMA DeliverFlights ==
  ASSUME Flights, NEW d \in requests, Deliver(d)
  PROVE  Flights'
<1>1. /\ pc = "recv" /\ remaddr' = [id |-> d.id, to |-> d.to] /\ requests' = requests \ {d}
      /\ UNCHANGED <<calls, pending, replies, returned>>
  BY DEF Deliver, Receive, ReceiveInvalid
<1>2. CallsKnown' /\ Returns'
  BY <1>1 DEF Flights, CallsKnown, Returns, OwnAnswer, For
<1>3. InFlight'
  BY <1>1 DEF Flights, InFlight, Awaited, WaitsFor, For
<1>4. OnlyOnce'
  BY <1>1 DEF Flights, OnlyOnce
<1> QED
  BY <1>2, <1>3, <1>4 DEF Flights

LEMMA ReplyFlights ==
  ASSUME Flights, Reply
  PROVE  Flights'
<1> DEFINE r == [id |-> remaddr.id, to |-> remaddr.to, status |-> req.status, port |-> req.port]
<1>1. /\ Served /\ ~Served' /\ replies' = replies \cup {r}
      /\ UNCHANGED <<calls, pending, requests, remaddr, returned>>
  BY DEF Reply, SendReply, Served, Idle
<1>2. r.id = remaddr.id /\ r.to = remaddr.to
  OBVIOUS
<1> HIDE DEF r
<1>3. CallsKnown' /\ Returns'
  BY <1>1 DEF Flights, CallsKnown, Returns, OwnAnswer, For
<1>4. InFlight'
  BY <1>1, <1>2 DEF Flights, InFlight, Awaited, WaitsFor, For
<1>5. OnlyOnce'
  BY <1>1, <1>2 DEF Flights, OnlyOnce
<1> QED
  BY <1>3, <1>4, <1>5 DEF Flights

LEMMA LoseFlights ==
  ASSUME Flights, Lose
  PROVE  Flights'
<1>1. /\ requests' \subseteq requests /\ replies' \subseteq replies
      /\ UNCHANGED <<pc, calls, pending, remaddr, returned>>
  BY DEF Lose, vars
<1>2. CallsKnown' /\ Returns'
  BY <1>1 DEF Flights, CallsKnown, Returns, OwnAnswer, For
<1>3. InFlight'
  BY <1>1 DEF Flights, InFlight, Awaited, WaitsFor, For, Served
<1>4. OnlyOnce'
  BY <1>1 DEF Flights, OnlyOnce, Served
<1> QED
  BY <1>2, <1>3, <1>4 DEF Flights

LEMMA QuietFlights ==
  ASSUME Flights, Served' => Served, UNCHANGED clientVars
  PROVE  Flights'
<1>1. UNCHANGED <<calls, pending, requests, remaddr, replies, returned>>
  BY DEF clientVars
<1>2. CallsKnown' /\ Returns'
  BY <1>1 DEF Flights, CallsKnown, Returns, OwnAnswer, For
<1>3. InFlight' /\ OnlyOnce'
  BY <1>1 DEF Flights, InFlight, OnlyOnce, Awaited, WaitsFor, For
<1> QED
  BY <1>2, <1>3 DEF Flights

\* Every step keeps who waits for what.
LEMMA FlightsNext ==
  ASSUME OneSocketEach, Flights, [CNext]_allVars
  PROVE  Flights'
<1>1. CASE Process
  <2>1. Served /\ UNCHANGED clientVars
    BY <1>1 DEF Process, Served, Idle, BeginSweep, SweepEntry, PortsFull, DefineService, KeepAlive,
       UpdateService, LookupServicePort, RemoveService, Shutdown, Handle
  <2> QED
    BY <2>1, QuietFlights
<1>2. CASE Reply
  BY <1>2, ReplyFlights
<1>3. ASSUME NEW d \in requests, Deliver(d) PROVE Flights'
  BY <1>3, DeliverFlights
<1>4. CASE Tick /\ UNCHANGED <<clientVars, during>>
  BY <1>4, QuietFlights DEF Tick, Served
<1>5. ASSUME NEW t \in Threads, NEW m \in Calls[t], SendRequest(t, m) \/ SendFails(t, m) PROVE Flights'
  BY <1>5, SendFlights, SendFailsFlights
<1>6. ASSUME NEW t \in Threads, NEW r \in replies, TakeReply(t, r) PROVE Flights'
  BY <1>6, TakeFlights
<1>7. CASE Lose
  BY <1>7, LoseFlights
<1>8. CASE UNCHANGED allVars
  BY <1>8, QuietFlights DEF allVars, vars, Served
<1> QED
  BY <1>1, <1>2, <1>3, <1>4, <1>5, <1>6, <1>7, <1>8 DEF CNext, Server

\* Every datagram is awaited by one call, when each thread has a socket.
THEOREM FlightsHold == OneSocketEach => (CSpec => []Flights)
<1> SUFFICES ASSUME OneSocketEach PROVE CSpec => []Flights
  OBVIOUS
<1>1. Flights /\ [CNext]_allVars => Flights'
  BY FlightsNext
<1> QED
  BY FlightsInit, <1>1, PTL DEF CSpec

\* A call returns the answer to its own request, however datagrams are lost and
\* overtake one another, when each thread has a socket (getport.c 99).
THEOREM OwnAnswerHolds == OneSocketEach => (CSpec => []OwnAnswer)
<1> SUFFICES ASSUME OneSocketEach PROVE CSpec => []OwnAnswer
  OBVIOUS
<1>1. Flights => OwnAnswer
  BY DEF Flights, Returns
<1> QED
  BY <1>1, FlightsHold, PTL
-------------------------------------------------------------------------------
USE DEF DEFINE_PORT, LOOKUP_PORT, KEEP_ALIVE, CLOSE_PORT, RESPONSE, STOP,
        SUCCESS, SERVICE_IN_USE, SERVICE_NOT_FOUND, ALL_PORTS_BUSY, INVALID_ARG, UNDEFINED_ERROR

\* do_request clears the request first, and its names are terminated.
Cleared ==
  /\ Unterminated = {}
  /\ \A t \in Threads : \A m \in Calls[t] : m.status = SUCCESS

\* What the table holds for a name that is being looked up has been seen.
Watched ==
  /\ DOMAIN during = Threads
  /\ \A t \in Threads : pending[t] # NoCall => HeldFor(pending[t].msg) \subseteq during[t]

\* A datagram holds what its call asked for.
Outgoing == \A d \in requests, t \in Threads : For(t, d.id) => pending[t].msg = d.msg

ServedIs(m) ==
  IF m \in Message THEN asked = m /\ key = m.name ELSE pc = "reply" /\ req = BadRequest
InService ==
  /\ pc # "reply_freed"
  /\ Served => \A t \in Threads : For(t, remaddr.id) => ServedIs(pending[t].msg)
  /\ pc = "reply" /\ asked.msg_type = LOOKUP_PORT /\ req.status # SUCCESS => req.port = asked.port

Told(t, r) ==
  LET m == pending[t].msg IN
    m.msg_type = LOOKUP_PORT =>
      IF r.status = SUCCESS THEN r.port \in during[t] ELSE r.port \in {0, m.port}
Answers == \A r \in replies, t \in Threads : For(t, r.id) => Told(t, r)

Content == Inv /\ Watched /\ Outgoing /\ InService /\ Answers /\ LookupWasHeld

\* The empty table and idle threads.
LEMMA ContentInit == CInit => Content
<1> SUFFICES ASSUME CInit PROVE Content
  OBVIOUS
<1>1. Inv
  BY InitInv DEF CInit
<1>2. DOMAIN table = {}
  BY DEF CInit, Init
<1>3. Watched /\ Outgoing /\ Answers /\ InService
  BY <1>2 DEF CInit, Init, Watched, Outgoing, Answers, InService, Served, Idle
<1>4. \A t \in Threads : returned[t].call.msg.msg_type # LOOKUP_PORT
  BY DEF CInit, NoReturn, NoCall, BadRequest
<1>5. LookupWasHeld
  BY <1>4 DEF LookupWasHeld
<1> QED
  BY <1>1, <1>3, <1>5 DEF Content

\* The server keeps its invariant among its clients.
LEMMA ServerKeepsInv ==
  ASSUME Inv, Process \/ SendReply \/ Tick \/ ReceiveInvalid \/ UNCHANGED vars
  PROVE  Inv'
<1>1. ASSUME NEW t \in MsgType, PortsFull(t) PROVE Next
  BY <1>1 DEF PortsFull, Next, ServerStep
<1>2. [Next]_vars
  BY <1>1 DEF Process, Next, ServerStep, Environment
<1> QED
  BY <1>2, NextInv

\* So it does when a datagram of any of them arrives.
LEMMA ReceiveKeepsInv ==
  ASSUME Inv, NEW m \in Message, Receive(m)
  PROVE  Inv'
<1>1. key' \in Name
  BY ServerAssumption DEF Receive, CString, Message
<1> QED
  BY <1>1 DEF Receive, Inv, TypeOK, RequestKnown, SweepDone, RoomFound, UpdateChecked, CapacityBound, Size,
     BusyOnlyWhenLeased, LookupTellsLivePort

\* A handler leaves the request alone, and an answer that is no success has its port.
LEMMA ProcessFacts ==
  ASSUME Inv, Process
  PROVE  /\ pc \in {"dispatch", "sweep", "update"} /\ UNCHANGED <<asked, key>>
         /\ Served' /\ pc' # "reply_freed"
         /\ pc' = "reply" /\ asked.msg_type = LOOKUP_PORT /\ req'.status # SUCCESS => req'.port = asked.port
<1>1. pc \in {"dispatch", "sweep", "update"} => req = asked
  BY DEF Inv, RequestKnown
<1>2. \A st : Respond(st) => req'.port = req.port /\ pc' = "reply"
  BY DEF Respond, Answer, AnswerPort
<1>3. \A p : AnswerPort(req, SUCCESS, p).status = SUCCESS
  BY DEF AnswerPort
<1>4. CASE BeginSweep
  BY <1>4 DEF BeginSweep, Served, Idle, request
<1>5. CASE \E s \in sweep : SweepEntry(s)
  BY <1>5 DEF SweepEntry, Served, Idle, request
<1>6. CASE \E t \in MsgType : PortsFull(t)
  BY <1>1, <1>2, <1>6 DEF PortsFull, Handle, Served, Idle
<1>7. CASE DefineService \/ KeepAlive
  BY <1>1, <1>2, <1>7 DEF DefineService, KeepAlive, Handle, Served, Idle
<1>8. CASE UpdateService
  BY <1>1, <1>2, <1>8 DEF UpdateService, Served, Idle
<1>9. CASE LookupServicePort
  BY <1>1, <1>2, <1>3, <1>9 DEF LookupServicePort, Handle, Served, Idle
<1>10. CASE RemoveService \/ Shutdown
  BY <1>1, <1>2, <1>10 DEF RemoveService, Shutdown, Handle, Served, Idle
<1> QED
  BY <1>4, <1>5, <1>6, <1>7, <1>8, <1>9, <1>10 DEF Process

\* A handler may change what the table holds; it is watched when it does.
LEMMA ProcessWatched ==
  ASSUME Content, Process
  PROVE  /\ Watched' /\ \A t \in Threads : during[t] \subseteq during'[t]
<1>1. UNCHANGED pending /\ during' = [t \in Threads |-> during[t] \cup HeldFor(pending[t].msg)']
  BY DEF Process, clientVars
<1> QED
  BY <1>1 DEF Watched

\* A handler works on the request of the call that waits for it.
LEMMA ProcessContent ==
  ASSUME Cleared, Flights, Content, Process, UNCHANGED clientVars
  PROVE  Content'
<1>1. /\ pc \in {"dispatch", "sweep", "update"} /\ UNCHANGED <<asked, key>> /\ Served /\ Served' /\ pc' # "reply_freed"
      /\ pc' = "reply" /\ asked.msg_type = LOOKUP_PORT /\ req'.status # SUCCESS => req'.port = asked.port
  BY ProcessFacts DEF Content, Served, Idle
<1>2. UNCHANGED <<calls, pending, requests, remaddr, replies, returned>>
  BY DEF clientVars
<1>3. Inv'
  BY ServerKeepsInv DEF Content
<1>4. Watched' /\ \A t \in Threads : during[t] \subseteq during'[t]
  BY ProcessWatched
<1>5. Outgoing' /\ Answers' /\ LookupWasHeld'
  BY <1>2, <1>4 DEF Content, Outgoing, Answers, Told, LookupWasHeld, For
<1>6. InService'
  <2>1. \A t \in Threads : For(t, remaddr.id) => pending[t].msg \in Message /\ ServedIs(pending[t].msg)
    BY <1>1 DEF Content, InService, ServedIs
  <2>2. \A t \in Threads : For(t, remaddr.id) => asked = pending[t].msg /\ key = pending[t].msg.name
    BY <2>1 DEF ServedIs
  <2> QED
    BY <1>1, <1>2, <2>1, <2>2 DEF InService, ServedIs, For
<1> QED
  BY <1>3, <1>4, <1>5, <1>6 DEF Content

\* What decode makes of a datagram is what the call asked for.
LEMMA DeliverContent ==
  ASSUME Cleared, Flights, Content, NEW d \in requests, Deliver(d)
  PROVE  Content'
<1>1. /\ remaddr'.id = d.id /\ requests' = requests \ {d}
      /\ UNCHANGED <<calls, pending, replies, returned, table, during>>
  BY DEF Deliver, Receive, ReceiveInvalid
<1>2. \A t \in Threads : For(t, d.id) => pending[t].msg = d.msg
  BY DEF Content, Outgoing
<1>3. Watched' /\ Outgoing' /\ Answers' /\ LookupWasHeld'
  BY <1>1 DEF Content, Watched, HeldFor, Outgoing, Answers, Told, LookupWasHeld, For
<1>4. CASE d.msg \in Message
  <2>1. Receive(d.msg) /\ pc' = "dispatch" /\ asked' = d.msg /\ key' = d.msg.name
    BY <1>4 DEF Deliver, Receive, CString, Cleared
  <2>2. Inv'
    BY <1>4, <2>1, ReceiveKeepsInv DEF Content
  <2>3. InService'
    BY <1>1, <1>2, <1>4, <2>1 DEF InService, ServedIs, For
  <2> QED
    BY <1>3, <2>2, <2>3 DEF Content
<1>5. CASE d.msg \notin Message
  <2>1. /\ ReceiveInvalid /\ pc' = "reply" /\ req' = BadRequest /\ asked' = BadRequest
    BY <1>5 DEF Deliver, ReceiveInvalid
  <2>2. Inv'
    BY <2>1, ServerKeepsInv DEF Content
  <2>3. asked'.msg_type # LOOKUP_PORT
    BY <2>1 DEF BadRequest
  <2>4. InService'
    BY <1>1, <1>2, <1>5, <2>1, <2>3 DEF InService, ServedIs, For
  <2> QED
    BY <1>3, <2>2, <2>4 DEF Content
<1> QED
  BY <1>4, <1>5

\* The answer to a look-up has a port that the table holds, or no success.
LEMMA ReplyContent ==
  ASSUME Flights, Content, Reply
  PROVE  Content'
<1> DEFINE r == [id |-> remaddr.id, to |-> remaddr.to, status |-> req.status, port |-> req.port]
<1>1. /\ SendReply /\ Served /\ ~Served' /\ pc' # "reply" /\ replies' = replies \cup {r}
      /\ UNCHANGED <<calls, pending, requests, returned, table, during>>
  BY DEF Reply, SendReply, Served, Idle
<1>2. r.id = remaddr.id /\ r.status = req.status /\ r.port = req.port
  OBVIOUS
<1> HIDE DEF r
<1>3. ASSUME NEW t \in Threads, For(t, r.id) PROVE Told(t, r)
  <2> DEFINE m == pending[t].msg
  <2>1. ServedIs(m)
    BY <1>1, <1>2, <1>3 DEF Content, InService
  <2> HIDE DEF m
  <2> SUFFICES ASSUME m.msg_type = LOOKUP_PORT
               PROVE  IF r.status = SUCCESS THEN r.port \in during[t] ELSE r.port \in {0, m.port}
    BY DEF Told, m
  <2>2. CASE m \notin Message
    <3>1. r.status # SUCCESS /\ r.port = 0
      BY <1>2, <2>1, <2>2 DEF ServedIs, BadRequest
    <3> QED
      BY <3>1
  <2>3. CASE m \in Message /\ pc = "reply"
    <3>1. asked = m /\ key = m.name
      BY <2>1, <2>3 DEF ServedIs
    <3>2. CASE req.status = SUCCESS
      <4>1. key \in DOMAIN table /\ table[key].port = req.port
        BY <2>3, <3>1, <3>2 DEF Content, Inv, LookupTellsLivePort
      <4>2. r.port \in HeldFor(m)
        BY <1>2, <3>1, <4>1 DEF HeldFor
      <4>3. HeldFor(m) \subseteq during[t]
        BY <1>3 DEF Content, Watched, For, m
      <4> QED
        BY <1>2, <3>2, <4>2, <4>3
    <3>3. CASE req.status # SUCCESS
      <4>1. req.port = m.port
        BY <2>3, <3>1, <3>3 DEF Content, InService
      <4> QED
        BY <1>2, <3>3, <4>1
    <3> QED
      BY <3>2, <3>3
  <2>4. pc = "reply"
    BY DEF Content, InService, Reply, SendReply
  <2> QED
    BY <2>2, <2>3, <2>4
<1>4. Inv'
  BY <1>1, ServerKeepsInv DEF Content
<1>5. Watched' /\ Outgoing' /\ LookupWasHeld'
  BY <1>1 DEF Content, Watched, HeldFor, Outgoing, LookupWasHeld, For
<1>6. InService'
  BY <1>1 DEF InService, Reply, SendReply
<1>7. Answers'
  BY <1>1, <1>3 DEF Content, Answers, Told, For
<1> QED
  BY <1>4, <1>5, <1>6, <1>7 DEF Content

\* What a call makes of its answer.
LEMMA TakeContent ==
  ASSUME OneSocketEach, Flights, Content, NEW t \in Threads, NEW r \in replies, TakeReply(t, r)
  PROVE  Content'
<1> DEFINE q == [call |-> pending[t], id |-> r.id, value |-> Value(t, r)]
<1>1. /\ returned' = [returned EXCEPT ![t] = q] /\ pending' = [pending EXCEPT ![t] = NoCall]
      /\ replies' = replies \ {r} /\ UNCHANGED <<vars, calls, requests, remaddr, during>>
  BY DEF TakeReply, Return
<1>2. For(t, r.id) /\ Told(t, r)
  BY TakesItsOwn DEF Content, Answers
<1>3. pending[t].msg \in Calls[t]
  BY <1>2 DEF Flights, CallsKnown, For
<1>4. q.call.msg = pending[t].msg /\ q.value = Value(t, r)
  OBVIOUS
<1> HIDE DEF q
<1>5. /\ DOMAIN pending = Threads /\ DOMAIN returned = Threads
      /\ \A u \in Threads : pending'[u] = IF u = t THEN NoCall ELSE pending[u]
      /\ \A u \in Threads : returned'[u] = IF u = t THEN q ELSE returned[u]
  BY <1>1 DEF Flights, CallsKnown, Returns
<1>6. \A u \in Threads : \A id : (pending'[u] # NoCall /\ pending'[u].id = id) => For(u, id) /\ pending'[u] = pending[u]
  BY <1>5 DEF For
<1>7. Inv' /\ Watched'
  <2>1. \A u \in Threads : pending'[u] # NoCall => pending[u] # NoCall /\ pending'[u] = pending[u]
    BY <1>5
  <2>2. Watched'
    BY <1>1, <2>1 DEF Content, Watched, HeldFor, vars
  <2> QED
    BY <1>1, <2>2, ServerKeepsInv DEF Content
<1>8. Outgoing' /\ Answers'
  BY <1>1, <1>6 DEF Content, Outgoing, Answers, Told, For
<1>9. InService'
  BY <1>1, <1>6 DEF Content, InService, Served, ServedIs, For, vars
<1>10. LookupWasHeld'
  <2>1. ASSUME pending[t].msg.msg_type = LOOKUP_PORT, q.value >= (IF t \in CSharp THEN 1 ELSE 0)
        PROVE  q.value \in during[t]
    <3>1. CASE r.status = SUCCESS
      <4>1. q.value = r.port
        BY <1>4, <3>1 DEF Value
      <4> QED
        BY <1>2, <2>1, <3>1, <4>1 DEF Told
    <3>2. CASE r.status # SUCCESS /\ t \in CSharp
      <4>1. pending[t].msg.port = 0
        BY <1>3, <3>2, ClientAssumption
      <4>2. q.value = 0
        BY <1>2, <1>4, <2>1, <3>2, <4>1 DEF Value, Told
      <4> QED
        BY <2>1, <3>2, <4>2
    <3>3. CASE r.status # SUCCESS /\ t \notin CSharp
      <4>1. q.value = -4
        BY <1>4, <3>3 DEF Value
      <4> QED
        BY <2>1, <3>3, <4>1
    <3> QED
      BY <3>1, <3>2, <3>3
  <2> QED
    BY <1>1, <1>4, <1>5, <2>1 DEF Content, LookupWasHeld
<1> QED
  BY <1>7, <1>8, <1>9, <1>10 DEF Content

\* A request holds what its call asks for, and changes nothing else.
LEMMA SendContent ==
  ASSUME Flights, Content, NEW t \in Threads, NEW m \in Calls[t], SendRequest(t, m)
  PROVE  Content'
<1> DEFINE c == [id |-> calls + 1, msg |-> m]
<1>1. /\ pending' = [pending EXCEPT ![t] = c] /\ requests' = requests \cup {Request(c, t)}
      /\ during' = [during EXCEPT ![t] = HeldFor(m)]
      /\ UNCHANGED <<vars, remaddr, replies, returned>>
  BY DEF SendRequest
<1>2. c.id = calls + 1 /\ c.msg = m /\ Request(c, t).id = calls + 1 /\ Request(c, t).msg = m
  BY DEF Request
<1> HIDE DEF c
<1>3. \A u \in Threads : pending'[u] = IF u = t THEN c ELSE pending[u]
  BY <1>1 DEF Flights, CallsKnown
<1>4. \A d : Awaited(d) => d.id # calls + 1
  BY DEF Flights, CallsKnown, Awaited, WaitsFor
<1>5. \A u \in Threads : \A d : Awaited(d) /\ pending'[u] # NoCall /\ pending'[u].id = d.id
        => For(u, d.id) /\ pending'[u] = pending[u]
  BY <1>2, <1>3, <1>4 DEF For
<1>6. \A u \in Threads : pending'[u] # NoCall /\ pending'[u].id = calls + 1 => pending'[u].msg = m
  BY <1>2, <1>3 DEF Flights, CallsKnown
<1>7. Inv' /\ Watched'
  <2>1. \A u \in Threads : during'[u] = IF u = t THEN HeldFor(m) ELSE during[u]
    BY <1>1 DEF Content, Watched
  <2>2. Watched'
    BY <1>1, <1>2, <1>3, <2>1 DEF Content, Watched, HeldFor, vars
  <2> QED
    BY <1>1, <2>2, ServerKeepsInv DEF Content
<1>8. Outgoing'
  <2>1. \A d \in requests : Awaited(d)
    BY DEF Flights, InFlight
  <2> QED
    BY <1>1, <1>2, <1>5, <1>6, <2>1 DEF Content, Outgoing, For
<1>9. Answers'
  <2>1. \A r \in replies : Awaited(r)
    BY DEF Flights, InFlight
  <2>2. \A u \in Threads, r \in replies :
          pending'[u] # NoCall /\ pending'[u].id = r.id => during'[u] = during[u]
    BY <1>1, <1>2, <1>3, <1>4, <2>1 DEF Content, Watched
  <2> QED
    BY <1>1, <1>5, <2>1, <2>2 DEF Content, Answers, Told, For
<1>10. InService'
  <2>1. Served => Awaited(remaddr)
    BY DEF Flights, InFlight
  <2>2. Served => \A u \in Threads : pending'[u] # NoCall /\ pending'[u].id = remaddr.id
                    => For(u, remaddr.id) /\ pending'[u] = pending[u]
    BY <1>5, <2>1
  <2> QED
    BY <1>1, <2>2 DEF Content, InService, Served, ServedIs, For, vars
<1>11. LookupWasHeld'
  <2>1. c # NoCall
    BY <1>2 DEF Flights, CallsKnown, NoCall
  <2>2. \A u \in Threads : pending'[u] = NoCall => u # t /\ pending[u] = NoCall
    BY <1>3, <2>1
  <2>3. \A u \in Threads : u # t => during'[u] = during[u]
    BY <1>1 DEF Content, Watched
  <2> QED
    BY <1>1, <2>2, <2>3 DEF Content, LookupWasHeld
<1> QED
  BY <1>7, <1>8, <1>9, <1>10, <1>11 DEF Content

\* The clock, the network, and calls that fail.
LEMMA OtherContent ==
  ASSUME Flights, Content,
         \/ Tick /\ UNCHANGED <<clientVars, during>>
         \/ Lose
         \/ \E t \in Threads : \E m \in Calls[t] : SendFails(t, m)
         \/ UNCHANGED allVars
  PROVE  Content'
<1>1. /\ UNCHANGED <<table, pc, req, key, asked, pending, remaddr, during>>
      /\ requests' \subseteq requests /\ replies' \subseteq replies
      /\ Tick \/ UNCHANGED vars
  BY DEF Tick, request, clientVars, Lose, SendFails, allVars, vars
<1>2. Inv'
  BY <1>1, ServerKeepsInv DEF Content
<1>3. Watched' /\ Outgoing' /\ Answers' /\ InService'
  BY <1>1 DEF Content, Watched, HeldFor, Outgoing, Answers, Told, InService, ServedIs, Served, For
<1>4. CASE UNCHANGED returned
  <2>1. LookupWasHeld'
    BY <1>1, <1>4 DEF Content, LookupWasHeld
  <2> QED
    BY <1>2, <1>3, <2>1 DEF Content
<1>5. ASSUME NEW t \in Threads, NEW m \in Calls[t], SendFails(t, m)
      PROVE  Content'
  <2> DEFINE q == [call |-> [id |-> calls + 1, msg |-> m], id |-> calls + 1, value |-> -1]
  <2>1. returned' = [returned EXCEPT ![t] = q] /\ q.value = -1
    BY <1>5 DEF SendFails
  <2> HIDE DEF q
  <2>2. \A u \in Threads : returned'[u] = IF u = t THEN q ELSE returned[u]
    BY <2>1 DEF Flights, Returns
  <2>3. LookupWasHeld'
    BY <1>1, <2>1, <2>2 DEF Content, LookupWasHeld
  <2> QED
    BY <1>2, <1>3, <2>3 DEF Content
<1> QED
  BY <1>4, <1>5 DEF clientVars, Lose, allVars

\* Every step keeps what datagrams hold.
LEMMA ContentNext ==
  ASSUME OneSocketEach, Cleared, Flights, Content, [CNext]_allVars
  PROVE  Content'
<1>1. CASE Process /\ UNCHANGED clientVars
  BY <1>1, ProcessContent
<1>2. CASE Reply
  BY <1>2, ReplyContent
<1>3. ASSUME NEW d \in requests, Deliver(d) PROVE Content'
  BY <1>3, DeliverContent
<1>4. ASSUME NEW t \in Threads, NEW m \in Calls[t], SendRequest(t, m) PROVE Content'
  BY <1>4, SendContent
<1>5. ASSUME NEW t \in Threads, NEW r \in replies, TakeReply(t, r) PROVE Content'
  BY <1>5, TakeContent
<1>6. CASE \/ Tick /\ UNCHANGED <<clientVars, during>>
           \/ Lose
           \/ \E t \in Threads : \E m \in Calls[t] : SendFails(t, m)
           \/ UNCHANGED allVars
  BY <1>6, OtherContent
<1>7. Process => UNCHANGED clientVars
  BY DEF Process
<1> QED
  BY <1>1, <1>2, <1>3, <1>4, <1>5, <1>6, <1>7 DEF CNext, Server

\* A look-up, of the library or of Program.cs, returns a port that the table held for its
\* name while it was made, when requests are cleared, names terminated, and sockets not
\* shared: not one of an entry gone before, nor of an answer to another call.
THEOREM LookupsAreTrue == OneSocketEach /\ Cleared => (CSpec => []LookupWasHeld)
<1> SUFFICES ASSUME OneSocketEach, Cleared PROVE CSpec => []LookupWasHeld
  OBVIOUS
<1>1. Flights /\ Content /\ [CNext]_allVars => Content'
  BY ContentNext
<1>2. CSpec => []Content
  BY ContentInit, FlightsHold, <1>1, PTL DEF CSpec
<1>3. Content => LookupWasHeld
  BY DEF Content
<1> QED
  BY <1>2, <1>3, PTL
-------------------------------------------------------------------------------
USE DEF Service!DEFINE_PORT, Service!LOOKUP_PORT, Service!KEEP_ALIVE, Service!CLOSE_PORT,
        Service!RESPONSE, Service!STOP, Service!SUCCESS, Service!SERVICE_IN_USE,
        Service!SERVICE_NOT_FOUND, Service!ALL_PORTS_BUSY, Service!INVALID_ARG, Service!UNDEFINED_ERROR,
        Registry!DEFINE_PORT, Registry!LOOKUP_PORT, Registry!KEEP_ALIVE, Registry!CLOSE_PORT,
        Registry!STOP, Registry!SUCCESS, Registry!SERVICE_IN_USE, Registry!SERVICE_NOT_FOUND,
        Registry!ALL_PORTS_BUSY, Registry!INVALID_ARG, Registry!UNDEFINED_ERROR

\* The service of the calls speaks of the registry as the name server does.
LEMMA SameOutcome ==
  ASSUME NEW t, NEW s, NEW p, NEW st, NEW told
  PROVE  /\ Service!Outcome(t, s, p, st, told) = Outcome(t, s, p, st, told)
         /\ Registry!Outcome(t, s, p, st, told) = Outcome(t, s, p, st, told)
BY DEF Service!Outcome, Registry!Outcome, Outcome

LEMMA SameNoOutcome == Service!NoOutcome = NoOutcome /\ Registry!NoOutcome = NoOutcome
BY SameOutcome DEF Service!NoOutcome, Registry!NoOutcome, NoOutcome

LEMMA SameDecide ==
  ASSUME NEW t, NEW s, NEW p, NEW st, NEW told
  PROVE  Registry!Decide(t, s, p, st, told) <=> Service!Decide(t, s, p, st, told)
BY SameOutcome, SameNoOutcome DEF Registry!Decide, Service!Decide

LEMMA SameRoom ==
  /\ Service!Held = Registry!Held
  /\ Service!Cardinality(Service!Held) = Registry!Cardinality(Registry!Held)
<1>1. Service!Held = Registry!Held
  BY DEF Service!Held, Registry!Held
<1>2. \A S : Service!Cardinality(S) = Registry!Cardinality(S)
  BY DEF Service!Cardinality, Registry!Cardinality, Service!IsFiniteSet, Registry!IsFiniteSet
<1> QED
  BY <1>1, <1>2

\* A step of one is a step of the other.
LEMMA SameNext == Registry!RNext => Service!RNext
<1>0. Registry!Held = Service!Held
  BY SameRoom
<1>1. \A s : Registry!Without(s) = Service!Without(s) /\ Registry!Over(s) = Service!Over(s)
             /\ Registry!Ending(s) = Service!Ending(s)
  BY <1>0 DEF Registry!Without, Service!Without, Registry!Over, Service!Over, Registry!Ending, Service!Ending
<1>2. \A s, p : Registry!With(s, p) = Service!With(s, p)
  BY <1>0 DEF Registry!With, Service!With
<1>3. Registry!Pass => Service!Pass
  BY DEF Registry!Pass, Service!Pass
<1>4. Registry!Deliver => Service!Deliver
  BY SameOutcome, SameNoOutcome DEF Registry!Deliver, Service!Deliver
<1>5. ASSUME NEW s, Registry!Drop(s) PROVE Service!Drop(s)
  BY <1>5, <1>0, <1>1 DEF Registry!Drop, Service!Drop
<1>6. ASSUME NEW s, Registry!Tell(s) PROVE Service!Tell(s)
  BY <1>6, <1>0, <1>1, SameDecide DEF Registry!Tell, Service!Tell
<1>7. ASSUME NEW s, NEW p, Registry!Grant(s, p) PROVE Service!Grant(s, p)
  BY <1>7, <1>0, <1>2, SameDecide, SameRoom DEF Registry!Grant, Service!Grant
<1>8. ASSUME NEW s, NEW p, Registry!Close(s, p) PROVE Service!Close(s, p)
  BY <1>8, <1>0, <1>1, SameDecide DEF Registry!Close, Service!Close
<1>9. ASSUME NEW t, NEW s, NEW p, Registry!Confirm(t, s, p) PROVE Service!Confirm(t, s, p)
  BY <1>9, <1>0, <1>1, SameDecide DEF Registry!Confirm, Service!Confirm
<1>10. ASSUME NEW t, NEW s, NEW p, Registry!Busy(t, s, p) PROVE Service!Busy(t, s, p)
  BY <1>10, <1>0, SameDecide, SameRoom DEF Registry!Busy, Service!Busy
<1>11. ASSUME NEW t, NEW s, NEW p, NEW st, Registry!Refuse(t, s, p, st) PROVE Service!Refuse(t, s, p, st)
  BY <1>11, <1>0, <1>1, SameDecide DEF Registry!Refuse, Service!Refuse
<1>12. Registry!MsgType = Service!MsgType /\ Registry!Status = Service!Status
  BY DEF Registry!MsgType, Service!MsgType, Registry!Status, Service!Status
<1> QED
  BY <1>3, <1>4, <1>5, <1>6, <1>7, <1>8, <1>9, <1>10, <1>11, <1>12 DEF Registry!RNext, Service!RNext

\* A step of the registry that decides nothing.
LEMMA Undecided ==
  ASSUME Registry!RNext, Decided' \in {Decided, NoOutcome}
  PROVE  Service!Pass \/ Service!Deliver \/ \E s \in Name : Service!Drop(s)
<1>1. \A t \in MsgType : \A s, p, st, told : ~Service!Decide(t, s, p, st, told)
  <2> SUFFICES ASSUME NEW t \in MsgType, NEW s, NEW p, NEW st, NEW told, Service!Decide(t, s, p, st, told)
               PROVE  FALSE
    OBVIOUS
  <2>1. Decided = NoOutcome /\ Decided' = Outcome(t, s, p, st, told)
    BY SameOutcome, SameNoOutcome DEF Service!Decide
  <2>2. Outcome(t, s, p, st, told).msg_type = t /\ NoOutcome.msg_type = 0 /\ t # 0
    BY DEF Outcome, NoOutcome, MsgType
  <2> QED
    BY <2>1, <2>2
<1>2. Service!RNext
  BY SameNext
<1>3. Service!MsgType = MsgType
  BY DEF Service!MsgType, MsgType
<1>4. \A s : ~Service!Tell(s)
  BY <1>1 DEF Service!Tell, MsgType
<1>5. \A s, p : ~Service!Grant(s, p) /\ ~Service!Close(s, p)
  BY <1>1 DEF Service!Grant, Service!Close, MsgType
<1>6. \A t \in MsgType : \A s, p, st : ~Service!Confirm(t, s, p) /\ ~Service!Busy(t, s, p) /\ ~Service!Refuse(t, s, p, st)
  BY <1>1 DEF Service!Confirm, Service!Busy, Service!Refuse
<1> QED
  BY <1>2, <1>3, <1>4, <1>5, <1>6 DEF Service!RNext

\* A datagram holds what its call asked for, and so does what is being served.
Conveyed ==
  /\ pc # "reply_freed"
  /\ Outgoing
  /\ Served => \A t \in Threads : For(t, remaddr.id) =>
       LET m == pending[t].msg IN
         IF m \in Message THEN asked = m /\ key \in CString(m.name)
         ELSE pc = "reply" /\ req = BadRequest /\ asked = BadRequest

\* Of a call that lost a datagram nothing is under way.
Gone ==
  /\ lost \subseteq 1 .. calls
  /\ \A d \in requests \cup replies : d.id \notin lost
  /\ Served => remaddr.id \notin lost

Conduct == Inv /\ Conveyed /\ Gone

LEMMA ConductInit == CInit => Conduct
<1> SUFFICES ASSUME CInit PROVE Conduct
  OBVIOUS
<1>1. Inv
  BY InitInv DEF CInit
<1>2. Conveyed /\ Gone
  BY DEF CInit, Init, Conveyed, Outgoing, Gone, Served, Idle
<1> QED
  BY <1>1, <1>2 DEF Conduct

\* The server works on the request it decoded, and the calls stay as they are.
LEMMA ProcessConduct ==
  ASSUME Conduct, Process
  PROVE  Conduct'
<1>1. /\ pc \in {"dispatch", "sweep", "update"} /\ UNCHANGED <<asked, key>> /\ Served /\ pc' # "reply_freed"
  BY ProcessFacts DEF Conduct, Served, Idle
<1>2. UNCHANGED <<calls, pending, requests, remaddr, replies, lost>>
  BY DEF Process, clientVars
<1>3. Inv'
  BY ServerKeepsInv DEF Conduct
<1>4. Conveyed'
  BY <1>1, <1>2 DEF Conduct, Conveyed, Outgoing, For
<1>5. Gone'
  BY <1>1, <1>2 DEF Conduct, Gone
<1> QED
  BY <1>3, <1>4, <1>5 DEF Conduct

\* The call whose datagram arrives is served from then on.
LEMMA DeliverConduct ==
  ASSUME Conduct, NEW d \in requests, Deliver(d)
  PROVE  Conduct'
<1>1. /\ remaddr'.id = d.id /\ requests' \subseteq requests
      /\ UNCHANGED <<calls, pending, replies, lost>>
  BY DEF Deliver
<1>2. Outgoing' /\ \A t \in Threads : For(t, d.id) => pending[t].msg = d.msg
  BY <1>1 DEF Conduct, Conveyed, Outgoing, For
<1>3. Gone'
  BY <1>1 DEF Conduct, Gone
<1>4. CASE d.msg \in Message
  <2>1. Receive(d.msg) /\ pc' = "dispatch" /\ asked' = d.msg /\ key' \in CString(d.msg.name)
    BY <1>4 DEF Deliver, Receive
  <2>2. Inv'
    BY <1>4, <2>1, ReceiveKeepsInv DEF Conduct
  <2>3. Conveyed'
    BY <1>1, <1>2, <1>4, <2>1 DEF Conveyed, For
  <2> QED
    BY <1>3, <2>2, <2>3 DEF Conduct
<1>5. CASE d.msg \notin Message
  <2>1. ReceiveInvalid /\ pc' = "reply" /\ req' = BadRequest /\ asked' = BadRequest
    BY <1>5 DEF Deliver, ReceiveInvalid
  <2>2. Inv'
    BY <2>1, ServerKeepsInv DEF Conduct
  <2>3. Conveyed'
    BY <1>1, <1>2, <1>5, <2>1 DEF Conveyed, For
  <2> QED
    BY <1>3, <2>2, <2>3 DEF Conduct
<1> QED
  BY <1>4, <1>5

LEMMA ReplyConduct ==
  ASSUME Conduct, Reply
  PROVE  Conduct'
<1> DEFINE r == [id |-> remaddr.id, to |-> remaddr.to, status |-> req.status, port |-> req.port]
<1>1. /\ Served /\ pc' \in Idle /\ replies' = replies \cup {r}
      /\ UNCHANGED <<calls, pending, requests, remaddr, lost>>
  BY DEF Reply, SendReply, Served, Idle, Conduct, Conveyed
<1>2. r.id = remaddr.id
  OBVIOUS
<1> HIDE DEF r
<1>3. Inv'
  BY ServerKeepsInv DEF Conduct, Reply
<1>4. Conveyed'
  BY <1>1 DEF Conduct, Conveyed, Outgoing, For, Served, Idle
<1>5. Gone'
  BY <1>1, <1>2 DEF Conduct, Gone, Served
<1> QED
  BY <1>3, <1>4, <1>5 DEF Conduct

\* A new call's number is that of no other, nor of a call that was lost.
LEMMA SendConduct ==
  ASSUME Flights, Conduct, NEW t \in Threads, NEW m \in Calls[t], SendRequest(t, m)
  PROVE  Conduct'
<1> DEFINE c == [id |-> calls + 1, msg |-> m]
<1>1. /\ pending' = [pending EXCEPT ![t] = c] /\ requests' = requests \cup {Request(c, t)} /\ calls' = calls + 1
      /\ UNCHANGED <<vars, remaddr, replies, lost>>
  BY DEF SendRequest
<1>2. c.id = calls + 1 /\ c.msg = m /\ Request(c, t).id = calls + 1 /\ Request(c, t).msg = m
  BY DEF Request
<1> HIDE DEF c
<1>3. calls \in Nat /\ (\A u \in Threads : pending'[u] = IF u = t THEN c ELSE pending[u])
  BY <1>1 DEF Flights, CallsKnown
<1>4. /\ \A d \in requests : Awaited(d)
      /\ Served => Awaited(remaddr)
  BY DEF Flights, InFlight
<1>5. \A d : Awaited(d) => d.id # calls + 1
  BY <1>3 DEF Flights, CallsKnown, Awaited, WaitsFor
<1>6. Inv'
  BY <1>1, ServerKeepsInv DEF Conduct
<1>7. Outgoing'
  <2> SUFFICES ASSUME NEW d \in requests', NEW u \in Threads, For(u, d.id)'
               PROVE  pending'[u].msg = d.msg
    BY DEF Outgoing
  <2>1. CASE d \in requests
    BY <1>2, <1>3, <1>4, <1>5, <2>1 DEF Conduct, Conveyed, Outgoing, For
  <2>2. CASE d = Request(c, t)
    <3>1. u # t => pending[u].id \in 1 .. calls
      BY <1>3, <2>2 DEF Flights, CallsKnown, For
    <3> QED
      BY <1>2, <1>3, <2>2, <3>1 DEF For
  <2> QED
    BY <1>1, <2>1, <2>2
<1>8. Conveyed'
  <2>1. Served' => \A u \in Threads : For(u, remaddr.id)' => For(u, remaddr.id) /\ pending'[u] = pending[u]
    BY <1>1, <1>2, <1>3, <1>4, <1>5 DEF For, Served, vars
  <2> QED
    BY <1>1, <1>7, <2>1 DEF Conduct, Conveyed, Served, vars
<1>9. Gone'
  BY <1>1, <1>2, <1>3 DEF Conduct, Gone, Served, vars
<1> QED
  BY <1>6, <1>8, <1>9 DEF Conduct

\* What fails to be sent, what is taken, what is lost and the clock change no datagram.
LEMMA OtherConduct ==
  ASSUME Flights, Conduct,
         \/ \E t \in Threads : \E m \in Calls[t] : SendFails(t, m)
         \/ \E t \in Threads : \E r \in replies : TakeReply(t, r)
         \/ Lose
         \/ Tick /\ UNCHANGED <<clientVars, during>>
         \/ UNCHANGED allVars
  PROVE  Conduct'
<1>1. Inv'
  BY ServerKeepsInv DEF Conduct, SendFails, TakeReply, Lose, allVars
<1>2. UNCHANGED <<pc, req, key, asked, remaddr>>
  BY DEF SendFails, TakeReply, Lose, Tick, request, clientVars, allVars, vars
<1>3. Served' <=> Served
  BY <1>2 DEF Served
<1>4. requests' \subseteq requests /\ replies' \subseteq replies
  BY DEF SendFails, TakeReply, Lose, clientVars, allVars
<1>5. \A u \in Threads : \A id : id # 0 /\ For(u, id)' => For(u, id) /\ pending'[u] = pending[u]
  <2>1. ASSUME NEW t \in Threads, NEW r \in replies, TakeReply(t, r)
        PROVE  \A u \in Threads : pending'[u] = NoCall \/ pending'[u] = pending[u]
    BY <2>1 DEF TakeReply, Return, Flights, CallsKnown
  <2>2. UNCHANGED pending \/ \A u \in Threads : pending'[u] = NoCall \/ pending'[u] = pending[u]
    BY <2>1 DEF SendFails, Lose, clientVars, allVars
  <2> QED
    BY <2>2 DEF For
<1>6. \A d : Awaited(d) => d.id # 0
  BY DEF Flights, CallsKnown, Awaited, WaitsFor
<1>7. Conveyed'
  <2>1. Outgoing'
    BY <1>4, <1>5, <1>6 DEF Conduct, Conveyed, Outgoing, Flights, InFlight
  <2>2. Served => \A u \in Threads : For(u, remaddr.id)' => For(u, remaddr.id) /\ pending'[u] = pending[u]
    BY <1>2, <1>5, <1>6 DEF Flights, InFlight
  <2> QED
    BY <1>2, <1>3, <2>1, <2>2 DEF Conduct, Conveyed
<1>8. Gone'
  <2>1. CASE Lose
    <3>1. PICK d \in requests \cup replies :
            requests' = requests \ {d} /\ replies' = replies \ {d} /\ lost' = lost \cup {d.id}
      BY <2>1 DEF Lose
    <3>2. UNCHANGED calls
      BY <2>1 DEF Lose
    <3>3. d.id \in 1 .. calls
      BY DEF Flights, InFlight, CallsKnown, Awaited, WaitsFor
    <3>4. \A e \in requests' \cup replies' : e.id # d.id
      BY <3>1 DEF Flights, OnlyOnce
    <3>5. Served => remaddr.id # d.id
      BY DEF Flights, OnlyOnce
    <3> QED
      BY <1>2, <1>3, <1>4, <3>1, <3>2, <3>3, <3>4, <3>5 DEF Conduct, Gone
  <2>2. CASE UNCHANGED lost
    <3>1. calls \in Nat /\ calls' \in {calls, calls + 1}
      BY DEF Flights, CallsKnown, SendFails, TakeReply, Lose, clientVars, allVars
    <3> QED
      BY <1>2, <1>3, <1>4, <2>2, <3>1 DEF Conduct, Gone
  <2> QED
    BY <2>1, <2>2 DEF SendFails, TakeReply, clientVars, allVars
<1> QED
  BY <1>1, <1>7, <1>8 DEF Conduct

LEMMA ConductNext == Flights /\ Conduct /\ [CNext]_allVars => Conduct'
<1> SUFFICES ASSUME Flights, Conduct, [CNext]_allVars PROVE Conduct'
  OBVIOUS
<1>1. CASE Process
  BY <1>1, ProcessConduct
<1>2. CASE Reply
  BY <1>2, ReplyConduct
<1>3. ASSUME NEW d \in requests, Deliver(d) PROVE Conduct'
  BY <1>3, DeliverConduct
<1>4. ASSUME NEW t \in Threads, NEW m \in Calls[t], SendRequest(t, m) PROVE Conduct'
  BY <1>4, SendConduct
<1>5. CASE \/ \E t \in Threads : \E m \in Calls[t] : SendFails(t, m)
           \/ \E t \in Threads : \E r \in replies : TakeReply(t, r)
           \/ Lose
           \/ Tick /\ UNCHANGED <<clientVars, during>>
           \/ UNCHANGED allVars
  BY <1>5, OtherConduct
<1> QED
  BY <1>1, <1>2, <1>3, <1>4, <1>5 DEF CNext, Server

-------------------------------------------------------------------------------
\* A call of which nothing was decided, and how it differs from the others.
LEMMA NotYet ==
  ASSUME Flights, NEW t \in Threads, NEW id, For(t, id), id \notin lost,
         \A r \in replies : r.id # id, pc = "reply" => remaddr.id # id
  PROVE  /\ CallsSeen[t] = [stage |-> "asked", msg |-> pending[t].msg, outcome |-> {}]
         /\ \A u \in Threads \ {t} : pending[u].id # id
<1>1. pending[t] # NoCall /\ pending[t].id = id
  BY DEF For
<1>2. Stage(pending[t]) = "asked"
  BY <1>1 DEF Stage
<1>3. Outcomes(id) = {}
  BY DEF Outcomes
<1>4. ASSUME NEW u \in Threads \ {t}, pending[u].id = id PROVE FALSE
  BY <1>1, <1>4 DEF Flights, CallsKnown, For
<1> QED
  BY <1>1, <1>2, <1>3, <1>4 DEF CallsSeen

\* A thread that makes no call is seen to make none.
LEMMA NothingSeen ==
  ASSUME Flights
  PROVE  /\ Outcomes(0) = {}
         /\ \A t \in Threads : pending[t] = NoCall => CallsSeen[t] = Service!NoRequest
<1>1. \A d : Awaited(d) => d.id # 0
  BY DEF Flights, CallsKnown, Awaited, WaitsFor
<1>2. Outcomes(0) = {}
  BY <1>1 DEF Flights, InFlight, Outcomes, Served, Idle
<1>3. Service!BadRequest = BadRequest
  BY DEF Service!BadRequest, BadRequest
<1> QED
  BY <1>2, <1>3 DEF CallsSeen, NoCall, Stage, Service!NoRequest

\* What is decided of one call is decided of no other.
LEMMA ToldOne ==
  ASSUME Flights, NEW t \in Threads, NEW id, For(t, id), id \notin lost, NEW status, NEW port,
         \A r \in replies : r.id # id, pc # "reply", pc' = "reply",
         remaddr'.id = id, req'.status = status, req'.port = port,
         UNCHANGED <<pending, replies, returned, lost>>
  PROVE  Service!Told(t, status, port)
<1>1. /\ CallsSeen[t] = [stage |-> "asked", msg |-> pending[t].msg, outcome |-> {}]
      /\ \A u \in Threads \ {t} : pending[u].id # id
  BY NotYet
<1>2. pending[t].id = id
  BY DEF For
<1>3. Outcomes(id)' = {<<status, port>>}
  BY DEF Outcomes
<1>4. \A u \in Threads \ {t} : Outcomes(pending[u].id)' = Outcomes(pending[u].id)
  BY <1>1 DEF Outcomes
<1>5. \A u \in Threads : Stage(pending[u])' = Stage(pending[u])
  BY DEF Stage
<1>6. \A u \in Threads \ {t} : CallsSeen'[u] = CallsSeen[u]
  BY <1>4, <1>5 DEF CallsSeen
<1>7. CallsSeen'[t] = [stage |-> "asked", msg |-> pending[t].msg, outcome |-> {<<status, port>>}]
  BY <1>1, <1>2, <1>3, <1>5 DEF CallsSeen
<1>8. CallsSeen' = [CallsSeen EXCEPT ![t].outcome = {<<status, port>>}]
  <2>1. DOMAIN CallsSeen = Threads /\ CallsSeen' = [u \in Threads |-> CallsSeen'[u]]
    BY DEF CallsSeen
  <2>2. CallsSeen'[t] = [CallsSeen[t] EXCEPT !.outcome = {<<status, port>>}]
    BY <1>1, <1>7
  <2>3. [CallsSeen EXCEPT ![t].outcome = {<<status, port>>}] =
          [u \in Threads |-> IF u = t THEN [CallsSeen[t] EXCEPT !.outcome = {<<status, port>>}] ELSE CallsSeen[u]]
    BY <2>1
  <2> QED
    BY <1>6, <2>1, <2>2, <2>3
<1>9. UNCHANGED Results
  BY DEF Results
<1> QED
  BY <1>1, <1>8, <1>9 DEF Service!Told

\* What the calls look like depends on few variables.
LEMMA SeenSame ==
  ASSUME UNCHANGED <<pending, returned, lost>>, \A id : Outcomes(id)' = Outcomes(id)
  PROVE  UNCHANGED <<CallsSeen, Results>>
BY DEF CallsSeen, Results, Stage

\* A step of the server that decides nothing is one the calls do not see.
LEMMA ServerHidden ==
  ASSUME Inv, Inv', [Next]_vars, Decided' \in {Decided, NoOutcome},
         UNCHANGED <<CallsSeen, Results>>
  PROVE  Service!Background \/ UNCHANGED <<Service!rvars, CallsSeen, Results>>
<1>1. [Registry!RNext]_(Registry!rvars)
  BY RefineNext
<1>2. CASE Registry!RNext
  BY <1>2, Undecided DEF Service!Background
<1>3. CASE UNCHANGED Registry!rvars
  BY <1>3 DEF Registry!rvars, Service!rvars
<1> QED
  BY <1>1, <1>2, <1>3

\* The answer that is being prepared decides the call of one thread.
LEMMA ProcessServes ==
  ASSUME Flights, Conduct, Conduct', Process
  PROVE  Service!NNext \/ UNCHANGED <<Service!rvars, CallsSeen, Results>>
<1>1. /\ pc \in {"dispatch", "sweep", "update"} /\ UNCHANGED <<asked, key>>
      /\ UNCHANGED <<pending, replies, remaddr, returned, lost>> /\ Served
  BY ProcessFacts DEF Conduct, Process, clientVars, Served, Idle
<1>2. Inv /\ Inv' /\ [Next]_vars
  <2>1. ASSUME NEW t \in MsgType, PortsFull(t) PROVE Next
    BY <2>1 DEF PortsFull, Next, ServerStep
  <2> QED
    BY <2>1 DEF Conduct, Process, Next, ServerStep
<1>3. Decided = NoOutcome
  BY <1>1 DEF Decided
<1>4. CASE pc' # "reply"
  <2>1. \A id : Outcomes(id)' = Outcomes(id)
    BY <1>1, <1>4 DEF Outcomes
  <2>2. Decided' = NoOutcome
    BY <1>4 DEF Decided
  <2> QED
    BY <1>1, <1>2, <2>1, <2>2, SeenSame, ServerHidden DEF Service!NNext
<1>5. CASE pc' = "reply"
  <2>1. PICK t \in Threads : For(t, remaddr.id)
    BY <1>1 DEF Flights, InFlight, Awaited, WaitsFor, For
  <2> DEFINE m == pending[t].msg
  <2>2. m \in Message /\ asked = m /\ key \in CString(m.name)
    BY <1>1, <2>1 DEF Conduct, Conveyed
  <2>3. CallsSeen[t].msg = m
    BY DEF CallsSeen
  <2>4. remaddr.id \notin lost /\ \A r \in replies : r.id # remaddr.id
    BY <1>1 DEF Conduct, Gone, Flights, OnlyOnce
  <2>5. Service!Told(t, req'.status, req'.port)
    BY <1>1, <1>5, <2>1, <2>4, ToldOne
  <2> HIDE DEF m
  <2>6. CASE asked.msg_type \in DEFINE_PORT .. CLOSE_PORT
    <3>1. Decided' = Outcome(m.msg_type, key, m.port, req'.status, req'.port)
      BY <1>1, <1>5, <2>2, <2>6 DEF Decided
    <3>2. /\ Decided'.msg_type = m.msg_type /\ Decided'.name = key /\ Decided'.port = m.port
          /\ Decided'.status = req'.status /\ Decided'.told = req'.port
      BY <3>1 DEF Outcome
    <3>3. Decided' # NoOutcome
      BY <2>2, <2>6, <3>2 DEF NoOutcome, Outcome
    <3>4. Service!RNext
      BY <1>2, <1>3, <3>3, RefineNext, SameNext DEF Registry!rvars
    <3>5. key \in [n \in Name |-> CString(n)][m.name]
      BY <2>2 DEF Message
    <3>6. Service!TakeEffect(t)
      BY <1>3, <2>3, <2>5, <3>2, <3>3, <3>4, <3>5, SameNoOutcome DEF Service!TakeEffect
    <3> QED
      BY <3>6 DEF Service!NNext
  <2>7. CASE asked.msg_type \notin DEFINE_PORT .. CLOSE_PORT
    <3>1. req = asked
      BY <1>1 DEF Conduct, Inv, RequestKnown
    <3>2. asked.msg_type \notin {DEFINE_PORT, LOOKUP_PORT, KEEP_ALIVE, CLOSE_PORT}
      BY <2>7
    <3>3. Shutdown
      BY <1>1, <1>5, <3>1, <3>2 DEF Process, BeginSweep, SweepEntry, PortsFull, DefineService, KeepAlive,
         UpdateService, LookupServicePort, RemoveService, Handle, Conduct, Inv, RequestKnown
    <3>4. req'.status = SUCCESS /\ req'.port = m.port /\ UNCHANGED <<now, table>>
      BY <2>2, <3>1, <3>3 DEF Shutdown, Respond, Answer, AnswerPort
    <3>5. UNCHANGED Service!rvars
      BY <1>1, <1>3, <2>7, <3>4 DEF Service!rvars, Decided
    <3>6. Service!Message = Message
      BY DEF Service!Message, Message, Service!MsgType, MsgType, Service!Status, Status
    <3>7. Service!NoEffect(t)
      BY <2>2, <2>3, <2>5, <2>7, <3>4, <3>5, <3>6 DEF Service!NoEffect
    <3> QED
      BY <3>7 DEF Service!NNext
  <2> QED
    BY <2>6, <2>7
<1> QED
  BY <1>4, <1>5

\* The service does not see a request arrive, unless it is none.
LEMMA DeliverServes ==
  ASSUME Flights, Conduct, NEW d \in requests, Deliver(d)
  PROVE  Service!NNext \/ UNCHANGED <<Service!rvars, CallsSeen, Results>>
<1>1. /\ pc = "recv" /\ remaddr'.id = d.id
      /\ UNCHANGED <<now, table, pending, replies, returned, lost>>
  BY DEF Deliver, Receive, ReceiveInvalid
<1>2. Decided = NoOutcome
  BY <1>1 DEF Decided
<1>3. CASE d.msg \in Message
  <2>1. pc' = "dispatch"
    BY <1>3 DEF Deliver, Receive
  <2>2. \A id : Outcomes(id)' = Outcomes(id)
    BY <1>1, <2>1 DEF Outcomes
  <2>3. UNCHANGED Service!rvars
    BY <1>1, <1>2, <2>1 DEF Service!rvars, Decided
  <2> QED
    BY <1>1, <2>2, <2>3, SeenSame
<1>4. CASE d.msg \notin Message
  <2>1. pc' = "reply" /\ req' = BadRequest /\ asked' = BadRequest
    BY <1>4 DEF Deliver, ReceiveInvalid
  <2>2. req'.status = UNDEFINED_ERROR /\ req'.port = 0 /\ asked'.msg_type = RESPONSE
    BY <2>1 DEF BadRequest
  <2>3. PICK t \in Threads : For(t, d.id)
    BY DEF Flights, InFlight, Awaited, WaitsFor, For
  <2>4. CallsSeen[t].msg = d.msg
    BY <2>3 DEF CallsSeen, Conduct, Conveyed, Outgoing
  <2>5. d.id \notin lost /\ \A r \in replies : r.id # d.id
    BY DEF Conduct, Gone, Flights, OnlyOnce
  <2>6. Service!Told(t, UNDEFINED_ERROR, 0)
    BY <1>1, <2>1, <2>2, <2>3, <2>5, ToldOne
  <2>7. UNCHANGED Service!rvars
    BY <1>1, <1>2, <2>2 DEF Service!rvars, Decided
  <2>8. Service!Message = Message
    BY DEF Service!Message, Message, Service!MsgType, MsgType, Service!Status, Status
  <2>9. Service!NoEffect(t)
    BY <1>4, <2>4, <2>6, <2>7, <2>8 DEF Service!NoEffect
  <2> QED
    BY <2>9 DEF Service!NNext
<1> QED
  BY <1>3, <1>4

\* The answer leaves the server, and is still the same answer.
LEMMA ReplyServes ==
  ASSUME Conduct, Conduct', Reply
  PROVE  Service!NNext \/ UNCHANGED <<Service!rvars, CallsSeen, Results>>
<1> DEFINE r == [id |-> remaddr.id, to |-> remaddr.to, status |-> req.status, port |-> req.port]
<1>1. /\ pc = "reply" /\ pc' # "reply" /\ SendReply /\ replies' = replies \cup {r}
      /\ UNCHANGED <<req, remaddr, pending, returned, lost>>
  BY DEF Reply, SendReply, request, Conduct, Conveyed
<1>2. r.id = remaddr.id /\ r.status = req.status /\ r.port = req.port
  OBVIOUS
<1> HIDE DEF r
<1>3. \A id : Outcomes(id)' = Outcomes(id)
  <2> SUFFICES ASSUME NEW id PROVE Outcomes(id)' = Outcomes(id)
    OBVIOUS
  <2>1. CASE id = remaddr.id
    BY <1>1, <1>2, <2>1 DEF Outcomes
  <2>2. CASE id # remaddr.id
    BY <1>1, <1>2, <2>2 DEF Outcomes
  <2> QED
    BY <2>1, <2>2
<1>4. Decided' = NoOutcome
  BY <1>1 DEF Decided
<1>5. [Next]_vars
  BY <1>1 DEF Next, ServerStep
<1> QED
  BY <1>1, <1>3, <1>4, <1>5, SeenSame, ServerHidden DEF Conduct, Service!NNext

\* A call begins with nothing decided of it.
LEMMA SendServes ==
  ASSUME Flights, Conduct, NEW t \in Threads, NEW m \in Calls[t], SendRequest(t, m)
  PROVE  Service!Begin(t, m)
<1> DEFINE c == [id |-> calls + 1, msg |-> m]
<1>1. /\ pending[t] = NoCall /\ pending' = [pending EXCEPT ![t] = c]
      /\ UNCHANGED <<vars, remaddr, replies, returned, lost>>
  BY DEF SendRequest
<1>2. calls \in Nat /\ (\A u \in Threads : pending'[u] = IF u = t THEN c ELSE pending[u])
  BY <1>1 DEF Flights, CallsKnown
<1>3. c # NoCall /\ c.id = calls + 1 /\ c.msg = m
  BY <1>2 DEF NoCall
<1> HIDE DEF c
<1>4. \A d : Awaited(d) => d.id # calls + 1
  BY <1>2 DEF Flights, CallsKnown, Awaited, WaitsFor
<1>5. Outcomes(calls + 1) = {} /\ calls + 1 \notin lost
  BY <1>2, <1>4 DEF Outcomes, Flights, InFlight, Served, Idle, Conduct, Gone
<1>6. \A id : Outcomes(id)' = Outcomes(id)
  BY <1>1 DEF Outcomes, vars
<1>7. \A u \in Threads : Stage(pending[u])' = IF u = t THEN "asked" ELSE Stage(pending[u])
  <2>1. \A u \in Threads : Stage(pending[u])' = Stage(pending'[u])
    BY <1>1 DEF Stage
  <2>2. Stage(c) = "asked"
    BY <1>1, <1>3, <1>5 DEF Stage
  <2> QED
    BY <1>2, <2>1, <2>2
<1>8. CallsSeen' = [CallsSeen EXCEPT ![t] = [stage |-> "asked", msg |-> m, outcome |-> {}]]
  <2>1. CallsSeen'[t] = [stage |-> "asked", msg |-> m, outcome |-> {}]
    BY <1>2, <1>3, <1>5, <1>6, <1>7 DEF CallsSeen
  <2>2. \A u \in Threads \ {t} : CallsSeen'[u] = CallsSeen[u]
    BY <1>2, <1>6, <1>7 DEF CallsSeen
  <2>3. DOMAIN CallsSeen = Threads /\ CallsSeen' = [u \in Threads |-> CallsSeen'[u]]
    BY DEF CallsSeen
  <2> QED
    BY <2>1, <2>2, <2>3
<1>9. CallsSeen[t].stage = "none"
  BY <1>1 DEF CallsSeen, Stage
<1>10. UNCHANGED <<Service!rvars, Results>>
  BY <1>1 DEF Service!rvars, Decided, Results, vars
<1> QED
  BY <1>8, <1>9, <1>10 DEF Service!Begin

LEMMA SendFailsServes ==
  ASSUME Flights, NEW t \in Threads, NEW m \in Calls[t], SendFails(t, m)
  PROVE  Service!Fail(t, m)
<1> DEFINE q == [call |-> [id |-> calls + 1, msg |-> m], id |-> calls + 1, value |-> -1]
<1>1. /\ pending[t] = NoCall /\ returned' = [returned EXCEPT ![t] = q]
      /\ UNCHANGED <<vars, pending, remaddr, replies, lost>>
  BY DEF SendFails
<1>2. q.call.msg = m /\ q.value = -1
  OBVIOUS
<1> HIDE DEF q
<1>3. \A u \in Threads : returned'[u] = IF u = t THEN q ELSE returned[u]
  BY <1>1 DEF Flights, Returns
<1>4. CallsSeen[t].stage = "none"
  BY <1>1 DEF CallsSeen, Stage
<1>5. Results' = [Results EXCEPT ![t] = [msg |-> m, value |-> -1]]
  BY <1>2, <1>3 DEF Results
<1>6. UNCHANGED CallsSeen
  BY <1>1 DEF CallsSeen, Outcomes, Stage, vars
<1>7. UNCHANGED Service!rvars
  BY <1>1 DEF Service!rvars, Decided, vars
<1> QED
  BY <1>4, <1>5, <1>6, <1>7 DEF Service!Fail

\* A call that ends returns what was decided of it.
LEMMA TakeServes ==
  ASSUME OneSocketEach, Flights, NEW t \in Threads, NEW r \in replies, TakeReply(t, r)
  PROVE  Service!End(t)
<1> DEFINE q == [call |-> pending[t], id |-> r.id, value |-> Value(t, r)]
<1>1. /\ returned' = [returned EXCEPT ![t] = q] /\ pending' = [pending EXCEPT ![t] = NoCall]
      /\ replies' = replies \ {r} /\ UNCHANGED <<vars, remaddr, lost>>
  BY DEF TakeReply, Return
<1>2. q.call.msg = pending[t].msg /\ q.value = IF r.status = SUCCESS \/ t \in CSharp THEN r.port ELSE -4
  BY DEF Value
<1> HIDE DEF q
<1>3. For(t, r.id)
  BY TakesItsOwn
<1>4. pending[t] # NoCall /\ pending[t].id = r.id /\ NoCall.id = 0
  BY <1>3 DEF For, NoCall
<1>5. /\ \A u \in Threads : pending'[u] = IF u = t THEN NoCall ELSE pending[u]
      /\ \A u \in Threads : returned'[u] = IF u = t THEN q ELSE returned[u]
  BY <1>1 DEF Flights, CallsKnown, Returns
<1>6. \A u \in Threads \ {t} : pending[u].id # r.id
  BY <1>4 DEF Flights, CallsKnown, For
<1>7. \A id : id # r.id => Outcomes(id)' = Outcomes(id)
  BY <1>1 DEF Outcomes, vars
<1>8. r.id # 0 /\ Outcomes(0) = {}
  BY <1>4, NothingSeen DEF Flights, CallsKnown
<1>9. <<r.status, r.port>> \in CallsSeen[t].outcome /\ CallsSeen[t].msg = pending[t].msg
  BY <1>4 DEF CallsSeen, Outcomes
<1>10. CallsSeen' = [CallsSeen EXCEPT ![t] = Service!NoRequest]
  <2>1. CallsSeen'[t] = Service!NoRequest
    <3>1. Outcomes(0)' = {}
      BY <1>7, <1>8
    <3>2. CallsSeen'[t] = [stage |-> "none", msg |-> NoCall.msg, outcome |-> {}]
      BY <1>4, <1>5, <3>1 DEF CallsSeen, Stage
    <3> QED
      BY <3>2 DEF Service!NoRequest, NoCall, Service!BadRequest, BadRequest
  <2>2. \A u \in Threads \ {t} : CallsSeen'[u] = CallsSeen[u]
    BY <1>1, <1>5, <1>6, <1>7 DEF CallsSeen, Stage
  <2>3. DOMAIN CallsSeen = Threads /\ CallsSeen' = [u \in Threads |-> CallsSeen'[u]]
    BY DEF CallsSeen
  <2> QED
    BY <2>1, <2>2, <2>3
<1>11. Results' = [Results EXCEPT ![t] = [msg |-> pending[t].msg, value |-> q.value]]
  BY <1>2, <1>5 DEF Results
<1>12. UNCHANGED Service!rvars
  BY <1>1 DEF Service!rvars, Decided, vars
<1>13. q.value = IF <<r.status, r.port>>[1] = SUCCESS \/ t \in CSharp THEN <<r.status, r.port>>[2] ELSE -4
  BY <1>2
<1> QED
  BY <1>9, <1>10, <1>11, <1>12, <1>13 DEF Service!End

\* One call loses its request or its answer.
LEMMA LoseServes ==
  ASSUME Flights, Conduct, Lose
  PROVE  \E t \in Threads : Service!Lost(t)
<1>1. PICK d \in requests \cup replies : replies' = replies \ {d} /\ lost' = lost \cup {d.id}
  BY DEF Lose
<1>2. UNCHANGED <<vars, pending, remaddr, returned>>
  BY DEF Lose
<1>3. PICK t \in Threads : For(t, d.id)
  BY DEF Flights, InFlight, Awaited, WaitsFor, For
<1>4. pending[t] # NoCall /\ pending[t].id = d.id /\ \A u \in Threads \ {t} : pending[u].id # d.id
  BY <1>3 DEF Flights, CallsKnown, For
<1>5. /\ d.id \notin lost
      /\ \A r \in replies : r # d => r.id # d.id
      /\ Served => remaddr.id # d.id
  BY DEF Conduct, Gone, Flights, OnlyOnce
<1>6. Outcomes(d.id)' = {}
  <2>1. ~(pc' = "reply" /\ remaddr'.id = d.id)
    BY <1>2, <1>5 DEF Served, Idle, vars
  <2> QED
    BY <1>1, <1>5, <2>1 DEF Outcomes
<1>7. \A id : id # d.id => Outcomes(id)' = Outcomes(id)
  BY <1>1, <1>2 DEF Outcomes, vars
<1>8. /\ Stage(pending[t]) = "asked" /\ Stage(pending[t])' = "lost"
      /\ \A u \in Threads \ {t} : Stage(pending[u])' = Stage(pending[u])
  BY <1>1, <1>2, <1>4, <1>5 DEF Stage
<1>9. CallsSeen' = [CallsSeen EXCEPT ![t] = [stage |-> "lost", msg |-> CallsSeen[t].msg, outcome |-> {}]]
  <2>1. CallsSeen[t].msg = pending[t].msg
    BY DEF CallsSeen
  <2>2. CallsSeen'[t] = [stage |-> "lost", msg |-> pending[t].msg, outcome |-> {}]
    BY <1>2, <1>4, <1>6, <1>8 DEF CallsSeen
  <2>3. \A u \in Threads \ {t} : CallsSeen'[u] = CallsSeen[u]
    BY <1>2, <1>4, <1>7, <1>8 DEF CallsSeen
  <2>4. DOMAIN CallsSeen = Threads /\ CallsSeen' = [u \in Threads |-> CallsSeen'[u]]
    BY DEF CallsSeen
  <2> QED
    BY <2>1, <2>2, <2>3, <2>4
<1>10. CallsSeen[t].stage = "asked"
  BY <1>8 DEF CallsSeen
<1>11. UNCHANGED <<Service!rvars, Results>>
  BY <1>2 DEF Service!rvars, Decided, Results, vars
<1> QED
  BY <1>9, <1>10, <1>11 DEF Service!Lost

\* Time passes for the service, too.
LEMMA TickServes ==
  ASSUME Conduct, Conduct', Tick, UNCHANGED clientVars
  PROVE  Service!NNext \/ UNCHANGED <<Service!rvars, CallsSeen, Results>>
<1>1. UNCHANGED <<table, pc, req, key, asked, pending, remaddr, replies, returned, lost>>
  BY DEF Tick, request, clientVars
<1>2. \A id : Outcomes(id)' = Outcomes(id)
  BY <1>1 DEF Outcomes
<1>3. Decided' = Decided
  BY <1>1 DEF Decided
<1>4. [Next]_vars
  BY DEF Next, Environment
<1> QED
  BY <1>1, <1>2, <1>3, <1>4, SeenSame, ServerHidden DEF Conduct, Service!NNext

\* An empty registry and idle threads.
LEMMA ServesInit == CInit => Service!NInit
<1> SUFFICES ASSUME CInit PROVE Service!NInit
  OBVIOUS
<1>1. Registry!RInit
  BY RefineInit DEF CInit
<1>2. Service!RInit
  BY <1>1, SameNoOutcome DEF Registry!RInit, Service!RInit
<1>3. CallsSeen = [t \in Threads |-> Service!NoRequest]
  BY NothingSeen, FlightsInit DEF CInit, CallsSeen
<1>4. Results = [t \in Threads |-> [msg |-> Service!BadRequest, value |-> 0]]
  BY DEF CInit, Results, NoReturn, NoCall, BadRequest, Service!BadRequest
<1> QED
  BY <1>2, <1>3, <1>4 DEF Service!NInit

\* Every step of threads, network and server is one of the service, or hidden from it.
LEMMA ServesNext ==
  ASSUME OneSocketEach, Flights, Conduct, Conduct', [CNext]_allVars
  PROVE  [Service!NNext]_<<Service!rvars, CallsSeen, Results>>
<1>1. CASE Process
  BY <1>1, ProcessServes
<1>2. CASE Reply
  BY <1>2, ReplyServes
<1>3. ASSUME NEW d \in requests, Deliver(d)
      PROVE  Service!NNext \/ UNCHANGED <<Service!rvars, CallsSeen, Results>>
  BY <1>3, DeliverServes
<1>4. ASSUME NEW t \in Threads, NEW m \in Calls[t], SendRequest(t, m) \/ SendFails(t, m) PROVE Service!NNext
  BY <1>4, SendServes, SendFailsServes DEF Service!NNext
<1>5. ASSUME NEW t \in Threads, NEW r \in replies, TakeReply(t, r) PROVE Service!NNext
  BY <1>5, TakeServes DEF Service!NNext
<1>6. CASE Lose
  BY <1>6, LoseServes DEF Service!NNext
<1>7. CASE Tick /\ UNCHANGED <<clientVars, during>>
  BY <1>7, TickServes
<1>8. CASE UNCHANGED allVars
  BY <1>8 DEF allVars, vars, clientVars, Service!rvars, Decided, CallsSeen, Results, Outcomes, Stage
<1> QED
  BY <1>1, <1>2, <1>3, <1>4, <1>5, <1>6, <1>7, <1>8 DEF CNext, Server

\* Threads, network and server together are the atomic service: every call takes effect
\* once at most, while it is made, and returns what was decided of it then, for any
\* number of threads and calls, whatever is lost or overtaken, when each thread has a
\* socket (do_request of getport.c with main of oit_ns.cpp).
THEOREM CallsAreAtomic == OneSocketEach => (CSpec => ImplementsService)
<1> SUFFICES ASSUME OneSocketEach PROVE CSpec => ImplementsService
  OBVIOUS
<1>1. CSpec => []Flights
  BY FlightsHold
<1>2. CSpec => []Conduct
  BY ConductInit, ConductNext, <1>1, PTL DEF CSpec
<1>3. Flights /\ Conduct /\ Conduct' /\ [CNext]_allVars => [Service!NNext]_<<Service!rvars, CallsSeen, Results>>
  BY ServesNext
<1> QED
  BY ServesInit, <1>1, <1>2, <1>3, PTL DEF CSpec, ImplementsService, Service!NSpec
===============================================================================
