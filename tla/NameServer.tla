------------------------------ MODULE NameServer ------------------------------
(***************************************************************************)
(* The name server of lab2: main and generate_response of oit_ns.cpp and   *)
(* the table operations of ns_handler.cpp.  One thread answers one         *)
(* datagram at a time, but it reads time(0) again and again while it does, *)
(* so the clock is a process of its own and every read is a step of its    *)
(* own.                                                                    *)
(***************************************************************************)
EXTENDS NameServerMessages, FiniteSets, Functions

CONSTANTS
  Incoming,      \* the valid datagrams the network may deliver
  Unterminated,  \* names that fill their 50 bytes: is_invalid accepts them
  Overread,      \* what std::string may read from such a name (past the struct)
  MaxPorts,      \* max_supported_ports, option -n
  KeepAliveTime, \* keep_alive_time, option -t: atoi, so it may be negative
  MaxTime        \* bound on the clock

ASSUME ServerAssumption ==
  /\ Incoming \subseteq Message
  /\ Unterminated \subseteq Name
  /\ Overread \subseteq Name
  /\ MaxPorts \in Nat
  /\ KeepAliveTime \in Int
  /\ MaxTime \in Nat

VARIABLES
  now,    \* time(0)
  table,  \* lookup_table: service name -> [port, timeout]
  pc,     \* where the server is in its loop
  req,    \* *response_buff: the request, then the response
  key,    \* the std::string built from req.service_name
  sweep,  \* entries clear_timedout_services has not visited yet
  asked,  \* history: the request as it was decoded
  since   \* history: the time at which it was decoded

vars == <<now, table, pc, req, key, sweep, asked, since>>
request == <<req, key, asked, since>>

Entry == [port : PortNo, timeout : Int]
Idle  == {"recv", "stopped", "aborted"}

\* unordered_map::insert does not replace the value of a key it already has
Insert(t, s, e) ==
  IF s \in DOMAIN t THEN t
  ELSE [x \in DOMAIN t \cup {s} |-> IF x = s THEN e ELSE t[x]]

Erase(t, s) == Restrict(t, DOMAIN t \ {s})

\* string service_name(decoded_request->service_name)
CString(n) == IF n \in Unterminated THEN Overread ELSE {n}

\* get_keep_alive_time
Expiry(t) == t + KeepAliveTime

\* mutant of TimedOut: "<=" for "<"
TimedOutEarly(s) == table[s].timeout <= now

\* the two comparisons with time(0): they differ when timeout = now
InUse(s)    == table[s].timeout > now    \* define_service
TimedOut(s) == table[s].timeout < now    \* lookup_service_port and the sweep

Size == Cardinality(DOMAIN table)
-------------------------------------------------------------------------------
Init ==
  /\ now = 0
  /\ table = [s \in {} |-> [port |-> 0, timeout |-> 0]]
  /\ pc = "recv"
  /\ req = BadRequest /\ asked = BadRequest
  /\ key = EmptyName
  /\ sweep = {}
  /\ since = 0

Tick ==
  /\ now < MaxTime
  /\ now' = now + 1
  /\ UNCHANGED <<table, pc, sweep, request>>

\* recvfrom delivers a datagram that decode accepts
Receive(m) ==
  /\ pc = "recv"
  /\ \E k \in CString(m.name) : key' = k
  /\ req' = m /\ asked' = m
  /\ since' = now
  /\ pc' = "dispatch"
  /\ UNCHANGED <<now, table, sweep>>

\* recvfrom delivers a datagram for which decode returns NULL
ReceiveInvalid ==
  /\ pc = "recv"
  /\ req' = BadRequest /\ asked' = BadRequest
  /\ since' = now
  /\ pc' = "reply"
  /\ UNCHANGED <<now, table, key, sweep>>

\* recvfrom returns 0 or -1.  main deletes response_buff, which at that point
\* is uninitialised or already freed: malloc aborts, or the loop goes on.
ReceiveNothing ==
  /\ pc = "recv"
  /\ \/ pc' = "aborted" /\ UNCHANGED request
     \/ /\ pc' = "reply_freed"
        /\ req' = BadRequest /\ asked' = BadRequest
        /\ since' = now
        /\ UNCHANGED key
  /\ UNCHANGED <<now, table, sweep>>

\* a full table is swept before a DEFINE_PORT or a KEEP_ALIVE
BeginSweep ==
  /\ pc = "dispatch"
  /\ req.msg_type \in {DEFINE_PORT, KEEP_ALIVE}
  /\ Size = MaxPorts
  /\ sweep' = DOMAIN table
  /\ pc' = "sweep"
  /\ UNCHANGED <<now, table, request>>

\* mutants of SweepEntry: the iterator does not advance; the loop ends at the
\* first entry that has not run out
SweepEntryStalls(s) ==
  /\ pc = "sweep" /\ s \in sweep
  /\ UNCHANGED <<now, table, pc, sweep, request>>
SweepEntryStopsEarly(s) ==
  /\ pc = "sweep" /\ s \in sweep
  /\ sweep' = IF TimedOut(s) THEN sweep \ {s} ELSE {}
  /\ table' = IF TimedOut(s) THEN Erase(table, s) ELSE table
  /\ UNCHANGED <<now, pc, request>>

\* one turn of the loop of clear_timedout_services, in hash order
SweepEntry(s) ==
  /\ pc = "sweep" /\ s \in sweep
  /\ sweep' = sweep \ {s}
  /\ table' = IF TimedOut(s) THEN Erase(table, s) ELSE table
  /\ UNCHANGED <<now, pc, request>>

\* generate_response calls the handler of message type t
Handle(t) ==
  /\ req.msg_type = t
  /\ \/ /\ pc = "dispatch"
        /\ t \in {DEFINE_PORT, KEEP_ALIVE} => Size # MaxPorts
     \/ pc = "sweep" /\ sweep = {}

Respond(status) ==
  /\ pc' = "reply"
  /\ req' = Answer(req, status)

PortsFull(t) ==
  /\ Handle(t) /\ t \in {DEFINE_PORT, KEEP_ALIVE}
  /\ Size >= MaxPorts
  /\ Respond(ALL_PORTS_BUSY)
  /\ UNCHANGED <<now, table, key, sweep, asked, since>>

\* mutant of DefineService: the size is not looked at again after the sweep
DefineServiceUnchecked ==
  /\ Handle(DEFINE_PORT)
  /\ IF key \in DOMAIN table /\ InUse(key)
       THEN Respond(SERVICE_IN_USE)
       ELSE pc' = "update" /\ UNCHANGED req
  /\ UNCHANGED <<now, table, key, sweep, asked, since>>

\* define_service up to its call of update_service
DefineService ==
  /\ Handle(DEFINE_PORT) /\ Size < MaxPorts
  /\ IF key \in DOMAIN table /\ InUse(key)
       THEN Respond(SERVICE_IN_USE)
       ELSE pc' = "update" /\ UNCHANGED req
  /\ UNCHANGED <<now, table, key, sweep, asked, since>>

KeepAlive ==
  /\ Handle(KEEP_ALIVE) /\ Size < MaxPorts
  /\ IF key \in DOMAIN table /\ table[key].port = req.port
       THEN pc' = "update" /\ UNCHANGED req
       ELSE Respond(INVALID_ARG)
  /\ UNCHANGED <<now, table, key, sweep, asked, since>>

UpdateService ==
  /\ pc = "update"
  /\ table' = Insert(table, key, [port |-> req.port, timeout |-> Expiry(now)])
  /\ Respond(SUCCESS)
  /\ UNCHANGED <<now, key, sweep, asked, since>>

\* mutant of LookupServicePort: the timeout is not looked at
LookupTimedOut ==
  /\ Handle(LOOKUP_PORT)
  /\ IF req.port # 0 THEN Respond(INVALID_ARG)
     ELSE IF key \notin DOMAIN table THEN Respond(SERVICE_NOT_FOUND)
     ELSE req' = AnswerPort(req, SUCCESS, table[key].port) /\ pc' = "reply"
  /\ UNCHANGED <<now, table, key, sweep, asked, since>>

LookupServicePort ==
  /\ Handle(LOOKUP_PORT)
  /\ IF req.port # 0
       THEN Respond(INVALID_ARG) /\ UNCHANGED table
     ELSE IF key \notin DOMAIN table
       THEN Respond(SERVICE_NOT_FOUND) /\ UNCHANGED table
     ELSE IF TimedOut(key)
       THEN Respond(SERVICE_NOT_FOUND) /\ table' = Erase(table, key)
     ELSE /\ req' = AnswerPort(req, SUCCESS, table[key].port)
          /\ pc' = "reply"
          /\ UNCHANGED table
  /\ UNCHANGED <<now, key, sweep, asked, since>>

\* mutant of RemoveService: the port is not compared
RemoveAnyPort ==
  /\ Handle(CLOSE_PORT)
  /\ IF key \notin DOMAIN table
       THEN Respond(SERVICE_NOT_FOUND) /\ UNCHANGED table
       ELSE Respond(SUCCESS) /\ table' = Erase(table, key)
  /\ UNCHANGED <<now, key, sweep, asked, since>>

RemoveService ==
  /\ Handle(CLOSE_PORT)
  /\ IF key \notin DOMAIN table
       THEN Respond(SERVICE_NOT_FOUND) /\ UNCHANGED table
     ELSE IF table[key].port = req.port
       THEN Respond(SUCCESS) /\ table' = Erase(table, key)
     ELSE Respond(INVALID_ARG) /\ UNCHANGED table
  /\ UNCHANGED <<now, key, sweep, asked, since>>

Shutdown ==
  /\ Handle(STOP)
  /\ Respond(SUCCESS)
  /\ UNCHANGED <<now, table, key, sweep, asked, since>>

\* generate_response has no branch for a RESPONSE: it is sent back as it came
EchoResponse ==
  /\ Handle(RESPONSE)
  /\ pc' = "reply"
  /\ UNCHANGED <<now, table, sweep, request>>

\* sendto; its failure is logged and otherwise ignored
SendReply ==
  /\ \/ pc = "reply" /\ pc' = IF asked.msg_type = STOP THEN "stopped" ELSE "recv"
     \/ pc = "reply_freed" /\ pc' \in {"recv", "aborted"} \* a second delete of the same block
  /\ UNCHANGED <<now, table, sweep, request>>

ServerStep ==
  \/ BeginSweep
  \/ \E s \in sweep : SweepEntry(s)
  \/ \E t \in {DEFINE_PORT, KEEP_ALIVE} : PortsFull(t)
  \/ DefineService
  \/ KeepAlive
  \/ UpdateService
  \/ LookupServicePort
  \/ RemoveService
  \/ Shutdown
  \/ EchoResponse
  \/ SendReply

\* the server waits for a datagram; which one arrives is not its choice
Environment ==
  \/ Tick
  \/ \E m \in Incoming : Receive(m)
  \/ ReceiveInvalid
  \/ ReceiveNothing

Next == ServerStep \/ Environment

Spec == Init /\ [][Next]_vars

\* main is a sequential loop: once it has a datagram nothing but its own steps
\* can hold it up.  No datagram ever has to arrive and the clock may stand still.
FairSpec == Spec /\ WF_vars(ServerStep)
-------------------------------------------------------------------------------
\* Every variable has its type (request_t, ns_lookup_table, the loop of main).
TypeOK ==
  /\ now \in Nat
  /\ IsFiniteSet(DOMAIN table) /\ DOMAIN table \subseteq Name
  /\ \A s \in DOMAIN table : table[s] \in Entry
  /\ pc \in Idle \cup {"dispatch", "sweep", "update", "reply", "reply_freed"}
  /\ req \in Message /\ asked \in Message
  /\ key \in Name
  /\ sweep \subseteq DOMAIN table
  /\ since \in Nat

\* The table never holds more services than option -n allows, although the
\* check of the size (oit_ns.cpp 211) and the insertion (ns_handler.cpp 28) are
\* two calls and two readings of the clock apart.
CapacityBound == Size <= MaxPorts

\* ALL_PORTS_BUSY is only told when the table is full of services none of which
\* had run out when the request arrived: the sweep (ns_handler.cpp 199) skips
\* no entry although it erases while it iterates.
BusyOnlyWhenLeased ==
  pc = "reply" /\ asked.msg_type \in {DEFINE_PORT, KEEP_ALIVE} /\ req.status = ALL_PORTS_BUSY
    => /\ Size = MaxPorts
       /\ \A s \in DOMAIN table : table[s].timeout >= since

\* A look-up is only answered SUCCESS with the port of a service that is in the
\* table and had not run out when the request arrived (ns_handler.cpp 116).
LookupTellsLivePort ==
  pc = "reply" /\ asked.msg_type = LOOKUP_PORT /\ req.status = SUCCESS
    => /\ key \in DOMAIN table
       /\ table[key].port = req.port
       /\ table[key].timeout >= since

LeaseRespected ==
  \A s \in DOMAIN table :
    table[s].timeout >= now =>
      \/ s \in DOMAIN table' /\ table'[s].port = table[s].port
      \/ asked.msg_type = CLOSE_PORT /\ key = s /\ asked.port = table[s].port

\* While its time has not run out, a service keeps its entry and its port
\* against sweeps, look-ups, definitions and keep-alives of everyone: only a
\* CLOSE_PORT that names its port removes it (ns_handler.cpp 161).
LeaseKept == [][LeaseRespected]_vars

\* A datagram that was received is answered, unless the process aborted: the
\* sweep ends and no request makes the loop of main stall.
EveryRequestAnswered == pc \notin Idle ~> pc \in Idle

\* The server implements the atomic registry of leases.
Decided ==
  IF pc = "reply" /\ asked.msg_type \in DEFINE_PORT .. CLOSE_PORT
    THEN Outcome(asked.msg_type, key, asked.port, req.status, req.port)
    ELSE NoOutcome

Registry == INSTANCE LeaseRegistry
  WITH Capacity <- MaxPorts, Term <- KeepAliveTime,
       clock <- now, leases <- table, answer <- Decided

\* Every request takes effect at one instant on a bounded map of leases that
\* are fixed when they are granted (ns_handler.cpp as a whole).
ImplementsRegistry == Registry!RSpec

\* The inductive invariant: the properties above hold in the state that answers
\* because of what is known in the states that lead to it.
RequestKnown ==    \* no handler overwrites a request before it answers it
  /\ pc \in {"dispatch", "sweep", "update"} => req = asked
  /\ pc \in {"sweep", "update"} => asked.msg_type \in {DEFINE_PORT, KEEP_ALIVE}

SweepDone ==       \* what the sweep has passed had not run out
  /\ pc = "sweep" => \A s \in DOMAIN table \ sweep : table[s].timeout >= since
  /\ pc # "sweep" => sweep = {}

RoomFound == pc = "update" => Size < MaxPorts

UpdateChecked ==   \* what define_service and keep_alive checked still holds
  pc = "update" =>
    \/ asked.msg_type = DEFINE_PORT /\ (key \in DOMAIN table => table[key].timeout <= now)
    \/ asked.msg_type = KEEP_ALIVE /\ key \in DOMAIN table /\ table[key].port = asked.port

\* The parts of the argument for CapacityBound, BusyOnlyWhenLeased and
\* LookupTellsLivePort, along the loop of main (oit_ns.cpp 326-441).
Inv ==
  /\ TypeOK
  /\ since <= now
  /\ RequestKnown
  /\ SweepDone
  /\ RoomFound
  /\ UpdateChecked
  /\ CapacityBound
  /\ BusyOnlyWhenLeased
  /\ LookupTellsLivePort

\* ns_handler.cpp 97: "service_name found, but timedout, so it can be re-defined".
DefinedPortIsServed ==
  pc = "reply" /\ asked.msg_type = DEFINE_PORT /\ req.status = SUCCESS
    => table[key].port = asked.port
===============================================================================
