--------------------------- MODULE NameServer_proofs ---------------------------
(***************************************************************************)
(* The safety properties of NameServer, for every table size, keep-alive   *)
(* time and set of datagrams.                                              *)
(***************************************************************************)
EXTENDS NameServer, FiniteSetTheorems, TLAPS

\* Erase removes one key and touches no other (unordered_map::erase).
LEMMA EraseFacts ==
  ASSUME NEW t, NEW s \in DOMAIN t, IsFiniteSet(DOMAIN t)
  PROVE  /\ DOMAIN Erase(t, s) = DOMAIN t \ {s}
         /\ \A x \in DOMAIN t \ {s} : Erase(t, s)[x] = t[x]
         /\ IsFiniteSet(DOMAIN Erase(t, s))
         /\ Cardinality(DOMAIN t) \in Nat
         /\ Cardinality(DOMAIN Erase(t, s)) = Cardinality(DOMAIN t) - 1
<1>1. DOMAIN Erase(t, s) = DOMAIN t \ {s}
  BY DEF Erase, Restrict
<1>2. \A x \in DOMAIN t \ {s} : Erase(t, s)[x] = t[x]
  BY DEF Erase, Restrict
<1>3. /\ IsFiniteSet(DOMAIN t \ {s})
      /\ Cardinality(DOMAIN t \ {s}) = Cardinality(DOMAIN t) - 1
  BY FS_RemoveElement
<1>4. Cardinality(DOMAIN t) \in Nat
  BY FS_CardinalityType
<1> QED
  BY <1>1, <1>2, <1>3, <1>4

\* Insert changes nothing when the key is there, and adds one entry otherwise
\* (unordered_map::insert).
LEMMA InsertFacts ==
  ASSUME NEW t, NEW s, NEW e, IsFiniteSet(DOMAIN t)
  PROVE  /\ s \in DOMAIN t => Insert(t, s, e) = t
         /\ DOMAIN Insert(t, s, e) = DOMAIN t \cup {s}
         /\ \A x \in DOMAIN t : Insert(t, s, e)[x] = t[x]
         /\ \A x \in {s} \ DOMAIN t : Insert(t, s, e)[x] = e
         /\ IsFiniteSet(DOMAIN Insert(t, s, e))
         /\ Cardinality(DOMAIN t) \in Nat
         /\ Cardinality(DOMAIN Insert(t, s, e)) <= Cardinality(DOMAIN t) + 1
<1>1. /\ s \in DOMAIN t => Insert(t, s, e) = t
      /\ DOMAIN Insert(t, s, e) = DOMAIN t \cup {s}
      /\ \A x \in DOMAIN t : Insert(t, s, e)[x] = t[x]
      /\ \A x \in {s} \ DOMAIN t : Insert(t, s, e)[x] = e
  BY DEF Insert
<1>2. Cardinality(DOMAIN t) \in Nat
  BY FS_CardinalityType
<1>3. /\ IsFiniteSet(DOMAIN t \cup {s})
      /\ Cardinality(DOMAIN t \cup {s}) <= Cardinality(DOMAIN t) + 1
  BY <1>2, FS_AddElement
<1> QED
  BY <1>1, <1>2, <1>3
-------------------------------------------------------------------------------
\* What main puts into a request it could not decode is an answer.
LEMMA BadRequestType == BadRequest \in Message
<1>1. RESPONSE \in MsgType /\ UNDEFINED_ERROR \in Status
  BY DEF MsgType, Status, DEFINE_PORT, RESPONSE, STOP, SUCCESS, UNDEFINED_ERROR
<1> QED
  BY <1>1, MessagesAssumption DEF BadRequest, Message

\* The empty table and the idle server of main satisfy the invariant.
LEMMA InitInv == Init => Inv
<1> SUFFICES ASSUME Init PROVE Inv
  OBVIOUS
<1>1. IsFiniteSet({}) /\ Cardinality({}) = 0
  BY FS_EmptySet
<1>2. DOMAIN table = {}
  BY DEF Init
<1>3. BadRequest \in Message
  BY BadRequestType
<1>4. TypeOK
  BY <1>1, <1>2, <1>3, MessagesAssumption DEF Init, TypeOK, Idle
<1>5. CapacityBound
  BY <1>1, <1>2, ServerAssumption DEF CapacityBound, Size
<1> QED
  BY <1>4, <1>5 DEF Init, Inv, RequestKnown, SweepDone, RoomFound, UpdateChecked, BusyOnlyWhenLeased,
     LookupTellsLivePort
-------------------------------------------------------------------------------
USE DEF DEFINE_PORT, LOOKUP_PORT, KEEP_ALIVE, CLOSE_PORT, RESPONSE, STOP,
        SUCCESS, SERVICE_IN_USE, SERVICE_NOT_FOUND, ALL_PORTS_BUSY, INVALID_ARG, UNDEFINED_ERROR

\* An answer is a request_t again, and keeps the name and the port of the request.
LEMMA AnswerFacts ==
  ASSUME NEW m \in Message, NEW st \in Status
  PROVE  /\ Answer(m, st) \in Message
         /\ Answer(m, st).status = st
         /\ Answer(m, st).port = m.port
         /\ \A p \in PortNo : /\ AnswerPort(m, st, p) \in Message
                              /\ AnswerPort(m, st, p).status = st
                              /\ AnswerPort(m, st, p).port = p
BY DEF Answer, AnswerPort, Message, MsgType

\* What every handler that leaves the table alone and answers with a status
\* other than SUCCESS of a look-up and ALL_PORTS_BUSY preserves.
LEMMA PlainAnswer ==
  ASSUME Inv, NEW st \in Status \ {ALL_PORTS_BUSY},
         Handle(req.msg_type),
         st = SUCCESS => req.msg_type # LOOKUP_PORT,
         Respond(st),
         UNCHANGED <<now, table, key, asked, since, sweep>>
  PROVE  Inv'
<1>1. req' \in Message /\ req'.status = st
  BY AnswerFacts DEF Inv, TypeOK, Respond
<1>2. req = asked
  BY DEF Inv, RequestKnown, Handle
<1> QED
  BY <1>1, <1>2 DEF Inv, TypeOK, Respond, Handle, RequestKnown, SweepDone, RoomFound, UpdateChecked, CapacityBound, Size,
     BusyOnlyWhenLeased, LookupTellsLivePort, Entry, Message

\* What a handler that erases a service and answers preserves.
LEMMA ErasingAnswer ==
  ASSUME Inv, NEW st \in {SUCCESS, SERVICE_NOT_FOUND},
         Handle(req.msg_type), req.msg_type \notin {DEFINE_PORT, KEEP_ALIVE},
         st = SUCCESS => req.msg_type # LOOKUP_PORT,
         Respond(st),
         key \in DOMAIN table,
         table' = Erase(table, key),
         UNCHANGED <<now, key, asked, since, sweep>>
  PROVE  Inv'
<1>1. req' \in Message /\ req'.status = st
  BY AnswerFacts DEF Inv, TypeOK, Respond, Status
<1>2. req = asked
  BY DEF Inv, RequestKnown, Handle
<1>3. /\ DOMAIN table' = DOMAIN table \ {key}
      /\ \A x \in DOMAIN table' : table'[x] = table[x]
      /\ IsFiniteSet(DOMAIN table')
      /\ Size \in Nat /\ Size' = Size - 1
  BY EraseFacts DEF Inv, TypeOK, Size
<1>4. TypeOK'
  BY <1>1, <1>2, <1>3 DEF Inv, TypeOK, Respond, Handle, RequestKnown, SweepDone
<1>5. CapacityBound'
  BY <1>3, ServerAssumption DEF Inv, CapacityBound
<1> QED
  BY <1>1, <1>2, <1>4, <1>5 DEF Inv, Respond, Handle, RequestKnown, SweepDone, RoomFound, UpdateChecked,
     BusyOnlyWhenLeased, LookupTellsLivePort

\* An entry that leaves the table during the sweep makes room; one that stays
\* had not run out.
LEMMA SweepPreserves == ASSUME Inv, NEW s \in sweep, SweepEntry(s) PROVE Inv'
<1>1. s \in DOMAIN table /\ IsFiniteSet(DOMAIN table) /\ now \in Int /\ since \in Int
  BY DEF Inv, TypeOK
<1>2. CASE TimedOut(s)
  <2>1. /\ DOMAIN table' = DOMAIN table \ {s}
        /\ \A x \in DOMAIN table' : table'[x] = table[x]
        /\ IsFiniteSet(DOMAIN table')
        /\ Size \in Nat /\ Size' = Size - 1
    BY <1>1, <1>2, EraseFacts DEF SweepEntry, Size
  <2>2. TypeOK'
    BY <2>1 DEF Inv, TypeOK, SweepEntry, request
  <2>3. CapacityBound'
    BY <2>1, ServerAssumption DEF Inv, CapacityBound
  <2>4. SweepDone'
    BY <2>1 DEF Inv, SweepDone, SweepEntry, request
  <2> QED
    BY <2>2, <2>3, <2>4 DEF Inv, SweepEntry, request, RequestKnown, RoomFound, UpdateChecked,
       BusyOnlyWhenLeased, LookupTellsLivePort
<1>3. CASE ~TimedOut(s)
  <2>1. UNCHANGED table
    BY <1>3 DEF SweepEntry
  <2>2. SweepDone'
    BY <1>1, <1>3, <2>1 DEF Inv, TypeOK, Entry, SweepDone, SweepEntry, TimedOut, request
  <2> QED
    BY <2>1, <2>2 DEF Inv, TypeOK, SweepEntry, request, RequestKnown, RoomFound, UpdateChecked, CapacityBound,
       Size, BusyOnlyWhenLeased, LookupTellsLivePort
<1> QED
  BY <1>2, <1>3

\* update_service adds at most one entry to a table that had room for it.
LEMMA UpdatePreserves == ASSUME Inv, UpdateService PROVE Inv'
<1>1. PICK e \in Entry : table' = Insert(table, key, e)
  <2>1. [port |-> req.port, timeout |-> Expiry(now)] \in Entry
    BY ServerAssumption DEF Inv, TypeOK, Entry, Expiry, Message
  <2> QED
    BY <2>1 DEF UpdateService
<1>2. /\ DOMAIN table' = DOMAIN table \cup {key}
      /\ \A x \in DOMAIN table' : table'[x] \in Entry
      /\ IsFiniteSet(DOMAIN table')
      /\ Size \in Nat /\ Size' \in Nat /\ Size' <= Size + 1
  <2>1. IsFiniteSet(DOMAIN table) /\ \A x \in DOMAIN table : table[x] \in Entry
    BY DEF Inv, TypeOK
  <2>2. /\ DOMAIN Insert(table, key, e) = DOMAIN table \cup {key}
        /\ \A x \in DOMAIN table : Insert(table, key, e)[x] = table[x]
        /\ \A x \in {key} \ DOMAIN table : Insert(table, key, e)[x] = e
        /\ IsFiniteSet(DOMAIN Insert(table, key, e))
        /\ Cardinality(DOMAIN table) \in Nat
        /\ Cardinality(DOMAIN Insert(table, key, e)) <= Cardinality(DOMAIN table) + 1
    BY ONLY <2>1, InsertFacts
  <2>3. /\ DOMAIN table' = DOMAIN table \cup {key}
        /\ \A x \in DOMAIN table' : table'[x] \in Entry
        /\ IsFiniteSet(DOMAIN table')
        /\ Size \in Nat /\ Size' <= Size + 1
    BY <1>1, <2>1, <2>2 DEF Size
  <2>4. Size' \in Nat
    BY <2>3, FS_CardinalityType DEF Size
  <2> QED
    BY <2>3, <2>4
<1>3. /\ req' \in Message /\ req'.status = SUCCESS
      /\ asked.msg_type \in {DEFINE_PORT, KEEP_ALIVE}
  BY AnswerFacts DEF Inv, TypeOK, UpdateService, Respond, RequestKnown, Status
<1>4. TypeOK'
  BY <1>2, <1>3 DEF Inv, TypeOK, UpdateService, Respond
<1>5. CapacityBound'
  BY <1>2, ServerAssumption DEF Inv, RoomFound, UpdateChecked, CapacityBound, UpdateService
<1> QED
  BY <1>3, <1>4, <1>5 DEF Inv, UpdateService, Respond, RequestKnown, SweepDone, RoomFound, UpdateChecked,
     BusyOnlyWhenLeased, LookupTellsLivePort

\* A table that is full after the sweep holds only leases that had not run out
\* when the request arrived.
LEMMA PortsFullPreserves ==
  ASSUME Inv, NEW t \in {DEFINE_PORT, KEEP_ALIVE}, PortsFull(t) PROVE Inv'
<1>1. req' \in Message /\ req'.status = ALL_PORTS_BUSY
  BY AnswerFacts DEF Inv, TypeOK, PortsFull, Respond, Status
<1>2. Size \in Nat
  BY FS_CardinalityType DEF Inv, TypeOK, Size
<1>3. Size = MaxPorts
  BY <1>2, ServerAssumption DEF Inv, CapacityBound, PortsFull
<1>4. pc = "sweep" /\ sweep = {}
  BY <1>3 DEF PortsFull, Handle
<1>5. BusyOnlyWhenLeased'
  BY <1>3, <1>4 DEF Inv, SweepDone, PortsFull, BusyOnlyWhenLeased, Size
<1> QED
  BY <1>1, <1>4, <1>5 DEF Inv, TypeOK, PortsFull, Respond, RequestKnown, SweepDone, RoomFound, UpdateChecked,
     CapacityBound, Size, LookupTellsLivePort

\* lookup_service_port: it tells a port only of an entry it has just compared with
\* the clock, and erases at most that entry.
LEMMA LookupPreserves == ASSUME Inv, LookupServicePort PROVE Inv'
<1>1. Handle(req.msg_type) /\ req.msg_type = LOOKUP_PORT
  BY DEF LookupServicePort, Handle
<1>2. UNCHANGED <<now, key, asked, since, sweep>>
  BY DEF LookupServicePort
<1>3. CASE UNCHANGED table /\ \E st \in {INVALID_ARG, SERVICE_NOT_FOUND} : Respond(st)
  BY <1>1, <1>2, <1>3, PlainAnswer DEF Status
<1>4. CASE /\ key \in DOMAIN table /\ table' = Erase(table, key)
           /\ Respond(SERVICE_NOT_FOUND)
  BY <1>1, <1>2, <1>4, ErasingAnswer
<1>5. CASE /\ key \in DOMAIN table /\ ~TimedOut(key)
           /\ req' = AnswerPort(req, SUCCESS, table[key].port)
           /\ pc' = "reply" /\ UNCHANGED table
  <2>1. table[key] \in Entry /\ since <= now /\ since \in Int /\ now \in Int
    BY <1>5 DEF Inv, TypeOK
  <2>2. req' \in Message /\ req'.status = SUCCESS /\ req'.port = table[key].port
    <3>1. req \in Message /\ SUCCESS \in Status /\ table[key].port \in PortNo
      BY <2>1 DEF Inv, TypeOK, Entry, Status
    <3> QED
      BY <1>5, <3>1, AnswerFacts
  <2>3. LookupTellsLivePort'
    BY <1>2, <1>5, <2>1, <2>2 DEF LookupTellsLivePort, TimedOut, Entry
  <2>4. sweep = {} /\ asked = req
    BY <1>1 DEF Inv, SweepDone, RequestKnown, Handle
  <2> QED
    BY <1>1, <1>2, <1>5, <2>2, <2>3, <2>4 DEF Inv, TypeOK, RequestKnown, SweepDone, RoomFound, UpdateChecked,
       CapacityBound, Size, BusyOnlyWhenLeased
<1> QED
  BY <1>3, <1>4, <1>5 DEF LookupServicePort

\* remove_service: it erases at most the entry it was asked to.
LEMMA RemovePreserves == ASSUME Inv, RemoveService PROVE Inv'
<1>1. Handle(req.msg_type) /\ req.msg_type = CLOSE_PORT
  BY DEF RemoveService, Handle
<1>2. UNCHANGED <<now, key, asked, since, sweep>>
  BY DEF RemoveService
<1>3. CASE UNCHANGED table /\ \E st \in {INVALID_ARG, SERVICE_NOT_FOUND} : Respond(st)
  BY <1>1, <1>2, <1>3, PlainAnswer DEF Status
<1>4. CASE key \in DOMAIN table /\ table' = Erase(table, key) /\ Respond(SUCCESS)
  BY <1>1, <1>2, <1>4, ErasingAnswer
<1> QED
  BY <1>3, <1>4 DEF RemoveService

\* Inv is inductive: one step per action of Next.
LEMMA NextInv == Inv /\ [Next]_vars => Inv'
<1> USE DEF Inv, TypeOK, RequestKnown, SweepDone, RoomFound, UpdateChecked, CapacityBound, Size,
            BusyOnlyWhenLeased, LookupTellsLivePort, request
<1> SUFFICES ASSUME Inv, [Next]_vars PROVE Inv'
  OBVIOUS
<1>1. CASE Tick
  BY <1>1 DEF Tick, Entry
<1>2. ASSUME NEW m \in Incoming, Receive(m) PROVE Inv'
  <2>1. m \in Message /\ key' \in Name
    BY <1>2, ServerAssumption DEF Receive, CString, Message
  <2> QED
    BY <1>2, <2>1 DEF Receive
<1>3. CASE ReceiveInvalid \/ ReceiveNothing
  <2>1. BadRequest \in Message
    BY BadRequestType
  <2> QED
    BY <1>3, <2>1 DEF ReceiveInvalid, ReceiveNothing, BadRequest, Idle
<1>4. CASE BeginSweep
  BY <1>4 DEF BeginSweep
<1>5. ASSUME NEW s \in sweep, SweepEntry(s) PROVE Inv'
  BY <1>5, SweepPreserves
<1>6. ASSUME NEW t \in {DEFINE_PORT, KEEP_ALIVE}, PortsFull(t) PROVE Inv'
  BY <1>6, PortsFullPreserves
<1>7. CASE DefineService
  <2>1. CASE Respond(SERVICE_IN_USE)
    BY <1>7, <2>1, PlainAnswer DEF DefineService, Handle, Status
  <2>2. CASE pc' = "update" /\ UNCHANGED req
    <3>1. req = asked /\ asked.msg_type = DEFINE_PORT /\ UNCHANGED <<now, table, key, sweep, asked, since>>
      BY <1>7, <2>2 DEF DefineService, Handle
    <3>2. sweep = {} /\ Size < MaxPorts
      BY <1>7 DEF DefineService, Handle
    <3>3. key \in DOMAIN table => table[key].timeout <= now
      BY <1>7, <2>2 DEF DefineService, InUse, Entry, Respond
    <3> QED
      BY <2>2, <3>1, <3>2, <3>3
  <2> QED
    BY <1>7, <2>1, <2>2 DEF DefineService
<1>8. CASE KeepAlive
  <2>1. CASE Respond(INVALID_ARG)
    BY <1>8, <2>1, PlainAnswer DEF KeepAlive, Handle, Status
  <2>2. CASE pc' = "update" /\ UNCHANGED req /\ key \in DOMAIN table /\ table[key].port = req.port
    BY <1>8, <2>2 DEF KeepAlive, Handle
  <2> QED
    BY <1>8, <2>1, <2>2 DEF KeepAlive
<1>9. CASE UpdateService
  BY <1>9, UpdatePreserves
<1>10. CASE LookupServicePort
  BY <1>10, LookupPreserves
<1>11. CASE RemoveService
  BY <1>11, RemovePreserves
<1>12. CASE Shutdown
  BY <1>12, PlainAnswer DEF Shutdown, Handle, Status
<1>13. CASE EchoResponse
  BY <1>13 DEF EchoResponse, Handle
<1>14. CASE SendReply
  BY <1>14 DEF SendReply, Idle
<1>15. CASE UNCHANGED vars
  BY <1>15 DEF vars, Idle
<1> QED
  BY <1>1, <1>2, <1>3, <1>4, <1>5, <1>6, <1>7, <1>8, <1>9, <1>10, <1>11, <1>12, <1>13, <1>14,
     <1>15 DEF Next, ServerStep, Environment

\* The inductive invariant holds in every reachable state.
THEOREM InvHolds == Spec => []Inv
BY InitInv, NextInv, PTL DEF Spec

\* The state of main and of the table stays well typed.
THEOREM TypeCorrect == Spec => []TypeOK
<1>1. Inv => TypeOK
  BY DEF Inv
<1> QED
  BY <1>1, InvHolds, PTL

\* The table never outgrows max_supported_ports.
THEOREM CapacityHolds == Spec => []CapacityBound
<1>1. Inv => CapacityBound
  BY DEF Inv
<1> QED
  BY <1>1, InvHolds, PTL

\* ALL_PORTS_BUSY is told only when every lease was running at the arrival.
THEOREM BusyIsTrue == Spec => []BusyOnlyWhenLeased
<1>1. Inv => BusyOnlyWhenLeased
  BY DEF Inv
<1> QED
  BY <1>1, InvHolds, PTL

\* A look-up tells the port of a lease that was running at the arrival.
THEOREM LookupIsTrue == Spec => []LookupTellsLivePort
<1>1. Inv => LookupTellsLivePort
  BY DEF Inv
<1> QED
  BY <1>1, InvHolds, PTL
-------------------------------------------------------------------------------
\* No step takes a lease that has not run out away from its service, except the
\* CLOSE_PORT that names its port.
THEOREM LeaseIsKept == Spec => LeaseKept
<1>1. Inv /\ [Next]_vars => [LeaseRespected]_vars
  <2> SUFFICES ASSUME Inv, Next, NEW s \in DOMAIN table, table[s].timeout >= now
               PROVE  \/ s \in DOMAIN table' /\ table'[s].port = table[s].port
                      \/ asked.msg_type = CLOSE_PORT /\ key = s /\ asked.port = table[s].port
    BY DEF LeaseRespected
  <2>1. IsFiniteSet(DOMAIN table) /\ table[s].timeout \in Int /\ now \in Int
    BY DEF Inv, TypeOK, Entry
  <2>2. CASE UNCHANGED table
    BY <2>2
  <2>3. ASSUME NEW x \in DOMAIN table, table' = Erase(table, x), x # s
        PROVE  s \in DOMAIN table' /\ table'[s].port = table[s].port
    BY <2>1, <2>3, EraseFacts
  <2>4. ASSUME NEW x \in sweep, SweepEntry(x)
        PROVE  s \in DOMAIN table' /\ table'[s].port = table[s].port
    BY <2>1, <2>2, <2>3, <2>4 DEF SweepEntry, TimedOut, Inv, TypeOK
  <2>5. CASE UpdateService
    <3>1. PICK e : table' = Insert(table, key, e)
      BY <2>5 DEF UpdateService
    <3>2. DOMAIN Insert(table, key, e) = DOMAIN table \cup {key}
      BY <2>1, InsertFacts
    <3>3. \A x \in DOMAIN table : Insert(table, key, e)[x] = table[x]
      BY <2>1, InsertFacts
    <3> QED
      BY <3>1, <3>2, <3>3
  <2>6. CASE LookupServicePort
    BY <2>1, <2>2, <2>3, <2>6 DEF LookupServicePort, TimedOut
  <2>7. CASE RemoveService
    <3>1. asked = req /\ req.msg_type = CLOSE_PORT
      BY <2>7 DEF RemoveService, Handle, Inv, RequestKnown
    <3> QED
      BY <2>2, <2>3, <2>7, <3>1 DEF RemoveService
  <2> QED
    BY <2>2, <2>4, <2>5, <2>6, <2>7 DEF Next, Environment, ServerStep, Tick, Receive, ReceiveInvalid,
       ReceiveNothing, BeginSweep, PortsFull, DefineService, KeepAlive, Shutdown, EchoResponse, SendReply
<1> QED
  BY <1>1, InvHolds, PTL DEF Spec, LeaseKept, LeaseRespected
-------------------------------------------------------------------------------
USE DEF Registry!DEFINE_PORT, Registry!LOOKUP_PORT, Registry!KEEP_ALIVE, Registry!CLOSE_PORT,
        Registry!STOP, Registry!SUCCESS, Registry!SERVICE_IN_USE, Registry!SERVICE_NOT_FOUND,
        Registry!ALL_PORTS_BUSY, Registry!INVALID_ARG, Registry!UNDEFINED_ERROR

\* Both levels count with the same operator.
LEMMA SameCount == ASSUME NEW S PROVE Registry!Cardinality(S) = Cardinality(S)
BY DEF Registry!Cardinality, Cardinality, Registry!IsFiniteSet, IsFiniteSet

\* Taking an entry out and putting one in are the same on both levels.
LEMMA WithoutIsErase == ASSUME NEW s PROVE Registry!Without(s) = Erase(table, s)
BY DEF Registry!Without, Registry!Held, Erase, Restrict

\* The entry that update_service inserts is the lease the registry grants.
LEMMA WithIsInsert ==
  ASSUME NEW s, s \notin DOMAIN table, NEW p
  PROVE  Registry!With(s, p) = Insert(table, s, [port |-> p, timeout |-> Expiry(now)])
BY DEF Registry!With, Registry!Held, Insert, Expiry

\* The server starts as an empty registry that has nothing to answer.
LEMMA RefineInit == Init => Registry!RInit
BY DEF Init, Registry!RInit, Decided, NoOutcome, Outcome, Registry!NoOutcome, Registry!Outcome,
   BadRequest

\* An answer that is being prepared is decided, for the registry, when the
\* server starts to send it.
LEMMA Decides ==
  ASSUME Inv, pc \in {"dispatch", "sweep", "update"}, pc' = "reply",
         asked.msg_type \in DEFINE_PORT .. CLOSE_PORT,
         UNCHANGED <<now, key, asked>>
  PROVE  Registry!Decide(asked.msg_type, key, asked.port, req'.status, req'.port)
BY DEF Registry!Decide, Decided, NoOutcome, Outcome, Registry!NoOutcome, Registry!Outcome

\* Every step of the server is a step of the registry or leaves it alone.
LEMMA RefineNext == Inv /\ Inv' /\ [Next]_vars => [Registry!RNext]_(Registry!rvars)
<1> USE DEF request, Decided
<1> SUFFICES ASSUME Inv, Inv', [Next]_vars
             PROVE  Registry!RNext \/ UNCHANGED <<now, table, Decided>>
  BY DEF Registry!rvars
<1>1. /\ key \in Name /\ asked \in Message /\ asked.port \in PortNo
      /\ IsFiniteSet(DOMAIN table) /\ DOMAIN table \subseteq Name
      /\ \A s \in DOMAIN table : table[s].timeout \in Int
      /\ now \in Nat
  BY DEF Inv, TypeOK, Message, Entry
<1>2. CASE Tick
  BY <1>2 DEF Tick, Registry!RNext, Registry!Pass
<1>3. ASSUME NEW m \in Incoming, Receive(m) PROVE UNCHANGED <<now, table, Decided>>
  BY <1>3 DEF Receive
<1>4. CASE ReceiveInvalid \/ ReceiveNothing
  BY <1>4 DEF ReceiveInvalid, ReceiveNothing, BadRequest
<1>5. CASE BeginSweep
  BY <1>5 DEF BeginSweep
<1>6. ASSUME NEW s \in sweep, SweepEntry(s)
      PROVE  Registry!RNext \/ UNCHANGED <<now, table, Decided>>
  <2>1. UNCHANGED Decided
    BY <1>6 DEF SweepEntry
  <2>2. CASE TimedOut(s)
    <3>1. Registry!Drop(s)
      BY <1>6, <2>1, <2>2, WithoutIsErase
      DEF Registry!Drop, Registry!Held, Registry!Over, TimedOut, SweepEntry, Inv, TypeOK
    <3> QED
      BY <1>1, <1>6, <3>1 DEF Registry!RNext, Inv, TypeOK
  <2> QED
    BY <1>6, <2>1, <2>2 DEF SweepEntry
<1>7. ASSUME NEW t \in {DEFINE_PORT, KEEP_ALIVE}, PortsFull(t) PROVE Registry!RNext
  <2>1. asked = req /\ req.msg_type = t /\ pc \in {"dispatch", "sweep"}
    BY <1>7 DEF PortsFull, Handle, Inv, RequestKnown
  <2>2. req'.status = ALL_PORTS_BUSY /\ req'.port = asked.port /\ pc' = "reply"
    BY <1>7, <2>1, AnswerFacts DEF PortsFull, Respond, Inv, TypeOK, Status
  <2>3. Registry!Decide(t, key, asked.port, ALL_PORTS_BUSY, asked.port)
    BY <1>7, <2>1, <2>2, Decides DEF PortsFull
  <2>4. Registry!Busy(t, key, asked.port)
    BY <1>7, <2>3, SameCount DEF Registry!Busy, Registry!Held, PortsFull, Size
  <2> QED
    BY <1>1, <2>4 DEF Registry!RNext, Registry!MsgType
<1>8. CASE DefineService
  <2>1. asked = req /\ req.msg_type = DEFINE_PORT /\ pc \in {"dispatch", "sweep"}
    BY <1>8 DEF DefineService, Handle, Inv, RequestKnown
  <2>2. CASE Respond(SERVICE_IN_USE)
    <3>1. req'.status = SERVICE_IN_USE /\ req'.port = asked.port /\ pc' = "reply"
      BY <2>1, <2>2, AnswerFacts DEF Respond, Inv, TypeOK, Status
    <3>2. Registry!Decide(DEFINE_PORT, key, asked.port, SERVICE_IN_USE, asked.port)
      BY <1>8, <2>1, <3>1, Decides DEF DefineService
    <3>3. key \in DOMAIN table /\ ~ Registry!Ending(key) /\ UNCHANGED table
      BY <1>1, <1>8, <3>1 DEF DefineService, InUse, Registry!Ending
    <3>4. Registry!Refuse(DEFINE_PORT, key, asked.port, SERVICE_IN_USE)
      BY <3>2, <3>3 DEF Registry!Refuse, Registry!Held
    <3> QED
      BY <1>1, <3>4 DEF Registry!RNext, Registry!MsgType, Registry!Status
  <2>3. CASE pc' = "update" /\ UNCHANGED req
    BY <1>8, <2>1, <2>3 DEF DefineService
  <2> QED
    BY <1>8, <2>2, <2>3 DEF DefineService
<1>9. CASE KeepAlive
  <2>1. asked = req /\ req.msg_type = KEEP_ALIVE /\ pc \in {"dispatch", "sweep"}
    BY <1>9 DEF KeepAlive, Handle, Inv, RequestKnown
  <2>2. CASE Respond(INVALID_ARG)
    <3>1. req'.status = INVALID_ARG /\ req'.port = asked.port /\ pc' = "reply"
      BY <2>1, <2>2, AnswerFacts DEF Respond, Inv, TypeOK, Status
    <3>2. Registry!Decide(KEEP_ALIVE, key, asked.port, INVALID_ARG, asked.port)
      BY <1>9, <2>1, <3>1, Decides DEF KeepAlive
    <3>3. Registry!Refuse(KEEP_ALIVE, key, asked.port, INVALID_ARG)
      BY <1>9, <2>1, <3>1, <3>2 DEF KeepAlive, Registry!Refuse, Registry!Held
    <3> QED
      BY <1>1, <3>3 DEF Registry!RNext, Registry!MsgType, Registry!Status
  <2>3. CASE pc' = "update" /\ UNCHANGED req
    BY <1>9, <2>1, <2>3 DEF KeepAlive
  <2> QED
    BY <1>9, <2>2, <2>3 DEF KeepAlive
<1>10. CASE UpdateService
  <2>1. asked = req /\ req.msg_type \in {DEFINE_PORT, KEEP_ALIVE} /\ pc = "update"
    BY <1>10 DEF UpdateService, Inv, RequestKnown
  <2>2. req'.status = SUCCESS /\ req'.port = asked.port /\ pc' = "reply"
    BY <1>10, <2>1, AnswerFacts DEF UpdateService, Respond, Inv, TypeOK, Status
  <2>3. Registry!Decide(asked.msg_type, key, asked.port, SUCCESS, asked.port)
    BY <1>10, <2>1, <2>2, Decides DEF UpdateService
  <2>4. CASE key \in DOMAIN table
    <3>1. UNCHANGED table
      BY <1>10, <2>4 DEF UpdateService, Insert
    <3>2. Registry!Confirm(asked.msg_type, key, asked.port)
      BY <1>1, <2>1, <2>3, <2>4, <3>1
      DEF Registry!Confirm, Registry!Held, Registry!Ending, Inv, UpdateChecked
    <3> QED
      BY <1>1, <2>1, <3>2 DEF Registry!RNext, Registry!MsgType
  <2>5. CASE key \notin DOMAIN table
    <3>1. asked.msg_type = DEFINE_PORT
      BY <2>1, <2>5 DEF Inv, UpdateChecked
    <3>2. table' = Registry!With(key, asked.port)
      BY <1>10, <2>1, <2>5, WithIsInsert DEF UpdateService
    <3>3. Cardinality(DOMAIN table) < MaxPorts
      BY <2>1 DEF Inv, RoomFound, Size
    <3>4. Registry!Grant(key, asked.port)
      BY <2>3, <2>5, <3>1, <3>2, <3>3, SameCount DEF Registry!Grant, Registry!Held
    <3> QED
      BY <1>1, <3>4 DEF Registry!RNext
  <2> QED
    BY <2>4, <2>5
<1>11. CASE LookupServicePort
  <2>1. asked = req /\ req.msg_type = LOOKUP_PORT /\ pc \in {"dispatch", "sweep"}
    BY <1>11 DEF LookupServicePort, Handle, Inv, RequestKnown
  <2>2. pc' = "reply" /\ UNCHANGED <<now, key, asked>>
    BY <1>11 DEF LookupServicePort, Respond
  <2>3. Registry!Decide(LOOKUP_PORT, key, asked.port, req'.status, req'.port)
    BY <2>1, <2>2, Decides
  <2>4. ASSUME NEW st \in {INVALID_ARG, SERVICE_NOT_FOUND}, Respond(st)
        PROVE  req'.status = st /\ req'.port = asked.port
    BY <2>1, <2>4, AnswerFacts DEF Respond, Inv, TypeOK, Status
  <2>5. CASE req.port # 0 /\ Respond(INVALID_ARG) /\ UNCHANGED table
    <3>1. Registry!Refuse(LOOKUP_PORT, key, asked.port, INVALID_ARG)
      BY <2>1, <2>3, <2>4, <2>5 DEF Registry!Refuse
    <3> QED
      BY <1>1, <3>1 DEF Registry!RNext, Registry!MsgType, Registry!Status
  <2>6. CASE /\ req.port = 0 /\ key \notin DOMAIN table
             /\ Respond(SERVICE_NOT_FOUND) /\ UNCHANGED table
    <3>1. Registry!Refuse(LOOKUP_PORT, key, asked.port, SERVICE_NOT_FOUND)
      BY <2>1, <2>3, <2>4, <2>6 DEF Registry!Refuse, Registry!Held
    <3> QED
      BY <1>1, <3>1 DEF Registry!RNext, Registry!MsgType, Registry!Status
  <2>7. CASE /\ req.port = 0 /\ key \in DOMAIN table /\ TimedOut(key)
             /\ Respond(SERVICE_NOT_FOUND) /\ table' = Erase(table, key)
    <3>1. Registry!Tell(key)
      BY <2>1, <2>3, <2>4, <2>7, WithoutIsErase
      DEF Registry!Tell, Registry!Held, Registry!Over, TimedOut
    <3> QED
      BY <1>1, <3>1 DEF Registry!RNext
  <2>8. CASE /\ req.port = 0 /\ key \in DOMAIN table /\ ~TimedOut(key)
             /\ req' = AnswerPort(req, SUCCESS, table[key].port) /\ UNCHANGED table
    <3>1. req'.status = SUCCESS /\ req'.port = table[key].port
      BY <2>8 DEF AnswerPort
    <3>2. Registry!Tell(key)
      BY <2>1, <2>3, <2>8, <3>1 DEF Registry!Tell, Registry!Held, Registry!Over, TimedOut
    <3> QED
      BY <1>1, <3>2 DEF Registry!RNext
  <2> QED
    BY <1>11, <2>5, <2>6, <2>7, <2>8 DEF LookupServicePort
<1>12. CASE RemoveService
  <2>1. asked = req /\ req.msg_type = CLOSE_PORT /\ pc \in {"dispatch", "sweep"}
    BY <1>12 DEF RemoveService, Handle, Inv, RequestKnown
  <2>2. ASSUME NEW st \in {SUCCESS, INVALID_ARG, SERVICE_NOT_FOUND}, Respond(st)
        PROVE  Registry!Decide(CLOSE_PORT, key, asked.port, st, asked.port)
    <3>1. req'.status = st /\ req'.port = asked.port /\ pc' = "reply"
      BY <2>1, <2>2, AnswerFacts DEF Respond, Inv, TypeOK, Status
    <3> QED
      BY <1>12, <2>1, <3>1, Decides DEF RemoveService
  <2>3. CASE key \notin DOMAIN table /\ Respond(SERVICE_NOT_FOUND) /\ UNCHANGED table
    <3>1. Registry!Refuse(CLOSE_PORT, key, asked.port, SERVICE_NOT_FOUND)
      BY <2>2, <2>3 DEF Registry!Refuse, Registry!Held
    <3> QED
      BY <1>1, <3>1 DEF Registry!RNext, Registry!MsgType, Registry!Status
  <2>4. CASE /\ key \in DOMAIN table /\ table[key].port = req.port
             /\ Respond(SUCCESS) /\ table' = Erase(table, key)
    <3>1. Registry!Close(key, asked.port)
      BY <2>1, <2>2, <2>4, WithoutIsErase DEF Registry!Close, Registry!Held
    <3> QED
      BY <1>1, <3>1 DEF Registry!RNext
  <2>5. CASE /\ key \in DOMAIN table /\ table[key].port # req.port
             /\ Respond(INVALID_ARG) /\ UNCHANGED table
    <3>1. Registry!Refuse(CLOSE_PORT, key, asked.port, INVALID_ARG)
      BY <2>1, <2>2, <2>5 DEF Registry!Refuse, Registry!Held
    <3> QED
      BY <1>1, <3>1 DEF Registry!RNext, Registry!MsgType, Registry!Status
  <2> QED
    BY <1>12, <2>3, <2>4, <2>5 DEF RemoveService
<1>13. CASE Shutdown \/ EchoResponse
  <2>1. asked.msg_type \notin DEFINE_PORT .. CLOSE_PORT
    BY <1>13 DEF Shutdown, EchoResponse, Handle, Inv, RequestKnown
  <2> QED
    BY <1>13, <2>1 DEF Shutdown, EchoResponse
<1>14. CASE SendReply
  <2>1. pc' # "reply" /\ UNCHANGED <<now, table>>
    BY <1>14 DEF SendReply
  <2>2. Decided' = NoOutcome
    BY <2>1
  <2>3. Decided = NoOutcome \/ Registry!Deliver
    BY <2>1, <2>2 DEF Registry!Deliver, NoOutcome, Outcome, Registry!NoOutcome, Registry!Outcome
  <2> QED
    BY <2>1, <2>2, <2>3 DEF Registry!RNext
<1>15. CASE UNCHANGED vars
  BY <1>15 DEF vars
<1> QED
  BY <1>2, <1>3, <1>4, <1>5, <1>6, <1>7, <1>8, <1>9, <1>10, <1>11, <1>12, <1>13, <1>14, <1>15
  DEF Next, ServerStep, Environment

\* The name server implements the atomic registry of leases.
THEOREM ServerImplementsRegistry == Spec => ImplementsRegistry
BY RefineInit, RefineNext, InvHolds, PTL DEF Spec, ImplementsRegistry, Registry!RSpec
-------------------------------------------------------------------------------
\* How many steps the server may still take before it waits for the next datagram:
\* a request may need the sweep of a full table, a handler, an insertion and an answer.
Work ==
  CASE pc \in Idle                    -> 0
    [] pc \in {"reply", "reply_freed"} -> 1
    [] pc = "update"                  -> 2
    [] pc = "sweep"                   -> Cardinality(sweep) + 3
    [] pc = "dispatch"                -> MaxPorts + 4

\* What main has still to do at each of its places.
Works ==
  /\ pc \in Idle => Work = 0
  /\ pc \in {"reply", "reply_freed"} => Work = 1
  /\ pc = "update" => Work = 2
  /\ pc = "sweep" => Work = Cardinality(sweep) + 3
  /\ pc = "dispatch" => Work = MaxPorts + 4
  /\ pc \in Idle \cup {"dispatch", "sweep", "update", "reply", "reply_freed"}
  /\ IsFiniteSet(sweep) /\ Cardinality(sweep) \in Nat /\ Cardinality(sweep) <= Size
  /\ Size \in 0 .. MaxPorts

LEMMA WorksHold == Inv => Works
<1> SUFFICES ASSUME Inv PROVE Works
  OBVIOUS
<1>1. /\ IsFiniteSet(DOMAIN table) /\ sweep \subseteq DOMAIN table
      /\ pc \in Idle \cup {"dispatch", "sweep", "update", "reply", "reply_freed"}
  BY DEF Inv, TypeOK
<1>2. IsFiniteSet(sweep) /\ Cardinality(sweep) <= Size /\ Size \in Nat /\ Cardinality(sweep) \in Nat
  BY <1>1, FS_Subset, FS_CardinalityType DEF Size
<1>3. Size <= MaxPorts /\ MaxPorts \in Nat
  BY ServerAssumption DEF Inv, CapacityBound
<1>4. /\ pc \in Idle => Work = 0
      /\ pc \in {"reply", "reply_freed"} => Work = 1
      /\ pc = "update" => Work = 2
      /\ pc = "sweep" => Work = Cardinality(sweep) + 3
      /\ pc = "dispatch" => Work = MaxPorts + 4
  BY DEF Work, Idle
<1>5. Size \in 0 .. MaxPorts
  BY <1>2, <1>3
<1> QED
  BY <1>1, <1>2, <1>4, <1>5 DEF Works

\* The work for one request is bounded by the size of the table, and none is left exactly
\* when the server waits or has ended (main of oit_ns.cpp).
WorkBounded == Work \in 0 .. MaxPorts + 4 /\ (Work = 0 <=> pc \in Idle)

\* A request never has more than MaxPorts + 4 steps of the server before it.
THEOREM WorkIsBounded == Spec => []WorkBounded
<1>1. Works => WorkBounded
  <2> SUFFICES ASSUME Works PROVE WorkBounded
    OBVIOUS
  <2>1. MaxPorts \in Nat /\ Size \in 0 .. MaxPorts
    BY ServerAssumption DEF Works
  <2> QED
    BY <2>1 DEF Works, WorkBounded, Idle
<1> QED
  BY <1>1, InvHolds, WorksHold, PTL

\* Once it has a datagram, every step of the server leaves it less to do until it waits again,
\* however the clock moves in between: neither the sweep nor a handler goes on for ever
\* (clear_timedout_services, generate_response).
Advances == pc \in Idle \/ Tick \/ Work' < Work

\* The server never works in vain on a request: with fairness, each one is answered.
THEOREM ServerAdvances == Spec => [][Advances]_vars
<1>1. Works /\ Works' /\ [Next]_vars => [Advances]_vars
  <2> SUFFICES ASSUME Works, Works', Next, pc \notin Idle, ~Tick PROVE Work' < Work
    BY DEF Advances
  <2>1. ServerStep
    BY DEF Next, Environment, Receive, ReceiveInvalid, ReceiveNothing, Idle
  <2>2. MaxPorts \in Nat /\ Cardinality(sweep) \in Nat /\ Size \in 0 .. MaxPorts
    BY ServerAssumption DEF Works
  <2>3. CASE BeginSweep
    <3>1. Work = MaxPorts + 4 /\ Work' = Cardinality(DOMAIN table) + 3
      BY <2>3 DEF BeginSweep, Works
    <3> QED
      BY <2>2, <3>1 DEF Size
  <2>4. ASSUME NEW s \in sweep, SweepEntry(s) PROVE Work' < Work
    <3>1. Cardinality(sweep \ {s}) = Cardinality(sweep) - 1
      BY FS_RemoveElement DEF Works
    <3>2. Work = Cardinality(sweep) + 3 /\ Work' = Cardinality(sweep \ {s}) + 3
      BY <2>4 DEF SweepEntry, Works
    <3> QED
      BY <2>2, <3>1, <3>2
  <2>5. ASSUME pc \in {"dispatch", "sweep"}, pc' \in {"update", "reply"} PROVE Work' < Work
    <3>1. Work >= 3 /\ Work' <= 2
      BY <2>2, <2>5 DEF Works
    <3>2. Work \in Nat /\ Work' \in Nat
      BY <2>2, <2>5 DEF Works
    <3> QED
      BY <3>1, <3>2
  <2>6. CASE \/ \E t \in {DEFINE_PORT, KEEP_ALIVE} : PortsFull(t)
             \/ DefineService \/ KeepAlive \/ LookupServicePort \/ RemoveService
             \/ Shutdown \/ EchoResponse
    BY <2>5, <2>6 DEF PortsFull, DefineService, KeepAlive, LookupServicePort, RemoveService,
       Shutdown, EchoResponse, Handle, Respond
  <2>7. CASE UpdateService
    BY <2>7 DEF UpdateService, Respond, Works
  <2>8. CASE SendReply
    BY <2>8 DEF SendReply, Works, Idle
  <2> QED
    BY <2>1, <2>3, <2>4, <2>6, <2>7, <2>8 DEF ServerStep
<1> QED
  BY <1>1, InvHolds, WorksHold, PTL DEF Spec
===============================================================================
