-------------------------- MODULE NameServerMessages --------------------------
(***************************************************************************)
(* The datagram format of the name service: request_t of nameserver.h,     *)
(* shared by the server (lab2) and by its client library (getport.c).      *)
(* Service names are opaque here; module Codec models them byte by byte.   *)
(***************************************************************************)
EXTENDS Integers

CONSTANTS
  Name,       \* the strings the server may hold as a service name
  EmptyName,  \* the name of a zero-filled request_t
  PortNo      \* port numbers: uint16_t, the server only tells 0 from the rest

ASSUME MessagesAssumption ==
  /\ EmptyName \in Name
  /\ PortNo \subseteq 0 .. 65535
  /\ 0 \in PortNo

\* msg_type
DEFINE_PORT == 1
LOOKUP_PORT == 2
KEEP_ALIVE  == 3
CLOSE_PORT  == 4
RESPONSE    == 5
STOP        == 6

\* status
SUCCESS           == 0
SERVICE_IN_USE    == 1
SERVICE_NOT_FOUND == 2
ALL_PORTS_BUSY    == 3
INVALID_ARG       == 4
UNDEFINED_ERROR   == 5

MsgType == DEFINE_PORT .. STOP
Status  == SUCCESS .. UNDEFINED_ERROR

\* a request_t that is_invalid accepts
Message == [msg_type : MsgType, status : Status, name : Name, port : PortNo]

\* the answer to m: the handlers overwrite the request in place
AnswerPort(m, status, port) ==
  [msg_type |-> RESPONSE, status |-> status, name |-> m.name, port |-> port]
Answer(m, status) == AnswerPort(m, status, m.port)

\* the answer to a datagram that could not be decoded, built on a zeroed request_t
BadRequest ==
  [msg_type |-> RESPONSE, status |-> UNDEFINED_ERROR, name |-> EmptyName, port |-> 0]

\* what a client can tell of a request and its answer: type, service and port
\* asked for, status and port told
Outcome(t, s, p, st, told) ==
  [msg_type |-> t, name |-> s, port |-> p, status |-> st, told |-> told]

NoOutcome == Outcome(0, EmptyName, 0, SUCCESS, 0)
===============================================================================
