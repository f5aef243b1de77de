----------------------------- MODULE MCPortClient -----------------------------
(* Two threads of the library, in two processes or in one, a C# client, and the
   name server; or, in behaviours of their own, one request_t conveyed byte by
   byte, and perhaps answered: names of three bytes, ports whose bytes differ, and
   the first values outside the ranges of msg_type and status. *)
EXTENDS PortClient, Codec, TLC

CONSTANTS t1, t2, t3, s1, s2, empty, sock1, sock2, sock3

WirePorts == {255, 49153}
WireHeads == {<<1, 0>>, <<6, 5>>, <<0, 0>>, <<7, 0>>, <<1, -1>>, <<1, 6>>}

MCNames == {s1, s2, empty}
MCPorts == {0, 1, 2}
Ask(t, s, p) == [msg_type |-> t, status |-> SUCCESS, name |-> s, port |-> p]

OwnSockets == t1 :> sock1 @@ t2 :> sock2 @@ t3 :> sock3
OneSocket  == t1 :> sock1 @@ t2 :> sock1

\* a server that registers itself, and a client of it, which may ask for what the
\* server of lab2 does not know, register a service or stop the name server; and a C# client
ServerAndClient ==
  t1 :> {Ask(DEFINE_PORT, s1, 1), Ask(KEEP_ALIVE, s1, 1), Ask(CLOSE_PORT, s1, 1)}
    @@ t2 :> {Ask(LOOKUP_PORT, s1, 0), Ask(REQUEST_PORT, s2, 0), Ask(DEFINE_PORT, s2, 2),
              Ask(STOP, empty, 0)}
    @@ t3 :> {Ask(LOOKUP_PORT, s1, 0)}

\* two threads that each look after a service of their own, as the main thread
\* and the handlers of the file-transfer server do
TwoServices ==
  t1 :> {Ask(DEFINE_PORT, s1, 1), Ask(LOOKUP_PORT, s1, 0)}
    @@ t2 :> {Ask(DEFINE_PORT, s2, 2), Ask(LOOKUP_PORT, s2, 0)}

Convey == calls = 0 /\ now = 0 /\ CodecNext /\ UNCHANGED allVars

MCInit     == CInit /\ CodecInit
MCNext     == (CNext /\ conveyed = Nothing /\ UNCHANGED conveyed) \/ Convey
MCSpec     == MCInit /\ [][MCNext]_<<allVars, conveyed>>
FairMCSpec == MCSpec /\ CFairness
===============================================================================
