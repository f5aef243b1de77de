----------------------------- MODULE MCNameServer -----------------------------
(* Small instances of NameServer for TLC. *)
EXTENDS NameServer, TLC

CONSTANTS n1, n2, long, junk, empty

MCNames == {n1, n2, long, junk, empty}
MCPorts == {0, 1, 2}

Ask(t, s, p) == [msg_type |-> t, status |-> SUCCESS, name |-> s, port |-> p]

\* every request about one service; another one that keeps to its own port; and a
\* third whose name fills its 50 bytes, for a table of two
Requests(s) ==
  {Ask(t, s, p) : t \in {DEFINE_PORT, KEEP_ALIVE, CLOSE_PORT}, p \in {1, 2}}
    \cup {Ask(LOOKUP_PORT, s, p) : p \in {0, 1}}

Crowd ==
  Requests(n1)
    \cup {Ask(t, n2, 2) : t \in {DEFINE_PORT, KEEP_ALIVE, CLOSE_PORT}}
    \cup {Ask(LOOKUP_PORT, n2, 0), Ask(DEFINE_PORT, long, 1), Ask(STOP, empty, 0)}
    \cup {[Ask(RESPONSE, n1, 1) EXCEPT !.status = ALL_PORTS_BUSY]}
===============================================================================
