----------------------------- MODULE LeaseRegistry -----------------------------
(***************************************************************************)
(* What the name server promises: a bounded map of leases in which every   *)
(* request takes effect at one instant.  A lease is fixed when it is       *)
(* granted: it keeps its port and its end until it is closed by a request  *)
(* that names the port, or until it has run out.  (The server answers      *)
(* SUCCESS to a KEEP_ALIVE and to the redefinition of an expired service   *)
(* without changing the lease; the promise made here is the one it keeps.) *)
(***************************************************************************)
EXTENDS NameServerMessages, FiniteSets

CONSTANTS Capacity, Term

VARIABLES
  clock,
  leases,  \* service name -> [port, timeout]
  answer   \* the outcome of the request being answered, or NoOutcome

rvars == <<clock, leases, answer>>

Held == DOMAIN leases
Over(s)    == leases[s].timeout < clock     \* may be dropped
Ending(s)  == leases[s].timeout <= clock    \* may be asked for again

Without(s) == [x \in Held \ {s} |-> leases[x]]
With(s, p) == [x \in Held \cup {s} |->
                 IF x = s THEN [port |-> p, timeout |-> clock + Term] ELSE leases[x]]

RInit ==
  /\ clock = 0
  /\ leases = [s \in {} |-> [port |-> 0, timeout |-> 0]]
  /\ answer = NoOutcome

Pass == clock' = clock + 1 /\ UNCHANGED <<leases, answer>>

\* a lease that has run out may be dropped at any time
Drop(s) ==
  /\ s \in Held /\ Over(s)
  /\ leases' = Without(s)
  /\ UNCHANGED <<clock, answer>>

Decide(t, s, p, st, told) ==
  /\ answer = NoOutcome
  /\ answer' = Outcome(t, s, p, st, told)
  /\ UNCHANGED clock

\* a new lease needs a free place
Grant(s, p) ==
  /\ s \notin Held /\ Cardinality(Held) < Capacity
  /\ leases' = With(s, p)
  /\ Decide(DEFINE_PORT, s, p, SUCCESS, p)

\* SUCCESS without effect: a definition of a lease that has run out,
\* a keep-alive that names the port of the lease
Confirm(t, s, p) ==
  /\ s \in Held
  /\ \/ t = DEFINE_PORT /\ Ending(s)
     \/ t = KEEP_ALIVE /\ leases[s].port = p
  /\ Decide(t, s, p, SUCCESS, p)
  /\ UNCHANGED leases

Busy(t, s, p) ==
  /\ t \in {DEFINE_PORT, KEEP_ALIVE} /\ Cardinality(Held) >= Capacity
  /\ Decide(t, s, p, ALL_PORTS_BUSY, p)
  /\ UNCHANGED leases

Refuse(t, s, p, st) ==
  /\ \/ t = DEFINE_PORT  /\ st = SERVICE_IN_USE    /\ s \in Held /\ ~Ending(s)
     \/ t = KEEP_ALIVE   /\ st = INVALID_ARG       /\ (s \in Held => leases[s].port # p)
     \/ t = LOOKUP_PORT  /\ st = INVALID_ARG       /\ p # 0
     \/ t = LOOKUP_PORT  /\ st = SERVICE_NOT_FOUND /\ p = 0 /\ s \notin Held
     \/ t = CLOSE_PORT   /\ st = INVALID_ARG       /\ s \in Held /\ leases[s].port # p
     \/ t = CLOSE_PORT   /\ st = SERVICE_NOT_FOUND /\ s \notin Held
  /\ Decide(t, s, p, st, p)
  /\ UNCHANGED leases

\* a look-up finds the lease of the service, or clears it away
Tell(s) ==
  /\ s \in Held
  /\ \/ ~Over(s) /\ Decide(LOOKUP_PORT, s, 0, SUCCESS, leases[s].port) /\ UNCHANGED leases
     \/ Over(s) /\ Decide(LOOKUP_PORT, s, 0, SERVICE_NOT_FOUND, 0) /\ leases' = Without(s)

Close(s, p) ==
  /\ s \in Held /\ leases[s].port = p
  /\ leases' = Without(s)
  /\ Decide(CLOSE_PORT, s, p, SUCCESS, p)

Deliver == answer # NoOutcome /\ answer' = NoOutcome /\ UNCHANGED <<clock, leases>>

RNext ==
  \/ Pass
  \/ \E s \in Name : Drop(s) \/ Tell(s)
  \/ \E s \in Name, p \in PortNo :
       \/ Grant(s, p)
       \/ Close(s, p)
       \/ \E t \in MsgType : Confirm(t, s, p) \/ Busy(t, s, p) \/ \E st \in Status : Refuse(t, s, p, st)
  \/ Deliver

RSpec == RInit /\ [][RNext]_rvars
===============================================================================
