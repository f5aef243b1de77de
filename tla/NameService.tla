------------------------------ MODULE NameService ------------------------------
(***************************************************************************)
(* What the name server and the client library promise together: a call    *)
(* takes effect at most once, at one instant between its beginning and its *)
(* end, on the registry of leases, and returns what that effect decided.   *)
(* Some calls never return: they were lost, before their effect or after.  *)
(***************************************************************************)
EXTENDS LeaseRegistry

CONSTANTS
  Thread,
  Asks,      \* thread -> the requests it may make
  ReadAs,    \* name -> the services it may be taken for
  Trusting   \* threads that do not look at the status of an answer

VARIABLES
  call,      \* thread -> [stage, msg, outcome]; outcome: what was decided, if it was
  result     \* thread -> [msg, value] of its last call

NoRequest == [stage |-> "none", msg |-> BadRequest, outcome |-> {}]

NInit ==
  /\ RInit
  /\ call = [t \in Thread |-> NoRequest]
  /\ result = [t \in Thread |-> [msg |-> BadRequest, value |-> 0]]

Begin(t, m) ==
  /\ call[t].stage = "none"
  /\ call' = [call EXCEPT ![t] = [stage |-> "asked", msg |-> m, outcome |-> {}]]
  /\ UNCHANGED <<rvars, result>>

Fail(t, m) ==
  /\ call[t].stage = "none"
  /\ result' = [result EXCEPT ![t] = [msg |-> m, value |-> -1]]
  /\ UNCHANGED <<rvars, call>>

Told(t, status, port) ==
  /\ call[t].stage = "asked" /\ call[t].outcome = {}
  /\ call' = [call EXCEPT ![t].outcome = {<<status, port>>}]
  /\ UNCHANGED result

\* the registry decides this very call
TakeEffect(t) ==
  LET m == call[t].msg IN
    /\ answer = NoOutcome /\ answer' # NoOutcome
    /\ answer'.msg_type = m.msg_type /\ answer'.name \in ReadAs[m.name] /\ answer'.port = m.port
    /\ Told(t, answer'.status, answer'.told)
    /\ RNext

\* a request that is no request_t, or asks nothing of the registry
NoEffect(t) ==
  LET m == call[t].msg IN
    /\ IF m \notin Message THEN Told(t, UNDEFINED_ERROR, 0)
       ELSE m.msg_type \notin DEFINE_PORT .. CLOSE_PORT /\ Told(t, SUCCESS, m.port)
    /\ UNCHANGED rvars

Lost(t) ==
  /\ call[t].stage = "asked"
  /\ call' = [call EXCEPT ![t] = [stage |-> "lost", msg |-> @.msg, outcome |-> {}]]
  /\ UNCHANGED <<rvars, result>>

End(t) ==
  /\ \E o \in call[t].outcome :
       result' = [result EXCEPT ![t] =
         [msg |-> call[t].msg, value |-> IF o[1] = SUCCESS \/ t \in Trusting THEN o[2] ELSE -4]]
  /\ call' = [call EXCEPT ![t] = NoRequest]
  /\ UNCHANGED rvars

\* time passes, leases end, an answer is handed over
Background ==
  /\ Pass \/ Deliver \/ \E s \in Name : Drop(s)
  /\ UNCHANGED <<call, result>>

NNext ==
  \/ Background
  \/ \E t \in Thread : TakeEffect(t) \/ NoEffect(t) \/ Lost(t) \/ End(t)
  \/ \E t \in Thread : \E m \in Asks[t] : Begin(t, m) \/ Fail(t, m)

NSpec == NInit /\ [][NNext]_<<rvars, call, result>>
===============================================================================
