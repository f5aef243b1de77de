---------------------------- MODULE TransferService ----------------------------
(***************************************************************************)
(* What the file transfer server promises its clients: the files of the    *)
(* directory a client asked for, in their order, each once at most, and    *)
(* only while it waits for them.  Where the service is lossy, files may be *)
(* passed over; otherwise a conversation that ends has delivered them all, *)
(* or, when the request was refused, none.                                 *)
(***************************************************************************)
EXTENDS Integers

CONSTANTS Client, Files, Lossy

VARIABLES
  stage,   \* client -> where it is in its conversation
  coming,  \* client -> the file on its way to it, or 0
  have     \* client -> the files it got for its last command

svars == <<stage, coming, have>>

ServiceInit ==
  /\ stage = [c \in Client |-> "away"]
  /\ coming = [c \in Client |-> 0]
  /\ have = [c \in Client |-> {}]

Move(c, from, to) == stage[c] \in from /\ stage' = [stage EXCEPT ![c] = to]

Arrive(c) == Move(c, {"away"}, "idle") /\ UNCHANGED <<coming, have>>

Request(c) ==
  /\ Move(c, {"idle"}, "asked")
  /\ have' = [have EXCEPT ![c] = {}]
  /\ UNCHANGED coming

\* a file behind all that it has; the next one, where none is passed over
Fetch(c, f) ==
  /\ stage[c] = "asked" /\ coming[c] = 0
  /\ IF Lossy THEN have[c] \subseteq 1 .. f - 1 ELSE have[c] = 1 .. f - 1
  /\ coming' = [coming EXCEPT ![c] = f]
  /\ UNCHANGED <<stage, have>>

\* all of it, or nothing, when the server ends
Arrives(c) ==
  /\ coming[c] # 0
  /\ coming' = [coming EXCEPT ![c] = 0]
  /\ have' \in {have, [have EXCEPT ![c] = @ \cup {coming[c]}]}
  /\ UNCHANGED stage

Finish(c) ==
  /\ coming[c] = 0
  /\ Lossy \/ have[c] = {} \/ have[c] = 1 .. Files
  /\ Move(c, {"asked"}, "idle")
  /\ UNCHANGED <<coming, have>>

\* with a last command, or in the middle of anything
Leave(c) ==
  /\ \/ Move(c, {"idle"}, "left") /\ have' = [have EXCEPT ![c] = {}]
     \/ Move(c, {"idle", "asked"}, "left") /\ UNCHANGED have
  /\ coming' = [coming EXCEPT ![c] = 0]

ServiceNext ==
  \E c \in Client :
    \/ Arrive(c) \/ Request(c) \/ Arrives(c) \/ Finish(c) \/ Leave(c)
    \/ \E f \in 1 .. Files : Fetch(c, f)

ServiceSpec == ServiceInit /\ [][ServiceNext]_svars
=============================================================================
