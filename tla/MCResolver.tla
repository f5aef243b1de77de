----------------------------- MODULE MCResolver -----------------------------
(* Two hosts of one zone, ftp an alias of www, and two servers for the zone.
   The root knows the first, the first refers to the second or has no address
   of it, and the second knows the address of www.  The root may be silent: its
   query then reads what an earlier one has left, in step when the names are of one
   length, and out of step for the empty name of a client that has left.  Or, in
   behaviours of their own,
   one reply to a name of one to three labels, decoded byte by byte: an address, an
   alias or an IPv6 address before it, and up to two servers of a zone. *)
EXTENDS Resolver, DnsMessage, TLC

CONSTANTS c1, c2, www, ftp, zone, n1, n2, address, another

MCNames == {www, ftp, zone, EmptyName}
MCTrim  == www :> zone @@ ftp :> zone @@ zone :> NoName @@ EmptyName :> NoName
MCOctets == www :> 14 @@ ftp :> 14 @@ zone :> 10 @@ EmptyName :> 0

Referral(n) == [answers |-> <<>>, refers |-> TRUE, referral |-> <<<<zone, n>>>>]
NoGlue == [answers |-> <<>>, refers |-> TRUE, referral |-> <<>>]
Answer == [answers |-> <<<<www, address>>>>, refers |-> FALSE, referral |-> <<>>]

\* read one byte further on, the address is that of the empty name; read elsewhere,
\* four bytes of anything are the address of www, or of a server of any zone
MCMisread ==
  {[Answer EXCEPT !.answers = <<<<EmptyName, address>>>>],
   [answers |-> <<<<www, another>>>>, refers |-> FALSE, referral |-> <<<<EmptyName, n2>>>>]}

MCSays == [q \in {n1, n2, root_server} \X MCNames |->
  CASE q[2] = EmptyName -> {Nothing}
    [] q[2] # EmptyName /\ q[1] = root_server -> {Referral(n1)}
    [] q[2] # EmptyName /\ q[1] = n1 -> {Referral(n2), NoGlue}
    [] q[2] # EmptyName /\ q[1] = n2 -> {Answer}]

MCRequests == c1 :> {ftp, "output"} @@ c2 :> {www, "dump", "shutdown"}

A(name, data)    == [owner |-> name, type |-> A_T, data |-> data]
AAAA(name)       == [owner |-> name, type |-> 28, data |-> [i \in 1 .. 16 |-> i]]
Alias(name, to)  == [owner |-> name, type |-> CNAME_T, data |-> to]
NS(name, server) == [owner |-> name, type |-> NS_T, data |-> server]

\* ww.z.c, its zones, and the servers n.z.c and nn.c
Questions == {<<<<119, 119>>, <<122>>, <<99>>>>, <<<<122>>, <<99>>>>, <<<<99>>>>}
ServerN   == <<<<110>>, <<122>>, <<99>>>>
ServerNN  == <<<<110, 110>>, <<99>>>>
Servers   == {ServerN, ServerNN}
Address1  == <<10, 0, 200, 1>>
Address2  == <<127, 7, 7, 7>>

Answers(q) == {<<>>, <<A(q, Address1)>>, <<AAAA(q), A(q, Address1)>>}
                \cup {<<Alias(q, n), A(n, Address2)>> : n \in Servers}
Zones(q)   == {SubSeq(q, i, Len(q)) : i \in DOMAIN q}
Named(q)   == {<<>>} \cup {<<NS(z, n)>> : z \in Zones(q), n \in Servers}
                \cup {<<NS(z, ServerN), NS(z, ServerNN)>> : z \in Zones(q)}
Glue(n, d) == {<<>>, <<A(n, d)>>, <<AAAA(n), A(n, d)>>}
Additional(a) ==
  CASE Len(a) = 0 -> {<<>>}
    [] Len(a) = 1 -> Glue(a[1].data, Address1)
    [] Len(a) = 2 -> {g \o h : g \in Glue(a[1].data, Address1), h \in Glue(a[2].data, Address2)}

Replies(q, a) ==
  {[question |-> q, answers |-> r, authority |-> a, additional |-> d, compress |-> c] :
     r \in Answers(q), d \in Additional(a), c \in BOOLEAN}
MCSent == UNION {UNION {Replies(q, a) : a \in Named(q)} : q \in Questions}

MCInit     == Init /\ DnsInit
MCNext     == \/ Next /\ reply = NoReply /\ UNCHANGED reply
              \/ threads = <<>> /\ backlog = <<>> /\ main = "loop" /\ DnsNext /\ UNCHANGED vars
MCSpec     == MCInit /\ [][MCNext]_<<vars, reply>> /\ Fairness
=============================================================================
