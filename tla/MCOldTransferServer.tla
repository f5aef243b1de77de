------------------------- MODULE MCOldTransferServer -------------------------
(* Three clients, one of them slow, that ask for one of two files, one of which
   comes and goes, or type something else; two ports, whose leases may run out.
   Two of the clients are alike: the second connects before the third. *)
EXTENDS OldTransferServer

CONSTANTS c1, c2, c3

MCOther == {"exit", "shutdown", "get"}

InOrder == client[c2].pc = "away" => client'[c3].pc = "away"
MCSpec  == Init /\ [][Next /\ InOrder]_vars /\ WF_vars(ServerStep)
=============================================================================
