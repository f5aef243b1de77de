--------------------------- MODULE MCTransferServer ---------------------------
\* Small instances of TransferServer.
EXTENDS TransferServer, TLC

CONSTANTS c1, c2

OneClient   == {c1}
TwoClients  == {c1, c2}
ClientSymmetry == Permutations(Client)

Everything  == {"get", "bad", "exit", "shutdown"}
OnlyGet     == {"get"}
GetOrStop   == {"get", "shutdown"}

OnePort     == {1}
TwoPorts    == {1, 2}

NoFaults    == {}
Late        == {"slow", "file", "expire"}
=============================================================================
