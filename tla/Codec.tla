--------------------------------- MODULE Codec ---------------------------------
(***************************************************************************)
(* Marshalling of request_t, byte for byte, with service_name shrunk to    *)
(* NameLen bytes (50 in the code), by each of the four hosts that speak    *)
(* it: the codec of lab2, the earlier one of lab1, the library of          *)
(* getport.c and the client of Program.cs.  All are little-endian, so      *)
(* htons and ntohs, and the Array.Reverse of C#, exchange two bytes.  One  *)
(* message is conveyed from one host, or from a sender that is none of     *)
(* them, to another; or to the name server, and its answer to a host.      *)
(***************************************************************************)
EXTENDS Integers

CONSTANTS
  Char,     \* char values other than '\0', one byte each on the wire
  NameLen,  \* sizeof(service_name), MAX_SERVICE_NAME_LEN + 1
  Ports,    \* the ports tried
  Heads     \* the pairs of int8_t msg_type and status tried

VARIABLE conveyed   \* the message: who sent it, from what, its bytes, who took it,
                    \* and the datagram it answers

NUL == 0
Short == {p \in Nat : p < 65536}   \* unsigned short

ASSUME CodecAssumption ==
  /\ NUL \notin Char
  /\ NameLen \in Nat /\ NameLen > 1
  /\ Ports \subseteq Short
  /\ Heads \subseteq (-128 .. 127) \X (-128 .. 127)

Host     == {"lab1", "lab2", "library", "csharp"}
Place    == {"same", "other"}     \* whether the two buffers of a call are one
Names    == [1 .. NameLen -> Char \cup {NUL}]
Requests == {[port |-> p, msg_type |-> h[1], status |-> h[2], name |-> n] :
               p \in Ports, h \in Heads, n \in Names}

\* what the other buffer may hold before the call
Blank(c) == [port |-> 0, msg_type |-> 0, status |-> 0, name |-> [i \in 1 .. NameLen |-> c]]
Zeroed   == Blank(NUL)
Buffers  == {Blank(c) : c \in Char \cup {NUL}}

Swap(p) == (p % 256) * 256 + p \div 256

\* strncpy(dest, name, n): what is copied up to the first NUL, zero-filled
HasNul(name, n) == \E i \in 1 .. n : name[i] = NUL
StrNCpy(name, n) == [i \in 1 .. n |-> IF HasNul(name, i) THEN NUL ELSE name[i]]

\* mutant of CopyName: memcpy of the whole name, no zero fill
CopyNameRaw(buff, name) == name

\* lab2 copies one byte short of the field: the last byte of buff stays
CopyName(buff, name) ==
  [i \in 1 .. NameLen |-> IF i < NameLen THEN StrNCpy(name, NameLen - 1)[i] ELSE buff.name[i]]

\* lab1 clears what follows the terminator, and the library copies into a request_t
\* of zeros: to the end of the field.  The C# constructor copies every char it is given.
FillName(name) == StrNCpy(name, NameLen)

CopyHead(buff, from) ==
  [buff EXCEPT !.port = from.port, !.msg_type = from.msg_type, !.status = from.status]

InRange(r) == r.msg_type \in 1 .. 6 /\ r.status \in 0 .. 5

(***************************************************************************)
(* encode(request, buff): what the pointer it returns points to.  That of  *)
(* lab1 is always request, and buff in the caller stays what it was.       *)
(***************************************************************************)
EncodedLab2(place, request, old) ==
  LET base == IF place = "same" THEN request ELSE old IN
    [CopyHead(base, request) EXCEPT !.port = Swap(@), !.name = CopyName(base, request.name)]

EncodedInPlace(request) == [request EXCEPT !.port = Swap(@), !.name = FillName(@)]

Encoded(host, place, request, old) ==
  IF host = "lab2" THEN EncodedLab2(place, request, old)
  ELSE IF host = "csharp" THEN [request EXCEPT !.port = Swap(@)]
  ELSE EncodedInPlace(request)

\* NULL is returned
EncodeFails(host, wire) == host \in {"lab1", "lab2"} /\ ~InRange(wire)

\* a C string that fits the field
Terminated(r) == HasNul(r.name, NameLen)

\* mutant of IsInvalid: the fill is not looked at
IsInvalidHead(r) == ~InRange(r)

\* bytes after the first NUL must be NUL; a name without one is not looked at
IsInvalid(r) ==
  \/ ~InRange(r)
  \/ \E i, j \in 1 .. NameLen : i < j /\ r.name[i] = NUL /\ r.name[j] # NUL

(***************************************************************************)
(* decode(buff, decoded).  Callers pass the datagram as decoded and, when  *)
(* there are two buffers, a zeroed request_t as buff.  lab1 checks the     *)
(* bytes it was given, lab2 those it has written, and the other two none.  *)
(***************************************************************************)
DecodedLab2(place, wire) ==
  LET copy == IF place = "same" THEN wire
              ELSE [CopyHead(Zeroed, wire) EXCEPT !.name = CopyName(Zeroed, wire.name)]
  IN  [copy EXCEPT !.port = Swap(@)]

\* mutant of DecodedInPlace: the port is not swapped
DecodedHostOrder(wire) == wire

DecodedInPlace(wire) == [wire EXCEPT !.port = Swap(@)]

Decoded(host, place, wire) ==
  IF host = "lab2" THEN DecodedLab2(place, wire) ELSE DecodedInPlace(wire)

DecodeFails(host, place, wire) ==
  \/ host = "lab1" /\ IsInvalid(wire)
  \/ host = "lab2" /\ IsInvalid(DecodedLab2(place, wire))

(***************************************************************************)
(* One message, from the sender's request to what the receiver has of it.  *)
(***************************************************************************)
Nothing == [at |-> "idle"]

CodecInit == conveyed = Nothing

\* only encode of lab2 writes to a second buffer; the strcpy of the library takes a
\* string that fits
Encode(host, place, request, old) ==
  /\ conveyed = Nothing
  /\ host # "lab2" => place = "same"
  /\ place = "same" => old = Zeroed
  /\ host = "library" => Terminated(request)
  /\ LET wire == Encoded(host, place, request, old) IN
       conveyed' = [at |-> IF EncodeFails(host, wire) THEN "refused" ELSE "sent",
                    from |-> host, place |-> place, asked |-> request, old |-> old,
                    bytes |-> wire, by |-> "nobody", to |-> Nothing]

\* a datagram that none of them made
Arrive(wire) ==
  /\ conveyed = Nothing
  /\ conveyed' = [at |-> "sent", from |-> "stranger", place |-> "same", asked |-> wire,
                   old |-> Zeroed, bytes |-> wire, by |-> "nobody", to |-> Nothing]

\* create_bad_request_response of a new request_t
BadAnswer == [Zeroed EXCEPT !.msg_type = 5, !.status = 5]

Unchanged == -1   \* the port of an answer whose handler puts none

\* The name server decodes a datagram in place; the handlers put a type and a status,
\* and some a port, into the same request_t, and it is encoded in place.
Serve(status, port) ==
  /\ conveyed # Nothing /\ conveyed.at = "sent" /\ conveyed.to = Nothing
  /\ LET wire     == conveyed.bytes
         request  == Decoded("lab2", "same", wire)
         answer   == IF DecodeFails("lab2", "same", wire) THEN BadAnswer
                     ELSE [request EXCEPT !.msg_type = 5, !.status = status,
                                          !.port = IF port \in Ports THEN port ELSE @]
     IN  conveyed' = [at |-> "sent", from |-> "lab2", place |-> "same", asked |-> answer,
                      old |-> Zeroed, bytes |-> Encoded("lab2", "same", answer, Zeroed),
                      by |-> "nobody", to |-> wire]

Decode(host, place) ==
  /\ conveyed # Nothing /\ conveyed.at = "sent"
  /\ host # "lab2" => place = "same"
  /\ LET wire == conveyed.bytes IN
       conveyed' = [conveyed EXCEPT
         !.at = IF DecodeFails(host, place, wire) THEN "refused" ELSE "taken",
         !.bytes = Decoded(host, place, wire), !.by = host]

CodecNext ==
  \/ \E host \in Host, place \in Place :
       \/ Decode(host, place)
       \/ \E request \in Requests, old \in Buffers : Encode(host, place, request, old)
  \/ \E wire \in Requests : Arrive(wire)
  \/ \E status \in 0 .. 5, port \in Ports \cup {Unchanged} : Serve(status, port)

CodecSpec == CodecInit /\ [][CodecNext]_conveyed
-------------------------------------------------------------------------------
Ended == conveyed # Nothing /\ conveyed.at \in {"taken", "refused"}

\* what of a request is its C string
Canonical(r)  == [r EXCEPT !.name = StrNCpy(@, NameLen)]

\* the byte that the encode of lab2 does not write is already NUL
LastByteClear ==
  conveyed.from = "lab2" =>
    (IF conveyed.place = "same" THEN conveyed.asked ELSE conveyed.old).name[NameLen] = NUL

\* chars behind the NUL of a name, which only the C# host sends along
Hides == conveyed.from = "csharp" /\ conveyed.asked # Canonical(conveyed.asked)

\* Whoever sends a terminated request and whoever receives it, it arrives as it
\* was asked for, the rest of its name zeroed, or is refused because its type or
\* status is out of range; the one thing it takes is that the buffer of a lab2
\* sender ends with NUL.  Only a name with chars behind its NUL that C# sends may be
\* refused for them, or arrive with them, and it is the same string all the same
\* (encode.cpp 13-113, lab1's encode.c, getport.c 84-92, Program.cs 81-100).
ArrivesAsAsked ==
  Ended =>
    (conveyed.from # "stranger" /\ Terminated(conveyed.asked) /\ LastByteClear =>
       IF conveyed.at = "taken"
       THEN /\ Canonical(conveyed.bytes) = Canonical(conveyed.asked)
            /\ ~Hides => conveyed.bytes = Canonical(conveyed.asked)
       ELSE ~InRange(conveyed.asked) \/ Hides)

CutLast(name) == [name EXCEPT ![NameLen] = NUL]

\* Whoever asked the name server, no host refuses its answer, and it reads there the
\* status and the port that were put and, byte for byte, the name of the datagram
\* that is answered: names of all the 50 bytes too, though encode writes 49 of them,
\* unless decoded through a second buffer, which loses the last; and a datagram out of
\* range, or with bytes behind the NUL of its name, gets no name (oit_ns.cpp 338-399).
AnswerComesBack ==
  Ended /\ conveyed.to # Nothing =>
    LET datagram == conveyed.to
        answer   == conveyed.bytes IN
      /\ conveyed.at = "taken"
      /\ IF InRange(datagram) /\ Canonical(datagram) = datagram
         THEN /\ \/ answer.name = datagram.name
                 \/ conveyed.by = "lab2" /\ answer.name = CutLast(datagram.name)
              /\ answer = [conveyed.asked EXCEPT !.name = answer.name]
         ELSE answer = BadAnswer
===============================================================================
