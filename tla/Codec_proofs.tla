----------------------------- MODULE Codec_proofs -----------------------------
(***************************************************************************)
(* What arrives is what was asked for, for every length of a name, every   *)
(* set of characters, ports, types and status values, and every pair of    *)
(* hosts; and what comes back is what the name server answered.            *)
(***************************************************************************)
EXTENDS Codec, TLAPS

Wires == [port : Short, msg_type : Int, status : Int, name : Names]

\* The requests and buffers that the behaviours speak of are wires (request_t).
LEMMA RequestsAreWires == Requests \subseteq Wires /\ Buffers \subseteq Wires
<1>1. Requests \subseteq Wires
  <2> SUFFICES ASSUME NEW p \in Ports, NEW h \in Heads, NEW n \in Names
               PROVE [port |-> p, msg_type |-> h[1], status |-> h[2], name |-> n] \in Wires
    BY DEF Requests
  <2>1. p \in Short /\ h[1] \in Int /\ h[2] \in Int
    BY CodecAssumption
  <2> QED
    BY <2>1 DEF Wires
<1>2. Buffers \subseteq Wires
  <2> SUFFICES ASSUME NEW c \in Char \cup {NUL} PROVE Blank(c) \in Wires
    BY DEF Buffers
  <2>1. [i \in 1 .. NameLen |-> c] \in Names
    BY DEF Names
  <2>2. 0 \in Short /\ 0 \in Int
    BY DEF Short
  <2> QED
    BY <2>1, <2>2 DEF Blank, Wires
<1> QED
  BY <1>1, <1>2

\* htons and ntohs undo one another (encode.cpp 22, 101).
LEMMA SwapTwice ==
  ASSUME NEW p \in Short
  PROVE  Swap(p) \in Short /\ Swap(Swap(p)) = p
<1> DEFINE a == p % 256
           b == p \div 256
<1>1. a \in 0 .. 255 /\ b \in 0 .. 255 /\ p = 256 * b + a
  BY DEF Short
<1>2. Swap(p) = a * 256 + b
  BY DEF Swap
<1> HIDE DEF a, b
<1>3. (a * 256 + b) % 256 = b /\ (a * 256 + b) \div 256 = a
  BY <1>1
<1>4. Swap(a * 256 + b) = b * 256 + a
  BY <1>3 DEF Swap
<1> QED
  BY <1>1, <1>2, <1>4 DEF Short

\* strncpy to the end of the field: a name, and itself once it was filled.
LEMMA StrNCpyFacts ==
  ASSUME NEW name \in Names
  PROVE  /\ StrNCpy(name, NameLen) \in Names
         /\ HasNul(name, NameLen) => StrNCpy(name, NameLen)[NameLen] = NUL
         /\ StrNCpy(StrNCpy(name, NameLen), NameLen) = StrNCpy(name, NameLen)
<1> DEFINE s == StrNCpy(name, NameLen)
<1>1. s \in Names
  BY CodecAssumption DEF Names, StrNCpy
<1>2. HasNul(name, NameLen) => s[NameLen] = NUL
  BY CodecAssumption DEF StrNCpy
<1>3. StrNCpy(s, NameLen) = s
  <2> SUFFICES ASSUME NEW i \in 1 .. NameLen, HasNul(s, i) PROVE s[i] = NUL
    BY DEF StrNCpy
  <2>1. PICK j \in 1 .. i : s[j] = NUL
    BY DEF HasNul
  <2>2. HasNul(name, j)
    BY <2>1, CodecAssumption DEF StrNCpy, HasNul
  <2>3. HasNul(name, i)
    BY <2>2, CodecAssumption DEF HasNul
  <2> QED
    BY <2>3 DEF StrNCpy
<1> QED
  BY <1>1, <1>2, <1>3

\* The copy that is one byte short fills the field all the same, when the last
\* byte is NUL already (encode.cpp 35-46).
LEMMA CopyNameFills ==
  ASSUME NEW buff \in Wires, NEW name \in Names,
         HasNul(name, NameLen), buff.name[NameLen] = NUL
  PROVE  CopyName(buff, name) = StrNCpy(name, NameLen)
<1>1. ASSUME NEW i \in 1 .. NameLen
      PROVE  CopyName(buff, name)[i] = StrNCpy(name, NameLen)[i]
  <2>1. CASE i < NameLen
    <3>1. i \in 1 .. NameLen - 1
      BY <2>1, CodecAssumption
    <3> QED
      BY <2>1, <3>1 DEF CopyName, StrNCpy
  <2>2. CASE i = NameLen
    BY <2>2, StrNCpyFacts, CodecAssumption DEF CopyName
  <2> QED
    BY <2>1, <2>2, CodecAssumption
<1> QED
  BY <1>1 DEF CopyName, StrNCpy

\* What copies of it are: still wires.
LEMMA CopyNameType ==
  ASSUME NEW buff \in Wires, NEW name \in Names
  PROVE  CopyName(buff, name) \in Names
<1> SUFFICES ASSUME NEW i \in 1 .. NameLen
             PROVE CopyName(buff, name)[i] \in Char \cup {NUL}
  BY DEF CopyName, Names
<1>1. CASE i < NameLen
  <2>1. i \in 1 .. NameLen - 1
    BY <1>1, CodecAssumption
  <2> QED
    BY <1>1, <2>1 DEF CopyName, StrNCpy, Names
<1>2. CASE ~(i < NameLen)
  BY <1>2 DEF CopyName, Wires, Names
<1> QED
  BY <1>1, <1>2

\* A terminated request on its way: its port swapped and its name filled.
OnTheWay(r) == [Canonical(r) EXCEPT !.port = Swap(@)]

\* Field by field.
LEMMA OnTheWayShape ==
  ASSUME NEW r \in Wires
  PROVE  OnTheWay(r) = [port |-> Swap(r.port), msg_type |-> r.msg_type, status |-> r.status,
                        name |-> StrNCpy(r.name, NameLen)]
<1>1. Canonical(r) = [port |-> r.port, msg_type |-> r.msg_type, status |-> r.status,
                      name |-> StrNCpy(r.name, NameLen)]
  BY DEF Canonical, Wires
<1> QED
  BY <1>1 DEF OnTheWay

\* What the C# host sends: the name with all its chars (Program.cs 45-49, 81-89).
AsIs(r) == [r EXCEPT !.port = Swap(@)]

\* Encoded by any host but C#, under the one condition on the buffer of lab2, a terminated
\* request is on its way; and by C# too, when there is nothing behind the NUL of its name
\* (encode.cpp 13-46, lab1's encode.c, getport.c 84-92, Program.cs 81).
LEMMA EncodedFacts ==
  ASSUME NEW host \in Host, NEW place \in Place, NEW r \in Wires, NEW old \in Wires
  PROVE  /\ Encoded(host, place, r, old) \in Wires
         /\ InRange(Encoded(host, place, r, old)) <=> InRange(r)
         /\ /\ Terminated(r)
            /\ host = "lab2" => (IF place = "same" THEN r ELSE old).name[NameLen] = NUL
            /\ host = "csharp" => r = Canonical(r)
            => Encoded(host, place, r, old) = OnTheWay(r)
         /\ host = "csharp" => Encoded(host, place, r, old) = AsIs(r)
<1> DEFINE base == IF place = "same" THEN r ELSE old
<1>0. base \in Wires /\ r.name \in Names /\ r.port \in Short /\ Swap(r.port) \in Short
  BY SwapTwice DEF Wires
<1>1. CASE host = "lab2"
  <2>1. Encoded(host, place, r, old) =
          [port |-> Swap(r.port), msg_type |-> r.msg_type, status |-> r.status,
           name |-> CopyName(base, r.name)]
    BY <1>1, <1>0 DEF Encoded, EncodedLab2, CopyHead, Wires
  <2>2. Encoded(host, place, r, old) \in Wires
    BY <2>1, <1>0, CopyNameType DEF Wires
  <2>3. Terminated(r) /\ base.name[NameLen] = NUL => CopyName(base, r.name) = StrNCpy(r.name, NameLen)
    BY <1>0, CopyNameFills DEF Terminated
  <2>4. OnTheWay(r) =
          [port |-> Swap(r.port), msg_type |-> r.msg_type, status |-> r.status,
           name |-> StrNCpy(r.name, NameLen)]
    BY OnTheWayShape
  <2>5. InRange(Encoded(host, place, r, old)) <=> InRange(r)
    BY <2>1 DEF InRange
  <2> HIDE DEF base
  <2>6. Terminated(r) /\ base.name[NameLen] = NUL => Encoded(host, place, r, old) = OnTheWay(r)
    BY <2>1, <2>3, <2>4
  <2> QED
    BY <1>1, <2>2, <2>5, <2>6 DEF base
<1>2. CASE host \in {"lab1", "library"}
  <2>1. Encoded(host, place, r, old) = OnTheWay(r)
    BY <1>2 DEF Encoded, EncodedInPlace, FillName, OnTheWay, Canonical, Wires
  <2>2. OnTheWay(r) =
          [port |-> Swap(r.port), msg_type |-> r.msg_type, status |-> r.status,
           name |-> StrNCpy(r.name, NameLen)]
    BY OnTheWayShape
  <2> QED
    BY <1>0, <1>2, <2>1, <2>2, StrNCpyFacts DEF InRange, Wires
<1>3. CASE host = "csharp"
  <2>1. Encoded(host, place, r, old) = AsIs(r)
    BY <1>3 DEF Encoded, AsIs
  <2>2. AsIs(r) = [port |-> Swap(r.port), msg_type |-> r.msg_type, status |-> r.status,
                   name |-> r.name]
    BY DEF AsIs, Wires
  <2>3. AsIs(r) \in Wires /\ (InRange(AsIs(r)) <=> InRange(r))
    BY <1>0, <2>2 DEF InRange, Wires
  <2>4. r = Canonical(r) => AsIs(r) = OnTheWay(r)
    BY DEF AsIs, OnTheWay
  <2> QED
    BY <1>3, <2>1, <2>3, <2>4
<1> QED
  BY <1>1, <1>2, <1>3 DEF Host

\* What is on its way, with its port swapped back, is the request as a C string.
LEMMA BackAgain ==
  ASSUME NEW r \in Wires, Terminated(r)
  PROVE  /\ OnTheWay(r) \in Wires
         /\ [OnTheWay(r) EXCEPT !.port = Swap(@)] = Canonical(r)
         /\ OnTheWay(r).name = StrNCpy(r.name, NameLen)
         /\ InRange(OnTheWay(r)) <=> InRange(r)
<1>1. OnTheWay(r) = [port |-> Swap(r.port), msg_type |-> r.msg_type, status |-> r.status,
                     name |-> StrNCpy(r.name, NameLen)]
  BY OnTheWayShape
<1>2. Canonical(r) = [port |-> r.port, msg_type |-> r.msg_type, status |-> r.status,
                      name |-> StrNCpy(r.name, NameLen)]
  BY DEF Canonical, Wires
<1>3. Swap(r.port) \in Short /\ Swap(Swap(r.port)) = r.port
  BY SwapTwice DEF Wires
<1>4. StrNCpy(r.name, NameLen) \in Names
  BY StrNCpyFacts DEF Wires
<1>5. OnTheWay(r) \in Wires
  BY <1>1, <1>3, <1>4 DEF Wires
<1>6. [OnTheWay(r) EXCEPT !.port = Swap(@)] = Canonical(r)
  BY <1>1, <1>2, <1>3
<1> QED
  BY <1>1, <1>5, <1>6 DEF InRange

\* What decode leaves of a wire, by place (encode.cpp 92-105).
LEMMA DecodedShape ==
  ASSUME NEW host \in Host, NEW place \in Place, NEW w \in Wires
  PROVE  /\ Decoded(host, place, w) \in Wires
         /\ Decoded(host, place, w) =
              [port |-> Swap(w.port), msg_type |-> w.msg_type, status |-> w.status,
               name |-> IF host = "lab2" /\ place # "same" THEN CopyName(Zeroed, w.name) ELSE w.name]
<1>1. Zeroed \in Wires
  BY RequestsAreWires DEF Zeroed, Buffers
<1>2. Swap(w.port) \in Short
  BY SwapTwice DEF Wires
<1>3. CopyName(Zeroed, w.name) \in Names
  BY <1>1, CopyNameType DEF Wires
<1>4. Decoded(host, place, w) =
        [port |-> Swap(w.port), msg_type |-> w.msg_type, status |-> w.status,
         name |-> IF host = "lab2" /\ place # "same" THEN CopyName(Zeroed, w.name) ELSE w.name]
  BY <1>1 DEF Decoded, DecodedLab2, DecodedInPlace, CopyHead, Wires
<1> QED
  BY <1>2, <1>3, <1>4 DEF Wires

\* A name that was filled has nothing behind its terminator (is_invalid).
LEMMA FilledIsValid ==
  ASSUME NEW w \in Wires, w.name = StrNCpy(w.name, NameLen)
  PROVE  IsInvalid(w) <=> ~InRange(w)
<1> SUFFICES ASSUME NEW i \in 1 .. NameLen, NEW j \in 1 .. NameLen, i < j,
                    w.name[i] = NUL
             PROVE  w.name[j] = NUL
  BY DEF IsInvalid
<1>1. HasNul(w.name, j)
  BY DEF HasNul
<1>2. StrNCpy(w.name, NameLen)[j] = NUL
  BY <1>1 DEF StrNCpy
<1> QED
  BY <1>2

\* And the other way round: what is_invalid lets pass was filled.
LEMMA ValidIsFilled ==
  ASSUME NEW w \in Wires, ~IsInvalid(w)
  PROVE  Canonical(w) = w
<1>1. StrNCpy(w.name, NameLen) = w.name
  <2> SUFFICES ASSUME NEW i \in 1 .. NameLen, HasNul(w.name, i) PROVE w.name[i] = NUL
    BY DEF StrNCpy, Wires, Names
  <2>1. PICK j \in 1 .. i : w.name[j] = NUL
    BY DEF HasNul
  <2>2. CASE j = i
    BY <2>1, <2>2
  <2>3. CASE j < i
    <3>1. j \in 1 .. NameLen
      BY CodecAssumption
    <3> QED
      BY <2>1, <2>3, <3>1 DEF IsInvalid
  <2> QED
    BY <2>2, <2>3
<1> QED
  BY <1>1 DEF Canonical, Wires

\* A terminated request on its way is taken as it was asked for, or refused for its
\* type or status, by every host.
LEMMA DecodedFacts ==
  ASSUME NEW host \in Host, NEW place \in Place, NEW r \in Wires, Terminated(r)
  PROVE  /\ Decoded(host, place, OnTheWay(r)) = Canonical(r)
         /\ DecodeFails(host, place, OnTheWay(r)) => ~InRange(r)
<1> DEFINE w == OnTheWay(r)
<1>1. /\ w \in Wires /\ [w EXCEPT !.port = Swap(@)] = Canonical(r)
      /\ w.name = StrNCpy(r.name, NameLen) /\ (InRange(w) <=> InRange(r))
  BY BackAgain
<1>2. /\ StrNCpy(w.name, NameLen) = w.name
      /\ w.name[NameLen] = NUL /\ HasNul(w.name, NameLen)
  BY <1>1, StrNCpyFacts, CodecAssumption DEF Wires, Terminated, HasNul
<1> HIDE DEF w
<1>3. Zeroed \in Wires /\ Zeroed.name[NameLen] = NUL
  BY RequestsAreWires, CodecAssumption DEF Zeroed, Blank, Buffers
<1>4. CopyName(Zeroed, w.name) = w.name
  BY <1>1, <1>2, <1>3, CopyNameFills DEF Wires
<1>5. Decoded(host, place, w) =
        [port |-> Swap(w.port), msg_type |-> w.msg_type, status |-> w.status, name |-> w.name]
  BY <1>1, <1>4, DecodedShape
<1>6. [w EXCEPT !.port = Swap(@)] =
        [port |-> Swap(w.port), msg_type |-> w.msg_type, status |-> w.status, name |-> w.name]
  BY <1>1 DEF Wires
<1>7. Decoded(host, place, w) = Canonical(r)
  BY <1>1, <1>5, <1>6
<1>8. DecodeFails(host, place, w) => ~InRange(r)
  <2>1. IsInvalid(w) <=> ~InRange(w)
    BY <1>1, <1>2, FilledIsValid
  <2>2. ASSUME host = "lab2" PROVE IsInvalid(DecodedLab2(place, w)) <=> ~InRange(w)
    <3>1. DecodedLab2(place, w) = Decoded(host, place, w)
      BY <2>2 DEF Decoded
    <3>2. Decoded(host, place, w) \in Wires /\ Decoded(host, place, w).name = w.name
      BY <1>1, <1>5, DecodedShape
    <3>3. InRange(Decoded(host, place, w)) <=> InRange(w)
      BY <1>5 DEF InRange
    <3> QED
      BY <1>2, <3>1, <3>2, <3>3, FilledIsValid
  <2> QED
    BY <1>1, <2>1, <2>2 DEF DecodeFails
<1> QED
  BY <1>7, <1>8 DEF w

\* The other way: with chars behind its NUL, it is the same string when it is taken.
LEMMA HiddenFacts ==
  ASSUME NEW host \in Host, NEW place \in Place, NEW r \in Wires, Terminated(r)
  PROVE  Canonical(Decoded(host, place, AsIs(r))) = Canonical(r)
<1> DEFINE w == AsIs(r)
           d == Decoded(host, place, w)
<1>1. w = [port |-> Swap(r.port), msg_type |-> r.msg_type, status |-> r.status, name |-> r.name]
  BY DEF AsIs, Wires
<1>2. Swap(r.port) \in Short /\ Swap(Swap(r.port)) = r.port /\ r.name \in Names
  BY SwapTwice DEF Wires
<1>3. w \in Wires
  BY <1>1, <1>2 DEF Wires
<1>4. Zeroed \in Wires /\ Zeroed.name[NameLen] = NUL
  BY RequestsAreWires, CodecAssumption DEF Zeroed, Blank, Buffers
<1>5. CopyName(Zeroed, r.name) = StrNCpy(r.name, NameLen)
  BY <1>2, <1>4, CopyNameFills DEF Terminated
<1>6. d = [port |-> r.port, msg_type |-> r.msg_type, status |-> r.status,
           name |-> IF host = "lab2" /\ place # "same" THEN StrNCpy(r.name, NameLen) ELSE r.name]
  BY <1>1, <1>2, <1>3, <1>5, DecodedShape
<1> HIDE DEF d
<1>7. StrNCpy(d.name, NameLen) = StrNCpy(r.name, NameLen)
  BY <1>2, <1>6, StrNCpyFacts
<1>8. Canonical(d) = [d EXCEPT !.name = StrNCpy(r.name, NameLen)]
  BY <1>7 DEF Canonical
<1>9. Canonical(r) = [port |-> r.port, msg_type |-> r.msg_type, status |-> r.status,
                      name |-> StrNCpy(r.name, NameLen)]
  BY DEF Canonical, Wires
<1> QED
  BY <1>6, <1>8, <1>9 DEF d

\* A filled name is copied as it is over itself, and over zeros but for its last byte
\* (encode.cpp 45 and 99).
LEMMA CopyFilled ==
  ASSUME NEW name \in Names, name = StrNCpy(name, NameLen)
  PROVE  /\ \A b \in Wires : b.name = name => CopyName(b, name) = name
         /\ CopyName(Zeroed, name) = CutLast(name)
         /\ CutLast(name) \in Names /\ CutLast(name) = StrNCpy(CutLast(name), NameLen)
<1>0. NameLen \in 1 .. NameLen
  BY CodecAssumption
<1>1. ASSUME NEW i \in 1 .. NameLen, i < NameLen
      PROVE  StrNCpy(name, NameLen - 1)[i] = name[i]
  <2>1. i \in 1 .. NameLen - 1
    BY <1>1, CodecAssumption
  <2>2. StrNCpy(name, NameLen - 1)[i] = IF HasNul(name, i) THEN NUL ELSE name[i]
    BY <2>1 DEF StrNCpy
  <2>3. StrNCpy(name, NameLen)[i] = IF HasNul(name, i) THEN NUL ELSE name[i]
    BY DEF StrNCpy
  <2> QED
    BY <2>2, <2>3
<1>2. ASSUME NEW b \in Wires, b.name = name
      PROVE  CopyName(b, name) = name
  <2>1. ASSUME NEW i \in 1 .. NameLen PROVE CopyName(b, name)[i] = name[i]
    BY <1>1, <1>2 DEF CopyName
  <2> QED
    BY <2>1 DEF CopyName, Names
<1>3. Zeroed.name = [i \in 1 .. NameLen |-> NUL]
  BY DEF Zeroed, Blank
<1>4. CutLast(name) = [i \in 1 .. NameLen |-> IF i = NameLen THEN NUL ELSE name[i]]
  BY DEF CutLast, Names
<1>5. CopyName(Zeroed, name) = CutLast(name)
  <2>1. ASSUME NEW i \in 1 .. NameLen PROVE CopyName(Zeroed, name)[i] = CutLast(name)[i]
    <3>1. CASE i < NameLen
      <4>1. CopyName(Zeroed, name)[i] = name[i]
        BY <1>1, <3>1 DEF CopyName
      <4>2. CutLast(name)[i] = name[i]
        BY <1>4, <3>1, CodecAssumption
      <4> QED
        BY <4>1, <4>2
    <3>2. CASE i = NameLen
      <4>1. CopyName(Zeroed, name)[i] = NUL
        BY <1>3, <3>2, CodecAssumption DEF CopyName
      <4>2. CutLast(name)[i] = NUL
        BY <1>4, <3>2
      <4> QED
        BY <4>1, <4>2
    <3> QED
      BY <3>1, <3>2, CodecAssumption
  <2> QED
    BY <1>4, <2>1 DEF CopyName
<1>6. CutLast(name) \in Names
  BY <1>4 DEF Names
<1>7. StrNCpy(CutLast(name), NameLen) = CutLast(name)
  <2> SUFFICES ASSUME NEW i \in 1 .. NameLen, HasNul(CutLast(name), i)
               PROVE  CutLast(name)[i] = NUL
    BY <1>4 DEF StrNCpy
  <2>1. PICK j \in 1 .. i : CutLast(name)[j] = NUL
    BY DEF HasNul
  <2>2. CASE i = NameLen
    BY <1>4, <2>2
  <2>3. CASE i # NameLen
    <3>1. j \in 1 .. NameLen /\ j # NameLen
      BY <2>3, CodecAssumption
    <3>2. name[j] = NUL
      BY <1>4, <2>1, <3>1
    <3>3. HasNul(name, i)
      BY <3>2 DEF HasNul
    <3>4. name[i] = NUL
      BY <3>3 DEF StrNCpy
    <3> QED
      BY <1>4, <2>3, <3>4
  <2> QED
    BY <2>2, <2>3
<1> QED
  BY <1>2, <1>5, <1>6, <1>7

\* An answer is read by every host as it was put, its name cut at most in its last byte
\* (oit_ns.cpp 365, encode.cpp 92-113).
LEMMA AnswerFacts ==
  ASSUME NEW host \in Host, NEW place \in Place, NEW a \in Wires, NEW old \in Wires,
         InRange(a), a.name = StrNCpy(a.name, NameLen)
  PROVE  LET w == Encoded("lab2", "same", a, old)
             d == Decoded(host, place, w)
         IN  /\ ~DecodeFails(host, place, w)
             /\ \/ d = a
                \/ host = "lab2" /\ d = [a EXCEPT !.name = CutLast(@)]
<1> DEFINE w == Encoded("lab2", "same", a, old)
           d == Decoded(host, place, w)
           n == IF host = "lab2" /\ place # "same" THEN CutLast(a.name) ELSE a.name
<1>1. /\ a.name \in Names /\ a.port \in Short /\ Swap(a.port) \in Short
      /\ Swap(Swap(a.port)) = a.port
  BY SwapTwice DEF Wires
<1>2. CopyName(a, a.name) = a.name /\ CopyName(Zeroed, a.name) = CutLast(a.name)
  BY <1>1, CopyFilled
<1>3. w = [port |-> Swap(a.port), msg_type |-> a.msg_type, status |-> a.status, name |-> a.name]
  BY <1>2 DEF Encoded, EncodedLab2, CopyHead, Wires
<1>4. w \in Wires
  BY <1>1, <1>3 DEF Wires
<1> HIDE DEF w
<1>5. d = [port |-> a.port, msg_type |-> a.msg_type, status |-> a.status, name |-> n]
  BY <1>1, <1>2, <1>3, <1>4, DecodedShape
<1>6. d \in Wires
  BY <1>4, DecodedShape
<1>7. /\ n = a.name => d = a
      /\ n = CutLast(a.name) => d = [a EXCEPT !.name = CutLast(@)]
  BY <1>5 DEF Wires
<1>8. InRange(w) /\ InRange(d)
  BY <1>3, <1>5 DEF InRange
<1> HIDE DEF d
<1>9. n \in Names /\ n = StrNCpy(n, NameLen)
  BY <1>1, CopyFilled
<1> HIDE DEF n
<1>10. ~DecodeFails(host, place, w)
  <2>1. CASE host = "lab1"
    <3>1. ~IsInvalid(w)
      BY <1>3, <1>4, <1>8, FilledIsValid
    <3> QED
      BY <2>1, <3>1 DEF DecodeFails
  <2>2. CASE host = "lab2"
    <3>1. d = DecodedLab2(place, w)
      BY <2>2 DEF Decoded, d
    <3>2. ~IsInvalid(d)
      BY <1>5, <1>6, <1>8, <1>9, FilledIsValid
    <3> QED
      BY <2>2, <3>1, <3>2 DEF DecodeFails
  <2> QED
    BY <2>1, <2>2 DEF DecodeFails
<1> QED
  BY <1>7, <1>10 DEF w, d, n
-------------------------------------------------------------------------------
Conveyed == [at : {"sent", "taken", "refused"}, from : Host \cup {"stranger"}, place : Place,
             asked : Wires, old : Wires, bytes : Wires, by : Host \cup {"nobody"},
             to : Wires \cup {Nothing}]

\* the datagram is one that the name server serves
Served(w) == InRange(w) /\ Canonical(w) = w

\* What is on the wire: bytes, and of a host's terminated request, the request.
Sent ==
  conveyed # Nothing =>
    /\ conveyed \in Conveyed
    /\ conveyed.at = "sent" =>
         (conveyed.from # "stranger" /\ Terminated(conveyed.asked) /\ LastByteClear =>
              conveyed.bytes = IF Hides THEN AsIs(conveyed.asked) ELSE OnTheWay(conveyed.asked))

\* What an answer is, and that it is on the wire.
Answered ==
  conveyed # Nothing =>
    (conveyed.to # Nothing =>
       LET a == conveyed.asked IN
         /\ a.name = StrNCpy(a.name, NameLen) /\ InRange(a)
         /\ IF Served(conveyed.to) THEN a.name = conveyed.to.name ELSE a = BadAnswer
         /\ conveyed.at = "sent" => conveyed.bytes = Encoded("lab2", "same", a, conveyed.old))

CodecInv == Sent /\ Answered /\ ArrivesAsAsked /\ AnswerComesBack

\* A wire is never mistaken for none.
LEMMA NothingIsNoWire == Nothing \notin Wires /\ Nothing \notin Conveyed
<1>1. ASSUME NEW w \in Wires PROVE Nothing # w
  <2>1. "port" \in DOMAIN w
    BY DEF Wires
  <2>2. "port" \notin DOMAIN Nothing
    BY DEF Nothing
  <2> QED
    BY <2>1, <2>2
<1>2. ASSUME NEW c \in Conveyed PROVE Nothing # c
  <2>1. "by" \in DOMAIN c
    BY DEF Conveyed
  <2>2. "by" \notin DOMAIN Nothing
    BY DEF Nothing
  <2> QED
    BY <2>1, <2>2
<1> QED
  BY <1>1, <1>2

\* encode puts the request on the wire, or refuses it for its type or status.
LEMMA EncodeInv ==
  ASSUME NEW host \in Host, NEW place \in Place, NEW request \in Requests, NEW old \in Buffers,
         Encode(host, place, request, old)
  PROVE  CodecInv'
<1> DEFINE wire == Encoded(host, place, request, old)
<1>1. request \in Wires /\ old \in Wires
  BY RequestsAreWires
<1>2. /\ wire \in Wires
      /\ InRange(wire) <=> InRange(request)
      /\ /\ Terminated(request)
         /\ host = "lab2" => (IF place = "same" THEN request ELSE old).name[NameLen] = NUL
         /\ host = "csharp" => request = Canonical(request)
         => wire = OnTheWay(request)
      /\ host = "csharp" => wire = AsIs(request)
  BY <1>1, EncodedFacts
<1> HIDE DEF wire
<1>3. conveyed' = [at |-> IF EncodeFails(host, wire) THEN "refused" ELSE "sent",
                   from |-> host, place |-> place, asked |-> request, old |-> old,
                   bytes |-> wire, by |-> "nobody", to |-> Nothing]
  BY DEF Encode, wire
<1> DEFINE c == conveyed'
<1>4. /\ c \in Conveyed /\ c.at \in {"sent", "refused"} /\ c.from = host /\ c.from # "stranger"
      /\ c.place = place /\ c.asked = request /\ c.old = old /\ c.bytes = wire
      /\ c.to = Nothing
      /\ c.at = "refused" => ~InRange(wire)
  BY <1>1, <1>2, <1>3 DEF Conveyed, EncodeFails, Host
<1>5. /\ LastByteClear' =>
           (host = "lab2" => (IF place = "same" THEN request ELSE old).name[NameLen] = NUL)
      /\ Hides' <=> host = "csharp" /\ request # Canonical(request)
  BY <1>4 DEF LastByteClear, Hides
<1>6. Sent'
  <2> SUFFICES ASSUME Terminated(request), LastByteClear'
               PROVE  wire = IF Hides' THEN AsIs(request) ELSE OnTheWay(request)
    BY <1>4 DEF Sent
  <2> QED
    BY <1>2, <1>5
<1>7. ArrivesAsAsked'
  <2>1. Ended' => ~InRange(c.asked) /\ c.at # "taken"
    BY <1>2, <1>4 DEF Ended
  <2> QED
    BY <2>1 DEF ArrivesAsAsked
<1>8. AnswerComesBack' /\ Answered'
  BY <1>4 DEF AnswerComesBack, Answered
<1> QED
  BY <1>6, <1>7, <1>8 DEF CodecInv

\* A stranger's bytes are only bytes.
LEMMA ArriveInv ==
  ASSUME NEW wire \in Requests, Arrive(wire)
  PROVE  CodecInv'
<1>1. wire \in Wires
  BY RequestsAreWires
<1>2. Zeroed \in Wires
  BY RequestsAreWires DEF Zeroed, Buffers
<1> DEFINE c == conveyed'
<1>3. /\ c \in Conveyed /\ c.at = "sent" /\ c.from = "stranger" /\ c.to = Nothing
  BY <1>1, <1>2 DEF Arrive, Conveyed, Place
<1> QED
  BY <1>3 DEF CodecInv, Sent, Answered, ArrivesAsAsked, AnswerComesBack, Ended

\* The name server takes what has nothing behind the NUL of its name, and only that.
LEMMA ServedIsTaken ==
  ASSUME NEW w \in Wires
  PROVE  /\ DecodeFails("lab2", "same", w) <=> ~Served(w)
         /\ Decoded("lab2", "same", w) \in Wires
         /\ Decoded("lab2", "same", w).name = w.name
<1> DEFINE d == Decoded("lab2", "same", w)
<1>0. "lab2" \in Host /\ "same" \in Place
  BY DEF Host, Place
<1>1. /\ d \in Wires
      /\ d = [port |-> Swap(w.port), msg_type |-> w.msg_type, status |-> w.status, name |-> w.name]
  BY <1>0, DecodedShape
<1>2. DecodeFails("lab2", "same", w) <=> IsInvalid(d)
  BY DEF DecodeFails, Decoded
<1>3. d.name = w.name /\ (InRange(d) <=> InRange(w))
  BY <1>1 DEF InRange
<1> HIDE DEF d
<1>4. Canonical(w) = w <=> StrNCpy(w.name, NameLen) = w.name
  BY DEF Canonical, Wires
<1>5. Canonical(d) = d <=> StrNCpy(d.name, NameLen) = d.name
  BY <1>1 DEF Canonical, Wires
<1>6. IsInvalid(d) => ~Served(w)
  BY <1>1, <1>3, <1>4, FilledIsValid DEF Served
<1>7. ~IsInvalid(d) => Served(w)
  <2> SUFFICES ASSUME ~IsInvalid(d) PROVE Served(w)
    OBVIOUS
  <2>1. Canonical(d) = d /\ InRange(d)
    BY <1>1, ValidIsFilled DEF IsInvalid
  <2> QED
    BY <1>3, <1>4, <1>5, <2>1 DEF Served
<1> QED
  BY <1>1, <1>2, <1>3, <1>6, <1>7 DEF d

\* The answer to what is not taken is a wire, in range and filled (ns_handler.cpp 228).
LEMMA BadAnswerShape ==
  /\ Zeroed \in Wires
  /\ BadAnswer \in Wires /\ InRange(BadAnswer)
  /\ BadAnswer.name = StrNCpy(BadAnswer.name, NameLen)
<1> DEFINE n == [i \in 1 .. NameLen |-> NUL]
<1>1. Zeroed = [port |-> 0, msg_type |-> 0, status |-> 0, name |-> n]
  BY DEF Zeroed, Blank
<1>2. n \in Names /\ StrNCpy(n, NameLen) = n
  BY DEF Names, StrNCpy
<1> HIDE DEF n
<1>3. BadAnswer = [port |-> 0, msg_type |-> 5, status |-> 5, name |-> n]
  <2>1. BadAnswer = [[port |-> 0, msg_type |-> 0, status |-> 0, name |-> n]
                       EXCEPT !.msg_type = 5, !.status = 5]
    BY <1>1, Zenon DEF BadAnswer
  <2> QED
    BY <2>1
<1>4. 0 \in Short /\ 0 \in Int /\ 5 \in Int /\ 5 \in 1 .. 6 /\ 5 \in 0 .. 5
  BY DEF Short
<1> QED
  BY <1>1, <1>2, <1>3, <1>4 DEF Wires, InRange

\* The answer of the name server to any datagram is on the wire.
LEMMA ServeInv ==
  ASSUME CodecInv, NEW status \in 0 .. 5, NEW port \in Ports \cup {Unchanged},
         Serve(status, port)
  PROVE  CodecInv'
<1> DEFINE w == conveyed.bytes
           q == Decoded("lab2", "same", w)
           a == IF DecodeFails("lab2", "same", w) THEN BadAnswer
                ELSE [q EXCEPT !.msg_type = 5, !.status = status,
                               !.port = IF port \in Ports THEN port ELSE @]
           b == Encoded("lab2", "same", a, Zeroed)
           c == conveyed'
<1>0. "lab2" \in Host /\ "same" \in Place
  BY DEF Host, Place
<1>1. w \in Wires
  BY DEF CodecInv, Sent, Serve, Conveyed
<1>2. /\ Zeroed \in Wires
      /\ BadAnswer \in Wires /\ InRange(BadAnswer)
      /\ BadAnswer.name = StrNCpy(BadAnswer.name, NameLen)
  BY BadAnswerShape
<1>3. q \in Wires /\ q.name = w.name /\ (DecodeFails("lab2", "same", w) <=> ~Served(w))
  BY <1>1, ServedIsTaken
<1> HIDE DEF w, q
<1>6. /\ a \in Wires /\ InRange(a) /\ a.name = StrNCpy(a.name, NameLen)
      /\ IF Served(w) THEN a.name = w.name ELSE a = BadAnswer
  <2>1. CASE Served(w)
    <3> DEFINE p == IF port \in Ports THEN port ELSE q.port
    <3>1. a = [q EXCEPT !.msg_type = 5, !.status = status, !.port = p]
      BY <1>3, <2>1
    <3>2. p \in Short
      BY <1>3, CodecAssumption DEF Wires
    <3> HIDE DEF p, a
    <3>3. a = [port |-> p, msg_type |-> 5, status |-> status, name |-> q.name]
      BY <1>3, <3>1 DEF Wires
    <3>4. a \in Wires /\ a.name = w.name /\ InRange(a)
      BY <1>3, <3>2, <3>3 DEF Wires, InRange
    <3>5. w.name = StrNCpy(w.name, NameLen)
      BY <1>1, <2>1 DEF Served, Canonical, Wires
    <3> QED
      BY <2>1, <3>4, <3>5
  <2>2. CASE ~Served(w)
    <3>1. a = BadAnswer
      BY <1>3, <2>2
    <3> HIDE DEF a
    <3> QED
      BY <1>2, <2>2, <3>1
  <2> QED
    BY <2>1, <2>2
<1>7. conveyed' = [at |-> "sent", from |-> "lab2", place |-> "same", asked |-> a,
                   old |-> Zeroed, bytes |-> b, by |-> "nobody", to |-> w]
  BY DEF Serve, w, q
<1> HIDE DEF a
<1>8. b \in Wires /\ (Terminated(a) /\ a.name[NameLen] = NUL => b = OnTheWay(a))
  BY <1>0, <1>2, <1>6, EncodedFacts
<1>9. /\ c \in Conveyed /\ c.at = "sent" /\ c.from = "lab2" /\ c.place = "same" /\ c.asked = a
      /\ c.old = Zeroed /\ c.bytes = b /\ c.to = w
  BY <1>0, <1>1, <1>2, <1>6, <1>7, <1>8 DEF Conveyed
<1>10. Sent'
  <2>1. ~Hides' /\ (LastByteClear' => a.name[NameLen] = NUL)
    BY <1>9 DEF Hides, LastByteClear
  <2> QED
    BY <1>8, <1>9, <2>1 DEF Sent
<1>11. Answered'
  BY <1>6, <1>9 DEF Answered
<1>12. ~Ended'
  BY <1>9 DEF Ended
<1> QED
  BY <1>10, <1>11, <1>12 DEF CodecInv, ArrivesAsAsked, AnswerComesBack

\* decode takes what is on the wire: of a host what it asked, of the server its answer.
LEMMA DecodeInv ==
  ASSUME NEW host \in Host, NEW place \in Place, CodecInv, Decode(host, place)
  PROVE  CodecInv'
<1> DEFINE w == conveyed.bytes
           r == conveyed.asked
           d == Decoded(host, place, w)
<1> DEFINE c == conveyed'
<1>1. /\ conveyed \in Conveyed /\ w \in Wires /\ r \in Wires /\ conveyed.old \in Wires
      /\ conveyed.from # "stranger" /\ Terminated(r) /\ LastByteClear =>
           w = IF Hides THEN AsIs(r) ELSE OnTheWay(r)
  BY DEF CodecInv, Sent, Decode, Conveyed
<1>2. d \in Wires
  BY <1>1, DecodedShape
<1>3. c = [conveyed EXCEPT !.at = IF DecodeFails(host, place, w) THEN "refused" ELSE "taken",
                           !.bytes = d, !.by = host]
  BY DEF Decode
<1> HIDE DEF d
<1>4. /\ c \in Conveyed /\ c.at \in {"taken", "refused"} /\ c.at # "sent"
      /\ c.at = "taken" <=> ~DecodeFails(host, place, w)
      /\ c.from = conveyed.from /\ c.place = conveyed.place /\ c.asked = r
      /\ c.old = conveyed.old /\ c.bytes = d /\ c.by = host /\ c.to = conveyed.to
  BY <1>1, <1>2, <1>3 DEF Conveyed
<1>5. (LastByteClear' <=> LastByteClear) /\ (Hides' <=> Hides)
  BY <1>4 DEF LastByteClear, Hides
<1>6. Sent'
  BY <1>4 DEF Sent
<1>7. ArrivesAsAsked'
  <2> SUFFICES ASSUME c.from # "stranger", Terminated(r), LastByteClear
               PROVE  IF c.at = "taken"
                      THEN Canonical(d) = Canonical(r) /\ (~Hides => d = Canonical(r))
                      ELSE ~InRange(r) \/ Hides
    BY <1>4, <1>5 DEF ArrivesAsAsked
  <2>1. CASE Hides
    <3>1. w = AsIs(r)
      BY <1>1, <1>4, <2>1
    <3>2. Canonical(d) = Canonical(r)
      BY <1>1, <3>1, HiddenFacts DEF d
    <3> QED
      BY <2>1, <3>2
  <2>2. CASE ~Hides
    <3>1. w = OnTheWay(r)
      BY <1>1, <1>4, <2>2
    <3>2. d = Canonical(r) /\ (DecodeFails(host, place, w) => ~InRange(r))
      BY <1>1, <3>1, DecodedFacts DEF d
    <3>3. Canonical(Canonical(r)) = Canonical(r)
      BY <1>1, StrNCpyFacts DEF Canonical, Wires
    <3> QED
      BY <1>4, <2>2, <3>2, <3>3
  <2> QED
    BY <2>1, <2>2
<1>8. ASSUME c.to # Nothing
      PROVE  /\ r.name = StrNCpy(r.name, NameLen) /\ InRange(r)
             /\ IF Served(c.to) THEN r.name = c.to.name ELSE r = BadAnswer
             /\ w = Encoded("lab2", "same", r, conveyed.old)
  BY <1>4, <1>8 DEF CodecInv, Answered, Decode
<1>9. Answered'
  BY <1>4, <1>8 DEF Answered
<1>10. AnswerComesBack'
  <2> SUFFICES ASSUME c.to # Nothing
               PROVE  /\ c.at = "taken"
                      /\ IF Served(c.to)
                         THEN /\ \/ d.name = c.to.name
                                 \/ host = "lab2" /\ d.name = CutLast(c.to.name)
                              /\ d = [r EXCEPT !.name = d.name]
                         ELSE d = BadAnswer
    BY <1>4 DEF AnswerComesBack, Served
  <2>1. ~DecodeFails(host, place, w) /\ (d = r \/ (host = "lab2" /\ d = [r EXCEPT !.name = CutLast(@)]))
    BY <1>1, <1>8, AnswerFacts DEF d
  <2>2. CASE d = r
    <3>1. d = [r EXCEPT !.name = d.name]
      BY <1>1, <2>2 DEF Wires
    <3> QED
      BY <1>4, <1>8, <2>1, <2>2, <3>1
  <2>3. CASE host = "lab2" /\ d = [r EXCEPT !.name = CutLast(@)]
    <3>1. d.name = CutLast(r.name) /\ d = [r EXCEPT !.name = d.name]
      BY <1>1, <2>3 DEF Wires
    <3>2. CutLast(BadAnswer.name) = BadAnswer.name
      BY CodecAssumption DEF CutLast, BadAnswer, Zeroed, Blank
    <3>3. ASSUME r = BadAnswer PROVE d = BadAnswer
      BY <1>1, <3>1, <3>2, <3>3 DEF Wires
    <3> QED
      BY <1>4, <1>8, <2>1, <2>3, <3>1, <3>3
  <2> QED
    BY <2>1, <2>2, <2>3
<1> QED
  BY <1>6, <1>7, <1>9, <1>10 DEF CodecInv

\* The invariant of a message on its way through any two of the codecs.
THEOREM CodecInvHolds == CodecSpec => []CodecInv
<1>1. CodecInit => CodecInv
  <2> SUFFICES ASSUME conveyed = Nothing PROVE CodecInv
    BY DEF CodecInit
  <2> QED
    BY DEF CodecInv, Sent, Answered, ArrivesAsAsked, AnswerComesBack, Ended
<1>2. CodecInv /\ [CodecNext]_conveyed => CodecInv'
  <2> SUFFICES ASSUME CodecInv, [CodecNext]_conveyed PROVE CodecInv'
    OBVIOUS
  <2>1. ASSUME NEW host \in Host, NEW place \in Place, Decode(host, place) PROVE CodecInv'
    BY <2>1, DecodeInv
  <2>2. ASSUME NEW host \in Host, NEW place \in Place, NEW request \in Requests,
               NEW old \in Buffers, Encode(host, place, request, old)
        PROVE  CodecInv'
    BY <2>2, EncodeInv
  <2>3. ASSUME NEW wire \in Requests, Arrive(wire) PROVE CodecInv'
    BY <2>3, ArriveInv
  <2>4. ASSUME NEW status \in 0 .. 5, NEW port \in Ports \cup {Unchanged}, Serve(status, port)
        PROVE  CodecInv'
    BY <2>4, ServeInv
  <2>5. CASE UNCHANGED conveyed
    BY <2>5 DEF CodecInv, Sent, Answered, ArrivesAsAsked, AnswerComesBack, Ended,
                LastByteClear, Hides
  <2> QED
    BY <2>1, <2>2, <2>3, <2>4, <2>5 DEF CodecNext
<1> QED
  BY <1>1, <1>2, PTL DEF CodecSpec

\* What arrives is what was asked for (encode.cpp 13-113, lab1's encode.c, getport.c,
\* Program.cs).
THEOREM ArrivalHolds == CodecSpec => []ArrivesAsAsked
<1>1. CodecInv => ArrivesAsAsked
  BY DEF CodecInv
<1> QED
  BY <1>1, CodecInvHolds, PTL

\* The answer comes back, with the name that was asked (oit_ns.cpp 338-399).
THEOREM AnswerHolds == CodecSpec => []AnswerComesBack
<1>1. CodecInv => AnswerComesBack
  BY DEF CodecInv
<1> QED
  BY <1>1, CodecInvHolds, PTL
===============================================================================
