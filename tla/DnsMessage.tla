------------------------------ MODULE DnsMessage ------------------------------
(***************************************************************************)
(* The bytes between the resolver and a name server: the query that        *)
(* send_dns_request writes, and the walk of decode_answer_record,          *)
(* decode_authoritative_record and decode_additional_record over a reply,  *)
(* one record a step, with names compressed by pointers.  Names that a     *)
(* server and the properties speak of are sequences of labels; a label is  *)
(* a sequence of letters.  In the code a name is a string, in one of two   *)
(* forms: with dots, or each label after a byte with its length.           *)
(***************************************************************************)
EXTENDS Integers, SequencesExt, FiniteSetsExt

CONSTANT Sent     \* external: the replies that servers send, see Wire

VARIABLE reply    \* the reply being decoded

DOT  == 46
HEAD == 12        \* bytes before the question
A_T  == 1         \* IPV4_T
NS_T == 2
CNAME_T == 5

\* the bytes of a C string
CString(b) == SubSeq(b, 1, Min({i \in DOMAIN b : b[i] = 0} \cup {Len(b) + 1}) - 1)

(***************************************************************************)
(* The two forms of a name.                                                *)
(***************************************************************************)
FirstDot(s, i) == Min({j \in i .. Len(s) : s[j] = DOT} \cup {Len(s) + 1})

\* convert_to_dns_format, and serialize: the length of each label in front of it,
\* in the place of the dot before, and a zero at the end
ToDns(s) ==
  [i \in 1 .. Len(s) + 2 |->
    CASE i = Len(s) + 2                        -> 0
      [] i <= Len(s) + 1 /\ (i = 1 \/ s[i - 1] = DOT) -> FirstDot(s, i) - i
      [] OTHER                                 -> s[i - 1]]

\* convert_to_dotted_format; a length that is too great takes what there is
ToDotted(s) ==
  LET n == Len(s)
      labels[i \in 1 .. n + 1] ==
        IF i > n THEN <<>>
        ELSE LET end == Min({i + s[i], n}) IN <<DOT>> \o SubSeq(s, i + 1, end) \o labels[end + 1]
  IN  IF n = 0 THEN <<>> ELSE Tail(labels[1])

\* mutant of TrimName: the dot is left
TrimKeepsDot(s) == SubSeq(s, FirstDot(s, 1), Len(s))

\* trim_name, of a name with a dot in it
TrimName(s) == SubSeq(s, FirstDot(s, 1) + 1, Len(s))

\* the labels that the loop of send_dns_request looks for in ns_cache
Tried(s) ==
  LET from[n \in 0 .. Len(s)] ==    \* n: letters cut off so far, at most
        LET d == SubSeq(s, n + 1, Len(s))
            t == TrimName(ToDotted(CString(ToDns(d)))) IN
          {CString(ToDns(d))} \cup
            (IF \E i \in DOMAIN d : d[i] = DOT THEN from[Len(s) - Len(t)] ELSE {})
  IN  from[0]

(***************************************************************************)
(* read_name and read_ptr_name.  Of a pointer only the second byte counts. *)
(***************************************************************************)
Byte(b, k)  == b[k + 1]
IsPtr(c)  == c >= 192      \* is_bit_set(6, c) and is_bit_set(7, c)

NameAt(b, k) ==
  LET name[i \in 0 .. Len(b) - 1] ==
        CASE Byte(b, i) = 0        -> <<>>
          [] IsPtr(Byte(b, i))     -> name[Byte(b, i + 1)]
          [] OTHER               -> <<Byte(b, i)>> \o name[i + 1]
  IN  name[k]

\* where read_name leaves its index: at the zero, or behind the pointer
NameEnd(b, k) ==
  LET e == Min({i \in k .. Len(b) - 1 : Byte(b, i) = 0 \/ IsPtr(Byte(b, i))}) IN
    IF IsPtr(Byte(b, e)) THEN e + 2 ELSE e

\* what all three functions read first.  k is one byte past the name, on the second
\* byte of the type: it and the first of the class are a short; and of the length
\* of the data only the second byte is read
Fields(b, k) ==
  LET start == IF Byte(b, k) = 0 THEN k + 1 ELSE k
      after == NameEnd(b, start) + 1 IN
    [r_name |-> NameAt(b, start), r_type |-> Byte(b, after) + 256 * Byte(b, after + 1),
     r_data_len |-> Byte(b, after + 8), data |-> after + 9]

\* read_address: the four numbers, and not their digits
Address(b, k) == [i \in 1 .. 4 |-> Byte(b, k + i - 1)]

(***************************************************************************)
(* External: a server that compresses names, those in the data if it likes *)
(* to.  w.at tells where in the bytes a name is.                           *)
(***************************************************************************)
Text(name) == Tail(FlattenSeq([i \in DOMAIN name |-> <<DOT>> \o name[i]]))

Put(w, name, compress) ==
  LET Suffix(i) == SubSeq(name, i, Len(name))
      j    == Min({i \in DOMAIN name : compress /\ Suffix(i) \in DOMAIN w.at} \cup {Len(name) + 1})
      Label(i)  == <<Len(name[i])>> \o name[i]
      Before(i) == FlattenSeq([l \in 1 .. i - 1 |-> Label(l)])
      new  == {Suffix(i) : i \in 1 .. j - 1} \ DOMAIN w.at
      last == IF j > Len(name) THEN <<0>>
              ELSE <<192 + w.at[Suffix(j)] \div 256, w.at[Suffix(j)] % 256>>
  IN  [bytes |-> w.bytes \o Before(j) \o last,
       at |-> [s \in DOMAIN w.at \cup new |->
                 IF s \in DOMAIN w.at THEN w.at[s]
                 ELSE Len(w.bytes) + Len(Before(Len(name) - Len(s) + 1))]]

PutRecord(w, r, compress) ==
  LET owner == Put(w, r.owner, TRUE)
      head  == [owner EXCEPT !.bytes = @ \o <<0, r.type, 0, 1, 0, 0, 0, 60, 0, 0>>]
      whole == IF r.type \in {NS_T, CNAME_T} THEN Put(head, r.data, compress)
               ELSE [head EXCEPT !.bytes = @ \o r.data]
  IN  [whole EXCEPT !.bytes[Len(head.bytes)] = Len(whole.bytes) - Len(head.bytes)]

\* the query, from the name the client sent
DnsQuery(s) == [i \in 1 .. HEAD |-> 0] \o ToDns(s) \o <<0, 1, 0, 1>>

\* a reply repeats the question
Wire(m) ==
  LET named == Put([bytes |-> [i \in 1 .. HEAD |-> 0], at |-> [s \in {} |-> 0]], m.question, TRUE)
      start == [named EXCEPT !.bytes = DnsQuery(Text(m.question))]
      put(w, r) == PutRecord(w, r, m.compress)
  IN  FoldLeft(put, start, m.answers \o m.authority \o m.additional).bytes

\* so that a byte holds every pointer
ASSUME DnsAssumption == \A m \in Sent : Len(Wire(m)) <= 256

(***************************************************************************)
(* The loops of send_dns_request over the records.                         *)
(***************************************************************************)
NoReply   == [at |-> "idle"]
DnsInit   == reply = NoReply

\* mutant of AnswerStart: the terminator is forgotten
AnswerStartEarly(s) == Len(s) + 2 * 8 + 1

\* k, where the records begin
AnswerStart(s) == Len(s) + 2 * 8 + 2

Arrives(m) ==
  /\ reply' = [at |-> "answers", m |-> m, buf |-> Wire(m), i |-> 0,
               name |-> Text(m.question), k |-> AnswerStart(Text(m.question)),
               resolved |-> {}, found_ns |-> {}, cached |-> {}]

\* records of a section that are left, or none
In(at)          == reply # NoReply /\ reply.at = at
Left(records)   == reply.i < Len(records)

DecodeAnswerRecord ==
  /\ In("answers") /\ Left(reply.m.answers)
  /\ LET f == Fields(reply.buf, reply.k) IN
       reply' = [reply EXCEPT
         !.resolved = IF f.r_type = A_T
                      THEN @ \cup {<<ToDotted(f.r_name), Address(reply.buf, f.data)>>} ELSE @,
         !.k = f.data + f.r_data_len, !.i = @ + 1]

\* answered, or without both authoritative and additional records
AnswersDone ==
  /\ In("answers") /\ ~Left(reply.m.answers)
  /\ reply' = [reply EXCEPT !.i = 0, !.at =
       IF \/ \E r \in reply.resolved : r[1] = reply.name
          \/ reply.m.authority = <<>> \/ reply.m.additional = <<>>
       THEN "done" ELSE "authority"]

\* the data is a name, whatever the type; insert keeps what it has
DecodeAuthoritativeRecord ==
  /\ In("authority") /\ Left(reply.m.authority)
  /\ LET f  == Fields(reply.buf, reply.k)
         ns == ToDotted(NameAt(reply.buf, f.data)) IN
       reply' = [reply EXCEPT
         !.found_ns = IF \E r \in @ : r[1] = ns THEN @ ELSE @ \cup {<<ns, f.r_name>>},
         !.k = NameEnd(reply.buf, f.data), !.i = @ + 1]

AuthorityDone ==
  /\ In("authority") /\ ~Left(reply.m.authority)
  /\ reply' = [reply EXCEPT !.i = 0, !.at = "additional"]

DecodeAdditionalRecord ==
  /\ In("additional") /\ Left(reply.m.additional)
  /\ LET f == Fields(reply.buf, reply.k) IN
       reply' = [reply EXCEPT
         !.cached = IF f.r_type = A_T
           THEN @ \cup {<<r[2], r[1], Address(reply.buf, f.data)>> :
                          r \in {g \in reply.found_ns : g[1] = ToDotted(f.r_name)}}
           ELSE @,
         !.k = f.data + f.r_data_len, !.i = @ + 1]

AdditionalDone ==
  /\ In("additional") /\ ~Left(reply.m.additional)
  /\ reply' = [reply EXCEPT !.at = "searched"]

DnsNext ==
  \/ reply = NoReply /\ \E m \in Sent : Arrives(m)
  \/ DecodeAnswerRecord \/ AnswersDone \/ DecodeAuthoritativeRecord \/ AuthorityDone
  \/ DecodeAdditionalRecord \/ AdditionalDone
-------------------------------------------------------------------------------
InAnswers(m)  == {<<Text(r.owner), r.data>> : r \in {a \in ToSet(m.answers) : a.type = A_T}}
InReferral(m) ==
  {<<CString(ToDns(Text(n.owner))), Text(n.data), a.data>> :
     <<n, a>> \in {p \in ToSet(m.authority) \X ToSet(m.additional) :
                     p[1].data = p[2].owner /\ p[2].type = A_T}}

\* From a reply whose pointers fit a byte, and whose owners all end in a pointer, as those
\* of a server that compresses do, the resolver takes every address the server sent, under
\* the name it was sent for, and every server of a referral that came with an address,
\* and reads to its end; although lengths, types and pointers are read in part and the
\* records of the data are never aligned (dns_resolver.cpp 482-506).
DecodedAsSent ==
  reply # NoReply =>
    /\ reply.at \in {"done", "searched"} =>
         reply.resolved = InAnswers(reply.m)
    /\ reply.at = "searched" =>
         reply.cached = InReferral(reply.m) /\ reply.k = Len(reply.buf)

\* A server that was put in the cache for a zone of the name is found again by the
\* walk that cuts labels off it: the key it was stored under, bytes of the reply,
\* is what convert_to_dns_format makes of the trimmed name (509-525).
ReferralFound ==
  reply # NoReply => \A r \in reply.cached : r[1] \in Tried(reply.name)
===============================================================================
