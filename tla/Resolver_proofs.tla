--------------------------- MODULE Resolver_proofs ---------------------------
(***************************************************************************)
(* The places of the resolver are counted, its look-ups bounded, and what  *)
(* it tells a client is the answer to what that client asked, for every    *)
(* limit, set of name servers and clients, and whatever servers say.       *)
(***************************************************************************)
EXTENDS Resolver, SequenceTheorems, FiniteSetTheorems, TLAPS

ThreadPc == {"recv", "output", "shutdown", "dump", "start", "query", "answers", "records",
             "walk", "found", "not found", "ended"}

ThreadState ==
  [pc : ThreadPc, sock : Client \cup {ZERO}, name : Name, label : Name \cup {NoName},
   calls : Seq(Name), ns : Ns \cup {root_server}, contacted : SUBSET Ns, queries : Nat,
   reply : Reply, raced : BOOLEAN]

\* What a thread has asked: nothing before its first query, and then one server
\* more than it has noted, at most.
Within(t) ==
  /\ t.pc \in {"start", "walk"} => t.label \in Name
  /\ t.pc = "records" => t.reply.referral # <<>>
  /\ Len(t.calls) <= Cardinality(t.contacted)
  /\ t.queries <= Cardinality(t.contacted) + 1
  /\ t.pc = "query" => t.queries <= Cardinality(t.contacted)
  /\ t.pc \in {"recv", "output", "shutdown", "dump", "start"} => t.queries = 0

ThreadsInv ==
  /\ threads \in Seq(ThreadState)
  /\ \A h \in DOMAIN threads : Within(threads[h])

\* The places: what SlotsCounted says, and that main waits and counts only when
\* there is one.
SlotsInv ==
  /\ avail_threads \in Int
  /\ main # "wrecked" =>
       /\ avail_threads = Limit - Cardinality(Busy) + (IF main = "count" THEN 1 ELSE 0)
       /\ avail_threads >= (IF main \in {"accept", "count"} THEN 1 ELSE 0)

Message == [type : {"found", "not found"} \cup Command, name : Name \cup {NoName}, address : InAddr \cup {NoAddress}]

PeersInv ==
  /\ backlog \in Seq(Client)
  /\ zero \in {"stdin", "closed", "udp"} \cup Client
  /\ client \in [Client -> [pc : {"away", "waiting", "gone"}, request : Name \cup Command,
                            unread : BOOLEAN, told : Seq(Message)]]

CachesInv ==
  /\ ns_cache \in [Name -> Seq(Ns)]
  /\ resolved_names_cache \in [Name -> InAddr \cup {NoAddress}]
  /\ seen \subseteq Nat \X Reply /\ misread \in BOOLEAN

MainInv ==
  /\ g_shutdown \in BOOLEAN
  /\ main \in {"loop", "accept", "count", "ended", "wrecked"}

ResolverInv == ThreadsInv /\ SlotsInv /\ PeersInv /\ CachesInv /\ MainInv
-------------------------------------------------------------------------------
\* A thread set to t: what becomes of the threads and of those that run.
LEMMA SetThread ==
  ASSUME ThreadsInv, NEW h \in DOMAIN threads, NEW t \in ThreadState, Within(t),
         threads' = [threads EXCEPT ![h] = t]
  PROVE  /\ ThreadsInv'
         /\ t.pc = "ended" => Busy' = Busy \ {h}
         /\ t.pc # "ended" => Busy' = Busy \cup {h}
<1>1. threads \in Seq(ThreadState) /\ h \in 1 .. Len(threads) /\ DOMAIN threads = 1 .. Len(threads)
  BY LenProperties DEF ThreadsInv
<1>2. /\ threads' \in Seq(ThreadState) /\ Len(threads') = Len(threads)
      /\ \A g \in 1 .. Len(threads) : threads'[g] = IF g = h THEN t ELSE threads[g]
  BY <1>1, ExceptSeq
<1>3. DOMAIN threads' = DOMAIN threads
  BY <1>1, <1>2, LenProperties
<1>4. ThreadsInv'
  BY <1>1, <1>2, <1>3 DEF ThreadsInv
<1>5. \A g \in DOMAIN threads : threads'[g].pc # "ended" <=>
         IF g = h THEN t.pc # "ended" ELSE threads[g].pc # "ended"
  BY <1>1, <1>2
<1> QED
  BY <1>3, <1>4, <1>5 DEF Busy

\* Those that run are finitely many.
LEMMA BusyFinite ==
  ASSUME ThreadsInv
  PROVE  IsFiniteSet(Busy) /\ Cardinality(Busy) \in Nat
<1>1. DOMAIN threads = 1 .. Len(threads) /\ Len(threads) \in Nat
  BY LenProperties DEF ThreadsInv
<1>2. IsFiniteSet(1 .. Len(threads))
  BY <1>1, FS_Interval
<1>3. Busy \subseteq 1 .. Len(threads)
  BY <1>1 DEF Busy
<1>4. IsFiniteSet(Busy)
  BY <1>2, <1>3, FS_Subset
<1> QED
  BY <1>4, FS_CardinalityType

\* A thread that goes on keeps its place.
LEMMA GoesOn ==
  ASSUME ThreadsInv, SlotsInv, NEW h \in DOMAIN threads, threads[h].pc # "ended",
         NEW t \in ThreadState, Within(t), t.pc # "ended",
         threads' = [threads EXCEPT ![h] = t], UNCHANGED <<avail_threads, main>>
  PROVE  ThreadsInv' /\ SlotsInv'
<1>1. ThreadsInv' /\ Busy' = Busy \cup {h}
  BY SetThread
<1>2. Busy' = Busy
  BY <1>1 DEF Busy
<1> QED
  BY <1>1, <1>2 DEF SlotsInv

\* One that ends gives it back.
LEMMA GivesBack ==
  ASSUME ThreadsInv, SlotsInv, NEW h \in DOMAIN threads, threads[h].pc # "ended",
         NEW t \in ThreadState, Within(t), t.pc = "ended",
         threads' = [threads EXCEPT ![h] = t], avail_threads' = avail_threads + 1, UNCHANGED main
  PROVE  ThreadsInv' /\ SlotsInv'
<1>1. ThreadsInv' /\ Busy' = Busy \ {h}
  BY SetThread
<1>2. h \in Busy
  BY DEF Busy
<1>3. Cardinality(Busy') = Cardinality(Busy) - 1 /\ Cardinality(Busy) \in Nat
  BY <1>1, <1>2, BusyFinite, FS_RemoveElement
<1> QED
  BY <1>1, <1>3, ResolverAssumption DEF SlotsInv

\* So does one that goes on and disturbs others that walk.
LEMMA GoesOnRacing ==
  ASSUME ThreadsInv, SlotsInv, NEW h \in DOMAIN threads, threads[h].pc # "ended",
         NEW t \in ThreadState, Within(t), t.pc # "ended",
         NEW walking, Race(h, t, walking), UNCHANGED <<avail_threads, main>>
  PROVE  ThreadsInv' /\ SlotsInv'
<1> DEFINE u(g) == IF g = h THEN t
                   ELSE [threads[g] EXCEPT !.raced = @ \/ threads[g].pc \in walking]
<1>1. threads \in Seq(ThreadState) /\ DOMAIN threads = 1 .. Len(threads) /\ Len(threads) \in Nat
  BY LenProperties DEF ThreadsInv
<1>2. threads' = [g \in 1 .. Len(threads) |-> u(g)]
  BY <1>1 DEF Race
<1>3. ASSUME NEW g \in 1 .. Len(threads)
      PROVE  u(g) \in ThreadState /\ Within(u(g)) /\ (u(g).pc # "ended" <=> threads[g].pc # "ended")
  <2>1. threads[g] \in ThreadState /\ Within(threads[g])
    BY <1>1, ElementOfSeq DEF ThreadsInv
  <2>2. (threads[g].raced \/ threads[g].pc \in walking) \in BOOLEAN
    OBVIOUS
  <2>3. [threads[g] EXCEPT !.raced = @ \/ threads[g].pc \in walking] \in ThreadState
    BY <2>1, <2>2 DEF ThreadState
  <2>4. Within([threads[g] EXCEPT !.raced = @ \/ threads[g].pc \in walking])
    BY <2>1 DEF Within, ThreadState
  <2> QED
    BY <2>1, <2>3, <2>4 DEF ThreadState
<1>4. threads' \in [1 .. Len(threads) -> ThreadState]
  BY <1>2, <1>3
<1>5. threads' \in Seq(ThreadState) /\ DOMAIN threads' = DOMAIN threads
  BY <1>1, <1>4, SeqDef
<1> HIDE DEF u
<1>6. \A g \in DOMAIN threads' : Within(threads'[g]) /\ (threads'[g].pc # "ended" <=> threads[g].pc # "ended")
  BY <1>1, <1>2, <1>3, <1>5
<1>7. ThreadsInv' /\ Busy' = Busy
  BY <1>5, <1>6 DEF ThreadsInv, Busy
<1> QED
  BY <1>7 DEF SlotsInv
-------------------------------------------------------------------------------
\* The thread that acts.
LEMMA Acting ==
  ASSUME ResolverInv, NEW h, NEW pc, At(h, pc)
  PROVE  /\ h \in DOMAIN threads /\ threads[h] \in ThreadState /\ Within(threads[h])
         /\ threads[h].pc = pc /\ main \notin {"ended", "wrecked"}
         /\ IsFiniteSet(threads[h].contacted) /\ Cardinality(threads[h].contacted) \in Nat
<1>1. h \in DOMAIN threads /\ threads[h].pc = pc /\ main \notin {"ended", "wrecked"}
  BY DEF At, Running
<1>2. threads \in Seq(ThreadState) /\ Within(threads[h])
  BY <1>1 DEF ResolverInv, ThreadsInv
<1>3. threads[h] \in ThreadState
  BY <1>1, <1>2, LenProperties, ElementOfSeq
<1>4. threads[h].contacted \in SUBSET Ns
  BY <1>3 DEF ThreadState
<1>5. IsFiniteSet(threads[h].contacted)
  BY <1>4, FS_Subset, ResolverAssumption
<1> QED
  BY <1>1, <1>2, <1>3, <1>5, FS_CardinalityType

\* Its next state, when it goes on.
Advances(h) ==
  \E t \in ThreadState : t.pc # "ended" /\ Within(t) /\ threads' = [threads EXCEPT ![h] = t]

LEMMA AdvancesInv ==
  ASSUME ResolverInv, NEW h, NEW pc, At(h, pc), pc # "ended", Advances(h), PeersInv', CachesInv',
         UNCHANGED <<avail_threads, main, g_shutdown>>
  PROVE  ResolverInv'
<1>1. h \in DOMAIN threads /\ threads[h].pc # "ended"
  BY Acting
<1>2. ThreadsInv' /\ SlotsInv'
  BY <1>1, GoesOn DEF Advances, ResolverInv
<1> QED
  BY <1>2 DEF ResolverInv, MainInv

LEMMA RacesInv ==
  ASSUME ResolverInv, NEW h, NEW pc, At(h, pc), pc # "ended",
         NEW t \in ThreadState, Within(t), t.pc # "ended",
         NEW walking, Race(h, t, walking), PeersInv', CachesInv',
         UNCHANGED <<avail_threads, main, g_shutdown>>
  PROVE  ResolverInv'
<1>1. h \in DOMAIN threads /\ threads[h].pc # "ended"
  BY Acting
<1>2. ThreadsInv' /\ SlotsInv'
  BY <1>1, GoesOnRacing DEF ResolverInv
<1> QED
  BY <1>2 DEF ResolverInv, MainInv

\* GetNS puts a thread before a walk, for a name.
LEMMA GetNSFacts ==
  ASSUME NEW t \in ThreadState, NEW pc \in {"start", "walk"}, NEW n \in Name,
         NEW u \in GetNS(t, pc, n)
  PROVE  /\ u \in ThreadState /\ u.pc = pc /\ u.label \in Name /\ u.calls = t.calls
         /\ u.contacted = t.contacted /\ u.queries = t.queries
<1>1. PICK l \in Label(n) : u = [t EXCEPT !.pc = pc, !.label = l, !.raced = FALSE]
  BY DEF GetNS
<1>2. l \in Name
  BY ResolverAssumption DEF Label
<1> QED
  BY <1>1, <1>2 DEF ThreadState, ThreadPc

\* What a walk finds are servers it has not noted.
LEMMA FindsFacts ==
  ASSUME ResolverInv, NEW h \in DOMAIN threads, threads[h] \in ThreadState,
         threads[h].label \in Name, NEW n \in Finds(h)
  PROVE  n \in Ns \ threads[h].contacted
<1>1. \A z \in Name : Entries(z) \subseteq Ns
  <2> SUFFICES ASSUME NEW z \in Name, NEW i \in DOMAIN ns_cache[z] PROVE ns_cache[z][i] \in Ns
    BY DEF Entries
  <2>1. ns_cache[z] \in Seq(Ns)
    BY DEF ResolverInv, CachesInv
  <2> QED
    BY <2>1, LenProperties, ElementOfSeq
<1>2. \A z \in Name : NewIn(h, z) \subseteq Ns \ threads[h].contacted
  BY <1>1 DEF NewIn
<1>3. FirstIn(h, threads[h].label) \subseteq NewIn(h, threads[h].label)
  BY DEF FirstIn
<1> QED
  BY <1>2, <1>3 DEF Finds

\* where_to_start hands over a server, and what has been noted stays.
LEMMA StartFindsInv ==
  ASSUME ResolverInv, NEW h, StartFinds(h)
  PROVE  ResolverInv'
<1>1. PICK n \in Finds(h) : threads' = [threads EXCEPT ![h].pc = "query", ![h].ns = n]
  BY DEF StartFinds
<1>2. At(h, "start")
  BY DEF StartFinds
<1>3. /\ h \in DOMAIN threads /\ threads[h] \in ThreadState /\ Within(threads[h])
      /\ threads[h].pc = "start" /\ Cardinality(threads[h].contacted) \in Nat
  BY <1>2, Acting
<1>4. n \in Ns
  BY <1>3, FindsFacts DEF Within
<1> DEFINE t == [threads[h] EXCEPT !.pc = "query", !.ns = n]
<1>5. threads' = [threads EXCEPT ![h] = t]
  BY <1>1
<1>6. /\ t \in ThreadState /\ t.pc = "query" /\ t.calls = threads[h].calls
      /\ t.contacted = threads[h].contacted /\ t.queries = threads[h].queries
  BY <1>3, <1>4 DEF ThreadState, ThreadPc
<1> HIDE DEF t
<1>7. Within(t)
  BY <1>3, <1>6 DEF Within
<1>8. Advances(h)
  BY <1>5, <1>6, <1>7 DEF Advances
<1>9. PeersInv' /\ CachesInv'
  BY DEF ResolverInv, StartFinds, PeersInv, CachesInv, caches, stack
<1> QED
  BY <1>2, <1>8, <1>9, AdvancesInv DEF StartFinds

\* Or it trims, or takes the root.
LEMMA StartFindsNothingInv ==
  ASSUME ResolverInv, NEW h, StartFindsNothing(h)
  PROVE  ResolverInv'
<1>2. At(h, "start")
  BY DEF StartFindsNothing
<1>3. /\ h \in DOMAIN threads /\ threads[h] \in ThreadState /\ Within(threads[h])
      /\ threads[h].pc = "start" /\ Cardinality(threads[h].contacted) \in Nat
  BY <1>2, Acting
<1>4. threads[h].label \in Name
  BY <1>3 DEF Within
<1>5. ASSUME Trim[threads[h].label] # NoName PROVE Advances(h)
  <2>1. Trim[threads[h].label] \in Name
    BY <1>4, <1>5, ResolverAssumption
  <2>2. PICK u \in GetNS(threads[h], "start", Trim[threads[h].label]) :
          threads' = [threads EXCEPT ![h] = u]
    BY <1>5 DEF StartFindsNothing, Becomes
  <2>3. /\ u \in ThreadState /\ u.pc = "start" /\ u.label \in Name /\ u.calls = threads[h].calls
        /\ u.contacted = threads[h].contacted /\ u.queries = threads[h].queries
    BY <1>3, <2>1, GetNSFacts
  <2>4. Within(u)
    BY <1>3, <2>3 DEF Within
  <2> QED
    BY <2>2, <2>3, <2>4 DEF Advances
<1>6. ASSUME Trim[threads[h].label] = NoName PROVE Advances(h)
  <2> DEFINE t == [threads[h] EXCEPT !.pc = "query", !.ns = root_server]
  <2>1. threads' = [threads EXCEPT ![h] = t]
    BY <1>6 DEF StartFindsNothing
  <2>2. /\ t \in ThreadState /\ t.pc = "query" /\ t.calls = threads[h].calls
        /\ t.contacted = threads[h].contacted /\ t.queries = threads[h].queries
    BY <1>3 DEF ThreadState, ThreadPc
  <2> HIDE DEF t
  <2>3. Within(t)
    BY <1>3, <2>2 DEF Within
  <2> QED
    BY <2>1, <2>2, <2>3 DEF Advances
<1>7. Advances(h)
  BY <1>5, <1>6
<1>8. PeersInv' /\ CachesInv'
  BY DEF ResolverInv, StartFindsNothing, PeersInv, CachesInv, caches, stack
<1> QED
  BY <1>2, <1>7, <1>8, AdvancesInv DEF StartFindsNothing

LEMMA FindCachedInv ==
  ASSUME ResolverInv, NEW h, FindCached(h)
  PROVE  ResolverInv'
<1>1. At(h, "query") /\ threads' = [threads EXCEPT ![h].pc = "found"]
  BY DEF FindCached, Go
<1>2. /\ h \in DOMAIN threads /\ threads[h] \in ThreadState /\ Within(threads[h])
      /\ threads[h].pc = "query" /\ Cardinality(threads[h].contacted) \in Nat
  BY <1>1, Acting
<1> DEFINE t == [threads[h] EXCEPT !.pc = "found"]
<1>3. threads' = [threads EXCEPT ![h] = t]
  BY <1>1
<1>4. /\ t \in ThreadState /\ t.pc = "found" /\ t.calls = threads[h].calls
      /\ t.contacted = threads[h].contacted /\ t.queries = threads[h].queries
  BY <1>2 DEF ThreadState, ThreadPc
<1> HIDE DEF t
<1>5. Within(t)
  BY <1>2, <1>4 DEF Within
<1>6. Advances(h)
  BY <1>3, <1>4, <1>5 DEF Advances
<1>7. PeersInv' /\ CachesInv'
  BY DEF ResolverInv, FindCached, PeersInv, CachesInv, caches, stack
<1> QED
  BY <1>1, <1>6, <1>7, AdvancesInv DEF FindCached

\* Whatever a query reads has the shape of a reply, and the buffer keeps what came.
LEMMA QueryReads ==
  ASSUME ResolverInv, NEW h, Query(h) \/ QueryTimesOut(h) \/ QueryMisreads(h)
  PROVE  /\ At(h, "query") /\ \E r \in Reply : Reads(h, r)
         /\ seen \subseteq seen' /\ seen' \subseteq Nat \X Reply /\ misread' \in BOOLEAN
<1>1. At(h, "query")
  BY DEF Query, QueryTimesOut, QueryMisreads, Times, Asks
<1>2. threads[h].name \in Name /\ threads[h].ns \in Ns \cup {root_server}
  BY <1>1, Acting DEF ThreadState
<1>3. seen \subseteq Nat \X Reply /\ misread \in BOOLEAN /\ Octets[threads[h].name] \in Nat
  BY <1>2, ResolverAssumption DEF ResolverInv, CachesInv
<1>4. CASE Query(h)
  <2>1. PICK r \in Says[<<threads[h].ns, threads[h].name>>] :
          Reads(h, r) /\ seen' = seen \cup {<<Octets[threads[h].name], r>>}
    BY <1>4 DEF Query
  <2>2. Says[<<threads[h].ns, threads[h].name>>] \subseteq Reply
    BY <1>2, ResolverAssumption
  <2>3. r \in Reply
    BY <2>1, <2>2
  <2> QED
    BY <1>1, <1>3, <1>4, <2>1, <2>3 DEF Query
<1>5. CASE QueryTimesOut(h)
  <2>1. PICK r \in InStep(threads[h].name) : Reads(h, r)
    BY <1>5 DEF QueryTimesOut
  <2>2. Nothing \in Reply
    BY DEF Nothing, Reply
  <2>3. r \in Reply
    BY <1>3, <2>1, <2>2 DEF InStep
  <2> QED
    BY <1>1, <1>3, <1>5, <2>1, <2>3 DEF QueryTimesOut, stack
<1>6. CASE QueryMisreads(h)
  <2>1. PICK r \in OutOfStep(threads[h].name), m \in Misread : Reads(h, [m EXCEPT !.refers = r.refers])
    BY <1>6 DEF QueryMisreads
  <2>2. r \in Reply /\ m \in Reply
    BY <1>3, <2>1, ResolverAssumption DEF OutOfStep
  <2>3. [m EXCEPT !.refers = r.refers] \in Reply
    BY <2>2 DEF Reply
  <2> QED
    BY <1>1, <1>3, <1>6, <2>1, <2>3 DEF QueryMisreads
<1> QED
  BY <1>4, <1>5, <1>6

\* A query is one more than before, and no more servers are noted.
LEMMA QueryInv ==
  ASSUME ResolverInv, NEW h, Query(h) \/ QueryTimesOut(h) \/ QueryMisreads(h)
  PROVE  ResolverInv'
<1>1. At(h, "query")
  BY QueryReads
<1>2. /\ h \in DOMAIN threads /\ threads[h] \in ThreadState /\ Within(threads[h])
      /\ threads[h].pc = "query" /\ Cardinality(threads[h].contacted) \in Nat
  BY <1>1, Acting
<1>3. PICK r \in Reply : Reads(h, r)
  BY QueryReads
<1> DEFINE t == [threads[h] EXCEPT !.pc = "answers", !.reply = r, !.queries = @ + 1]
<1>5. threads[h].queries \in Nat /\ threads[h].queries + 1 \in Nat
  BY <1>2 DEF ThreadState
<1>6. threads' = [threads EXCEPT ![h] = t]
  BY <1>3 DEF Reads
<1>7. /\ t \in ThreadState /\ t.pc = "answers" /\ t.calls = threads[h].calls
      /\ t.contacted = threads[h].contacted /\ t.queries = threads[h].queries + 1
  BY <1>2, <1>5 DEF ThreadState, ThreadPc
<1> HIDE DEF t
<1>8. Within(t)
  BY <1>2, <1>5, <1>7 DEF Within
<1>9. Advances(h)
  BY <1>6, <1>7, <1>8 DEF Advances
<1>10. PeersInv' /\ CachesInv'
  BY <1>3, QueryReads DEF ResolverInv, Reads, PeersInv, CachesInv, caches
<1> QED
  BY <1>1, <1>3, <1>9, <1>10, AdvancesInv DEF Reads

\* An address goes into the cache; a walk of Serialize may meet it.
LEMMA DecodeAnswerInv ==
  ASSUME ResolverInv, NEW h, DecodeAnswer(h)
  PROVE  ResolverInv'
<1>1. At(h, "answers") /\ threads[h].reply.answers # <<>>
  BY DEF DecodeAnswer
<1>2. /\ h \in DOMAIN threads /\ threads[h] \in ThreadState /\ Within(threads[h])
      /\ threads[h].pc = "answers" /\ Cardinality(threads[h].contacted) \in Nat
  BY <1>1, Acting
<1> DEFINE n == Head(threads[h].reply.answers)[1]
           a == Head(threads[h].reply.answers)[2]
           t == [threads[h] EXCEPT !.reply.answers = Tail(@)]
           walking == IF resolved_names_cache[n] = NoAddress THEN {"dump"} ELSE {}
<1>3. threads[h].reply \in Reply /\ threads[h].reply.answers \in Seq(Name \X InAddr)
  BY <1>2 DEF ThreadState, Reply
<1>10. /\ Head(threads[h].reply.answers) \in Name \X InAddr
       /\ Tail(threads[h].reply.answers) \in Seq(Name \X InAddr)
  BY <1>1, <1>3, HeadTailProperties
<1>4. n \in Name /\ a \in InAddr /\ Tail(threads[h].reply.answers) \in Seq(Name \X InAddr)
  BY <1>10
<1>5. [threads[h].reply EXCEPT !.answers = Tail(@)] \in Reply
  BY <1>3, <1>4 DEF Reply
<1>6. /\ t \in ThreadState /\ t.pc = "answers" /\ t.calls = threads[h].calls
      /\ t.contacted = threads[h].contacted /\ t.queries = threads[h].queries
  BY <1>2, <1>5 DEF ThreadState, ThreadPc
<1>7. /\ resolved_names_cache' = [resolved_names_cache EXCEPT ![n] = a] /\ Race(h, t, walking)
      /\ UNCHANGED <<ns_cache, avail_threads, g_shutdown, main, zero, backlog, client, stack>>
  BY DEF DecodeAnswer
<1> HIDE DEF n, a, t, walking
<1>8. Within(t)
  BY <1>2, <1>6 DEF Within
<1>9. PeersInv' /\ CachesInv'
  BY <1>4, <1>7 DEF ResolverInv, PeersInv, CachesInv, stack
<1> QED
  BY <1>1, <1>6, <1>7, <1>8, <1>9, RacesInv

\* A server goes into the cache; every walk may meet it.
LEMMA DecodeReferralInv ==
  ASSUME ResolverInv, NEW h, DecodeReferral(h)
  PROVE  ResolverInv'
<1>1. At(h, "records")
  BY DEF DecodeReferral
<1>2. /\ h \in DOMAIN threads /\ threads[h] \in ThreadState /\ Within(threads[h])
      /\ threads[h].pc = "records" /\ Cardinality(threads[h].contacted) \in Nat
  BY <1>1, Acting
<1> DEFINE rest == Tail(threads[h].reply.referral)
           z == Head(threads[h].reply.referral)[1]
           n == Head(threads[h].reply.referral)[2]
           t == [threads[h] EXCEPT !.reply.referral = rest]
<1>3. /\ threads[h].reply \in Reply /\ threads[h].reply.referral \in Seq(Name \X Ns)
      /\ threads[h].reply.referral # <<>> /\ threads[h].name \in Name
  BY <1>2 DEF ThreadState, Reply, Within
<1>4. Head(threads[h].reply.referral) \in Name \X Ns /\ rest \in Seq(Name \X Ns)
  BY <1>3, HeadTailProperties
<1>5. z \in Name /\ n \in Ns
  BY <1>4
<1>6. [threads[h].reply EXCEPT !.referral = rest] \in Reply
  BY <1>3, <1>4 DEF Reply
<1>7. /\ t \in ThreadState /\ t.pc = "records" /\ t.calls = threads[h].calls
      /\ t.contacted = threads[h].contacted /\ t.queries = threads[h].queries
      /\ t.name = threads[h].name /\ t.reply.referral = rest
  BY <1>2, <1>3, <1>6 DEF ThreadState, ThreadPc, Reply
<1>8. /\ ns_cache' = [ns_cache EXCEPT ![z] = IF n \in Entries(z) THEN @ ELSE Append(@, n)]
      /\ \E u \in IF rest # <<>> THEN {t} ELSE GetNS(t, "walk", t.name) :
           Race(h, u, {"start", "walk", "dump"})
      /\ UNCHANGED <<resolved_names_cache, avail_threads, g_shutdown, main, zero, backlog, client, stack>>
  BY DEF DecodeReferral
<1>9. PICK u \in IF rest # <<>> THEN {t} ELSE GetNS(t, "walk", t.name) :
        Race(h, u, {"start", "walk", "dump"})
  BY <1>8
<1> HIDE DEF rest, z, n, t
<1>10. /\ u \in ThreadState /\ u.pc # "ended" /\ Within(u)
  <2>1. CASE rest # <<>>
    <3>1. u = t
      BY <1>9, <2>1
    <3>2. Within(t)
      BY <1>2, <1>7, <2>1 DEF Within
    <3> QED
      BY <1>7, <3>1, <3>2
  <2>2. CASE rest = <<>>
    <3>1. /\ u \in ThreadState /\ u.pc = "walk" /\ u.label \in Name /\ u.calls = t.calls
          /\ u.contacted = t.contacted /\ u.queries = t.queries
      BY <1>3, <1>7, <1>9, <2>2, GetNSFacts
    <3>2. Within(u)
      BY <1>2, <1>7, <3>1 DEF Within
    <3> QED
      BY <3>1, <3>2
  <2> QED
    BY <2>1, <2>2
<1>11. ns_cache' \in [Name -> Seq(Ns)]
  BY <1>5, <1>8, AppendProperties DEF ResolverInv, CachesInv
<1>12. PeersInv' /\ CachesInv'
  BY <1>8, <1>11 DEF ResolverInv, PeersInv, CachesInv, stack
<1> QED
  BY <1>1, <1>8, <1>9, <1>10, <1>12, RacesInv

\* send_dns_request returns to a call that waits, and has one call less to end.
LEMMA ReturnFalseAdvances ==
  ASSUME ResolverInv, NEW h, NEW pc \in {"answers", "walk"}, At(h, pc), ReturnFalse(h)
  PROVE  Advances(h)
<1>1. /\ h \in DOMAIN threads /\ threads[h] \in ThreadState /\ Within(threads[h])
      /\ threads[h].pc = pc /\ Cardinality(threads[h].contacted) \in Nat
  BY Acting
<1> DEFINE calls == threads[h].calls
<1>2. calls \in Seq(Name)
  BY <1>1 DEF ThreadState
<1>3. ASSUME calls = <<>> PROVE Advances(h)
  <2> DEFINE t == [threads[h] EXCEPT !.pc = "not found"]
  <2>1. threads' = [threads EXCEPT ![h] = t]
    BY <1>3 DEF ReturnFalse
  <2>2. /\ t \in ThreadState /\ t.pc = "not found" /\ t.calls = threads[h].calls
        /\ t.contacted = threads[h].contacted /\ t.queries = threads[h].queries
    BY <1>1 DEF ThreadState, ThreadPc
  <2> HIDE DEF t
  <2>3. Within(t)
    BY <1>1, <2>2 DEF Within
  <2> QED
    BY <2>1, <2>2, <2>3 DEF Advances
<1>4. ASSUME calls # <<>> PROVE Advances(h)
  <2> DEFINE rest == SubSeq(calls, 1, Len(calls) - 1)
             t == [threads[h] EXCEPT !.pc = "walk", !.raced = FALSE, !.label = calls[Len(calls)],
                                     !.calls = rest]
  <2>1. threads' = [threads EXCEPT ![h] = t]
    BY <1>4 DEF ReturnFalse
  <2>2. calls[Len(calls)] \in Name /\ Len(calls) \in Nat \ {0}
    BY <1>2, <1>4, LenProperties, EmptySeq, ElementOfSeq
  <2>3. rest \in Seq(Name) /\ Len(rest) = Len(calls) - 1
    BY <1>2, <2>2, SubSeqProperties
  <2> HIDE DEF rest
  <2>4. /\ t \in ThreadState /\ t.pc = "walk" /\ t.calls = rest /\ t.label \in Name
        /\ t.contacted = threads[h].contacted /\ t.queries = threads[h].queries
    BY <1>1, <2>2, <2>3 DEF ThreadState, ThreadPc
  <2> HIDE DEF t
  <2>5. Within(t)
    BY <1>1, <2>2, <2>3, <2>4 DEF Within
  <2> QED
    BY <2>1, <2>4, <2>5 DEF Advances
<1> QED
  BY <1>3, <1>4

\* After the addresses: an answer, the end of the call, or servers to try.
LEMMA CheckAnsweredInv ==
  ASSUME ResolverInv, NEW h, CheckAnswered(h)
  PROVE  ResolverInv'
<1>1. At(h, "answers")
  BY DEF CheckAnswered
<1>2. /\ h \in DOMAIN threads /\ threads[h] \in ThreadState /\ Within(threads[h])
      /\ threads[h].pc = "answers" /\ Cardinality(threads[h].contacted) \in Nat
  BY <1>1, Acting
<1>3. ASSUME NEW pc \in {"found", "records"}, Go(h, pc), pc = "records" => threads[h].reply.referral # <<>>
      PROVE  Advances(h)
  <2> DEFINE t == [threads[h] EXCEPT !.pc = pc]
  <2>1. threads' = [threads EXCEPT ![h] = t]
    BY <1>3 DEF Go
  <2>2. /\ t \in ThreadState /\ t.pc = pc /\ t.calls = threads[h].calls /\ t.reply = threads[h].reply
        /\ t.contacted = threads[h].contacted /\ t.queries = threads[h].queries
    BY <1>2 DEF ThreadState, ThreadPc
  <2> HIDE DEF t
  <2>3. Within(t)
    BY <1>2, <1>3, <2>2 DEF Within
  <2> QED
    BY <2>1, <2>2, <2>3 DEF Advances
<1>4. ASSUME Becomes(h, GetNS(threads[h], "walk", threads[h].name))
      PROVE  Advances(h)
  <2>1. PICK u \in GetNS(threads[h], "walk", threads[h].name) : threads' = [threads EXCEPT ![h] = u]
    BY <1>4 DEF Becomes
  <2>2. threads[h].name \in Name
    BY <1>2 DEF ThreadState
  <2>3. /\ u \in ThreadState /\ u.pc = "walk" /\ u.label \in Name /\ u.calls = threads[h].calls
        /\ u.contacted = threads[h].contacted /\ u.queries = threads[h].queries
    BY <1>2, <2>1, <2>2, GetNSFacts
  <2>4. Within(u)
    BY <1>2, <2>3 DEF Within
  <2> QED
    BY <2>1, <2>3, <2>4 DEF Advances
<1>5. Advances(h)
  BY <1>1, <1>3, <1>4, ReturnFalseAdvances DEF CheckAnswered
<1>6. PeersInv' /\ CachesInv'
  BY DEF ResolverInv, CheckAnswered, PeersInv, CachesInv, caches, stack
<1> QED
  BY <1>1, <1>5, <1>6, AdvancesInv DEF CheckAnswered

\* A server found is noted, which is what one more query and call stand for.
LEMMA WalkFindsInv ==
  ASSUME ResolverInv, NEW h, WalkFinds(h)
  PROVE  ResolverInv'
<1>1. At(h, "walk")
  BY DEF WalkFinds
<1>2. /\ h \in DOMAIN threads /\ threads[h] \in ThreadState /\ Within(threads[h])
      /\ threads[h].pc = "walk" /\ Cardinality(threads[h].contacted) \in Nat
      /\ IsFiniteSet(threads[h].contacted)
  BY <1>1, Acting
<1>3. PICK n \in Finds(h) :
        threads' = [threads EXCEPT ![h].pc = "query", ![h].ns = n, ![h].contacted = @ \cup {n},
                     ![h].calls = Append(@, threads[h].label)]
  BY DEF WalkFinds
<1>4. threads[h].label \in Name
  BY <1>2 DEF Within
<1>5. n \in Ns \ threads[h].contacted
  BY <1>2, <1>4, FindsFacts
<1> DEFINE more == threads[h].contacted \cup {n}
           calls == Append(threads[h].calls, threads[h].label)
           t == [threads[h] EXCEPT !.pc = "query", !.ns = n, !.contacted = more, !.calls = calls]
<1>6. Cardinality(more) = Cardinality(threads[h].contacted) + 1
  BY <1>2, <1>5, FS_AddElement
<1>7. threads[h].calls \in Seq(Name) /\ threads[h].contacted \subseteq Ns /\ threads[h].queries \in Nat
  BY <1>2 DEF ThreadState
<1>8. calls \in Seq(Name) /\ Len(calls) = Len(threads[h].calls) + 1 /\ Len(threads[h].calls) \in Nat
  BY <1>4, <1>7, AppendProperties, LenProperties
<1>9. threads' = [threads EXCEPT ![h] = t]
  BY <1>3
<1>10. more \in SUBSET Ns
  BY <1>5, <1>7
<1> HIDE DEF more, calls
<1>11. /\ t \in ThreadState /\ t.pc = "query" /\ t.calls = calls
       /\ t.contacted = more /\ t.queries = threads[h].queries
  BY <1>2, <1>5, <1>8, <1>10 DEF ThreadState, ThreadPc
<1> HIDE DEF t
<1>12. Within(t)
  BY <1>2, <1>6, <1>7, <1>8, <1>11 DEF Within
<1>13. Advances(h)
  BY <1>9, <1>11, <1>12 DEF Advances
<1>14. PeersInv' /\ CachesInv'
  BY DEF ResolverInv, WalkFinds, PeersInv, CachesInv, caches, stack
<1> QED
  BY <1>1, <1>13, <1>14, AdvancesInv DEF WalkFinds

LEMMA WalkFindsNothingInv ==
  ASSUME ResolverInv, NEW h, WalkFindsNothing(h)
  PROVE  ResolverInv'
<1>1. At(h, "walk")
  BY DEF WalkFindsNothing
<1>2. /\ h \in DOMAIN threads /\ threads[h] \in ThreadState /\ Within(threads[h])
      /\ threads[h].pc = "walk" /\ Cardinality(threads[h].contacted) \in Nat
  BY <1>1, Acting
<1>3. threads[h].label \in Name
  BY <1>2 DEF Within
<1>4. ASSUME Trim[threads[h].label] # NoName PROVE Advances(h)
  <2>1. Trim[threads[h].label] \in Name
    BY <1>3, <1>4, ResolverAssumption
  <2>2. PICK u \in GetNS(threads[h], "walk", Trim[threads[h].label]) :
          threads' = [threads EXCEPT ![h] = u]
    BY <1>4 DEF WalkFindsNothing, Becomes
  <2>3. /\ u \in ThreadState /\ u.pc = "walk" /\ u.label \in Name /\ u.calls = threads[h].calls
        /\ u.contacted = threads[h].contacted /\ u.queries = threads[h].queries
    BY <1>2, <2>1, <2>2, GetNSFacts
  <2>4. Within(u)
    BY <1>2, <2>3 DEF Within
  <2> QED
    BY <2>2, <2>3, <2>4 DEF Advances
<1>5. Advances(h)
  BY <1>1, <1>4, ReturnFalseAdvances DEF WalkFindsNothing
<1>6. PeersInv' /\ CachesInv'
  BY DEF ResolverInv, WalkFindsNothing, PeersInv, CachesInv, caches, stack
<1> QED
  BY <1>1, <1>5, <1>6, AdvancesInv DEF WalkFindsNothing

\* A walk or a reading that goes astray takes all with it: then no place is counted.
LEMMA WalkGoesAstrayInv ==
  ASSUME ResolverInv, NEW h, WalkGoesAstray(h) \/ QueryGoesAstray(h)
  PROVE  ResolverInv'
<1>1. main' = "wrecked"
      /\ UNCHANGED <<caches, avail_threads, g_shutdown, threads, zero, backlog, client, stack>>
  BY DEF WalkGoesAstray, QueryGoesAstray
<1>2. ThreadsInv' /\ SlotsInv'
  BY <1>1 DEF ResolverInv, ThreadsInv, SlotsInv
<1> QED
  BY <1>1, <1>2 DEF ResolverInv, PeersInv, CachesInv, MainInv, caches, stack
-------------------------------------------------------------------------------
\* The message: a name or a command.
LEMMA ReceiveInv ==
  ASSUME ResolverInv, NEW h, Receive(h)
  PROVE  ResolverInv'
<1>1. At(h, "recv")
  BY DEF Receive
<1>2. /\ h \in DOMAIN threads /\ threads[h] \in ThreadState /\ Within(threads[h])
      /\ threads[h].pc = "recv" /\ Cardinality(threads[h].contacted) \in Nat
  BY <1>1, Acting
<1>3. ASSUME NEW n \in Name, Begin(h, n) PROVE Advances(h)
  <2> DEFINE t == [threads[h] EXCEPT !.name = n]
  <2>1. /\ t \in ThreadState /\ t.calls = threads[h].calls
        /\ t.contacted = threads[h].contacted /\ t.queries = threads[h].queries
    BY <1>2 DEF ThreadState
  <2>2. PICK u \in GetNS(t, "start", n) : threads' = [threads EXCEPT ![h] = u]
    BY <1>3 DEF Begin, Becomes
  <2> HIDE DEF t
  <2>3. /\ u \in ThreadState /\ u.pc = "start" /\ u.label \in Name /\ u.calls = t.calls
        /\ u.contacted = t.contacted /\ u.queries = t.queries
    BY <2>1, <2>2, GetNSFacts
  <2>4. Within(u)
    BY <1>2, <2>1, <2>3 DEF Within
  <2> QED
    BY <2>2, <2>3, <2>4 DEF Advances
<1>4. ASSUME NEW pc \in Command, Go(h, pc) PROVE Advances(h)
  <2> DEFINE t == [threads[h] EXCEPT !.pc = pc]
  <2>1. threads' = [threads EXCEPT ![h] = t]
    BY <1>4 DEF Go
  <2>2. pc \in ThreadPc /\ pc \in {"dump", "output", "shutdown"}
    BY DEF Command, ThreadPc
  <2>3. /\ t \in ThreadState /\ t.pc = pc /\ t.calls = threads[h].calls
        /\ t.contacted = threads[h].contacted /\ t.queries = threads[h].queries
    BY <1>2, <2>2 DEF ThreadState
  <2> HIDE DEF t
  <2>4. Within(t)
    BY <1>2, <2>2, <2>3 DEF Within
  <2> QED
    BY <2>1, <2>2, <2>3, <2>4 DEF Advances
<1> DEFINE c == Peer(threads[h].sock)
<1>5. ASSUME c \notin Client PROVE Advances(h) /\ UNCHANGED client
  <2>1. Begin(h, EmptyName) /\ UNCHANGED client
    BY <1>5 DEF Receive
  <2> QED
    BY <1>3, <2>1, ResolverAssumption
<1>6. ASSUME c \in Client
      PROVE  Advances(h) /\ client' = [client EXCEPT ![c].unread = FALSE]
  <2>1. /\ client' = [client EXCEPT ![c].unread = FALSE]
        /\ IF ~client[c].unread THEN Begin(h, EmptyName)
           ELSE IF client[c].request \in Command THEN Go(h, client[c].request)
           ELSE Begin(h, client[c].request)
    BY <1>6 DEF Receive
  <2>2. client[c].request \in Name \cup Command
    BY <1>6 DEF ResolverInv, PeersInv
  <2> QED
    BY <1>3, <1>4, <2>1, <2>2, ResolverAssumption
<1>7. UNCHANGED <<caches, avail_threads, g_shutdown, main, zero, backlog, stack>>
  BY DEF Receive
<1> HIDE DEF c
<1>8. Advances(h)
  BY <1>5, <1>6
<1>9. PeersInv'
  BY <1>5, <1>6, <1>7 DEF ResolverInv, PeersInv
<1>10. CachesInv'
  BY <1>7 DEF ResolverInv, CachesInv, caches, stack
<1> QED
  BY <1>1, <1>7, <1>8, <1>9, <1>10, AdvancesInv

\* The answer, after which the place is free.
LEMMA FinishInv ==
  ASSUME ResolverInv, NEW h, NEW pc, At(h, pc), pc # "ended", NEW m \in Message, Finish(h, m),
         zero' = zero \/ zero' = "closed", g_shutdown' \in BOOLEAN,
         UNCHANGED <<caches, main, backlog, stack>>
  PROVE  ResolverInv'
<1>1. /\ h \in DOMAIN threads /\ threads[h] \in ThreadState /\ threads[h].pc # "ended"
  BY Acting
<1> DEFINE t == [Thread(threads[h].sock) EXCEPT !.pc = "ended"]
<1>2. threads' = [threads EXCEPT ![h] = t] /\ avail_threads' = avail_threads + 1 /\ Told(h, m)
  BY DEF Finish
<1>3. /\ t \in ThreadState /\ t.pc = "ended" /\ t.calls = <<>> /\ t.contacted = {} /\ t.queries = 0
  <2>1. threads[h].sock \in Client \cup {ZERO}
    BY <1>1 DEF ThreadState
  <2>2. Nothing \in Reply /\ {} \in SUBSET Ns /\ <<>> \in Seq(Name)
    BY DEF Nothing, Reply
  <2> DEFINE fresh == Thread(threads[h].sock)
  <2>3. fresh \in ThreadState /\ fresh.calls = <<>> /\ fresh.contacted = {} /\ fresh.queries = 0
    BY <2>1, <2>2, ResolverAssumption DEF Thread, ThreadState, ThreadPc
  <2>4. t = [fresh EXCEPT !.pc = "ended"]
    OBVIOUS
  <2> HIDE DEF fresh
  <2> HIDE DEF t
  <2> QED
    BY <2>3, <2>4 DEF ThreadState, ThreadPc
<1> HIDE DEF t
<1>4. Within(t)
  BY <1>3, FS_EmptySet DEF Within
<1>5. ThreadsInv' /\ SlotsInv'
  BY <1>1, <1>2, <1>3, <1>4, GivesBack DEF ResolverInv
<1>6. client' \in [Client -> [pc : {"away", "waiting", "gone"}, request : Name \cup Command,
                              unread : BOOLEAN, told : Seq(Message)]]
  <2> DEFINE c == Peer(threads[h].sock)
  <2>1. CASE c \notin Client
    BY <1>2, <2>1 DEF Told, ResolverInv, PeersInv
  <2>2. CASE c \in Client
    <3>1. client' = [client EXCEPT ![c].told = Append(@, m)]
      BY <1>2, <2>2 DEF Told
    <3>2. client[c].told \in Seq(Message)
      BY <2>2 DEF ResolverInv, PeersInv
    <3>3. Append(client[c].told, m) \in Seq(Message)
      BY <3>2, AppendProperties
    <3> HIDE DEF c
    <3> QED
      BY <2>2, <3>1, <3>3 DEF ResolverInv, PeersInv
  <2> QED
    BY <2>1, <2>2
<1>7. PeersInv'
  BY <1>6 DEF ResolverInv, PeersInv
<1> QED
  BY <1>5, <1>7 DEF ResolverInv, CachesInv, MainInv, caches, stack

LEMMA CommandsInv ==
  ASSUME ResolverInv, NEW h, SetOutput(h) \/ SetShutdown(h) \/ Dump(h)
  PROVE  ResolverInv'
<1>1. \A cmd \in Command : Done(cmd) \in Message
  BY DEF Done, Message
<1>5. "output" \in Command /\ "shutdown" \in Command /\ "dump" \in Command
  BY DEF Command
<1>2. CASE SetOutput(h)
  <2>1. /\ At(h, "output") /\ Finish(h, Done("output")) /\ Done("output") \in Message
        /\ zero' = zero \/ zero' = "closed"
        /\ UNCHANGED <<caches, g_shutdown, main, backlog, stack>>
    BY <1>1, <1>5, <1>2 DEF SetOutput, Close
  <2>2. g_shutdown' \in BOOLEAN
    BY <2>1 DEF ResolverInv, MainInv
  <2> QED
    BY <2>1, <2>2, FinishInv
<1>3. CASE SetShutdown(h)
  <2>1. /\ At(h, "shutdown") /\ Finish(h, Done("shutdown")) /\ Done("shutdown") \in Message
        /\ zero' = zero \/ zero' = "closed"
        /\ g_shutdown' = TRUE /\ UNCHANGED <<caches, main, backlog, stack>>
    BY <1>1, <1>5, <1>3 DEF SetShutdown, Close
  <2> QED
    BY <2>1, FinishInv
<1>4. CASE Dump(h)
  <2>1. /\ At(h, "dump") /\ Done("dump") \in Message
        /\ UNCHANGED <<caches, g_shutdown, zero, backlog, stack>>
    BY <1>1, <1>5, <1>4 DEF Dump
  <2>2. CASE Finish(h, Done("dump")) /\ UNCHANGED main
    <3>1. g_shutdown' \in BOOLEAN
      BY <2>1 DEF ResolverInv, MainInv
    <3> QED
      BY <2>1, <2>2, <3>1, FinishInv
  <2>3. CASE main' = "wrecked" /\ UNCHANGED <<avail_threads, client, threads>>
    <3>1. ThreadsInv' /\ SlotsInv'
      BY <2>3 DEF ResolverInv, ThreadsInv, SlotsInv
    <3> QED
      BY <2>1, <2>3, <3>1 DEF ResolverInv, PeersInv, CachesInv, MainInv, caches, stack
  <2> QED
    BY <1>4, <2>2, <2>3 DEF Dump
<1> QED
  BY <1>2, <1>3, <1>4

LEMMA RespondInv ==
  ASSUME ResolverInv, NEW h, Respond(h)
  PROVE  ResolverInv'
<1>1. PICK pc \in {"found", "not found"} :
        At(h, pc) /\ Finish(h, IF pc = "found" THEN Found(threads[h].name) ELSE NotFound(threads[h].name))
  BY DEF Respond
<1>2. threads[h].name \in Name
  BY <1>1, Acting DEF ThreadState
<1>3. resolved_names_cache[threads[h].name] \in InAddr \cup {NoAddress}
  BY <1>2 DEF ResolverInv, CachesInv
<1>4. (IF pc = "found" THEN Found(threads[h].name) ELSE NotFound(threads[h].name)) \in Message
  BY <1>2, <1>3 DEF Found, NotFound, Message
<1>5. /\ zero' = zero \/ zero' = "closed"
      /\ UNCHANGED <<caches, g_shutdown, main, backlog, stack>>
  BY DEF Respond, Close
<1>6. g_shutdown' \in BOOLEAN
  BY <1>5 DEF ResolverInv, MainInv
<1> QED
  BY <1>1, <1>4, <1>5, <1>6, FinishInv
-------------------------------------------------------------------------------
\* A thread more: it has the place that main has waited for.
LEMMA SpawnInv ==
  ASSUME ResolverInv, main = "accept", NEW sock \in Client \cup {ZERO}, Spawn(sock),
         backlog' \in Seq(Client), zero' \in {"stdin", "closed", "udp"} \cup Client
  PROVE  ResolverInv'
<1> DEFINE t == Thread(sock)
<1>1. threads' = Append(threads, t) /\ main' = "count"
      /\ UNCHANGED <<caches, avail_threads, g_shutdown, client, stack>>
  BY DEF Spawn
<1>2. t \in ThreadState /\ t.pc = "recv" /\ t.calls = <<>> /\ t.contacted = {} /\ t.queries = 0
  <2>1. Nothing \in Reply /\ {} \in SUBSET Ns /\ <<>> \in Seq(Name)
    BY DEF Nothing, Reply
  <2> QED
    BY <2>1, ResolverAssumption DEF Thread, ThreadState, ThreadPc
<1> HIDE DEF t
<1>3. Within(t)
  BY <1>2, FS_EmptySet DEF Within
<1>4. /\ threads \in Seq(ThreadState) /\ Len(threads) \in Nat /\ DOMAIN threads = 1 .. Len(threads)
      /\ \A h \in DOMAIN threads : Within(threads[h])
  BY LenProperties DEF ResolverInv, ThreadsInv
<1>5. /\ threads' \in Seq(ThreadState) /\ DOMAIN threads' = 1 .. Len(threads) + 1
      /\ \A h \in 1 .. Len(threads) : threads'[h] = threads[h]
      /\ threads'[Len(threads) + 1] = t
  BY <1>1, <1>2, <1>4, AppendProperties, LenProperties
<1>6. ThreadsInv'
  BY <1>3, <1>4, <1>5 DEF ThreadsInv
<1>7. Busy' = Busy \cup {Len(threads) + 1} /\ Len(threads) + 1 \notin Busy
  BY <1>2, <1>4, <1>5 DEF Busy
<1>8. Cardinality(Busy') = Cardinality(Busy) + 1 /\ Cardinality(Busy) \in Nat
  BY <1>7, BusyFinite, FS_AddElement DEF ResolverInv
<1>9. SlotsInv'
  BY <1>1, <1>8, ResolverAssumption DEF ResolverInv, SlotsInv
<1> QED
  BY <1>1, <1>6, <1>9 DEF ResolverInv, PeersInv, CachesInv, MainInv, caches, stack

LEMMA MainStepInv ==
  ASSUME ResolverInv, MainStep
  PROVE  ResolverInv'
<1>1. CASE Loop
  <2>1. ThreadsInv' /\ Busy' = Busy
    BY <1>1 DEF Loop, ResolverInv, ThreadsInv, Busy
  <2>2. SlotsInv'
    BY <1>1, <2>1 DEF Loop, ResolverInv, SlotsInv
  <2> QED
    BY <1>1, <2>1, <2>2 DEF Loop, ResolverInv, PeersInv, CachesInv, MainInv, caches, stack
<1>2. CASE Accept
  <2>1. main = "accept" /\ backlog # <<>> /\ backlog' = Tail(backlog) /\ backlog \in Seq(Client)
    BY <1>2 DEF Accept, ResolverInv, PeersInv
  <2>2. Head(backlog) \in Client /\ backlog' \in Seq(Client)
    BY <2>1, HeadTailProperties
  <2>3. PICK sock \in Client \cup {ZERO} : Spawn(sock)
    BY <1>2, <2>2 DEF Accept
  <2>4. zero' \in {"stdin", "closed", "udp"} \cup Client
    BY <1>2, <2>2 DEF Accept, ResolverInv, PeersInv
  <2> QED
    BY <2>1, <2>2, <2>3, <2>4, SpawnInv
<1>3. CASE AcceptTimesOut
  <2>1. main = "accept" /\ Spawn(ZERO) /\ UNCHANGED <<zero, backlog>>
    BY <1>3 DEF AcceptTimesOut
  <2>2. backlog' \in Seq(Client) /\ zero' \in {"stdin", "closed", "udp"} \cup Client
    BY <2>1 DEF ResolverInv, PeersInv
  <2> QED
    BY <2>1, <2>2, SpawnInv
<1>4. CASE CountOut
  <2>1. ThreadsInv' /\ Busy' = Busy
    BY <1>4 DEF CountOut, ResolverInv, ThreadsInv, Busy
  <2>2. Cardinality(Busy) \in Nat
    BY BusyFinite DEF ResolverInv
  <2>3. SlotsInv'
    BY <1>4, <2>1, <2>2, ResolverAssumption DEF CountOut, ResolverInv, SlotsInv
  <2> QED
    BY <1>4, <2>1, <2>3 DEF CountOut, ResolverInv, PeersInv, CachesInv, MainInv, caches, stack
<1> QED
  BY <1>1, <1>2, <1>3, <1>4 DEF MainStep

LEMMA PeerStepInv ==
  ASSUME ResolverInv, NEW c \in Client, Leave(c) \/ \E r \in Requests[c] : Ask(c, r)
  PROVE  ResolverInv'
<1>1. /\ UNCHANGED <<caches, avail_threads, g_shutdown, main, threads, zero, stack>>
      /\ client[c].unread \in BOOLEAN /\ backlog \in Seq(Client)
  BY DEF Leave, Ask, ResolverInv, PeersInv
<1>2. ThreadsInv' /\ SlotsInv' /\ CachesInv' /\ MainInv'
  BY <1>1 DEF ResolverInv, ThreadsInv, SlotsInv, CachesInv, MainInv, caches, stack, Busy
<1>3. CASE Leave(c)
  <2>1. PICK u \in BOOLEAN : client' = [client EXCEPT ![c].pc = "gone", ![c].unread = u]
    BY <1>1, <1>3 DEF Leave
  <2>2. UNCHANGED backlog
    BY <1>3 DEF Leave
  <2> QED
    BY <1>1, <1>2, <2>1, <2>2 DEF ResolverInv, PeersInv
<1>4. CASE \E r \in Requests[c] : Ask(c, r)
  <2>1. PICK r \in Requests[c] : Ask(c, r)
    BY <1>4
  <2>2. r \in Name \cup Command
    BY <2>1, ResolverAssumption
  <2>3. /\ client' = [client EXCEPT ![c].pc = "waiting", ![c].request = r, ![c].unread = TRUE]
        /\ backlog' = Append(backlog, c)
    BY <2>1 DEF Ask
  <2>4. backlog' \in Seq(Client)
    BY <1>1, <2>3, AppendProperties
  <2> DEFINE P == [pc : {"away", "waiting", "gone"}, request : Name \cup Command,
                   unread : BOOLEAN, told : Seq(Message)]
             p == [client[c] EXCEPT !.pc = "waiting", !.request = r, !.unread = TRUE]
  <2>5. client \in [Client -> P] /\ client[c] \in P
    BY DEF ResolverInv, PeersInv
  <2>6. p \in P
    BY <2>2, <2>5
  <2>7. client' = [client EXCEPT ![c] = p]
    BY <2>3
  <2> HIDE DEF p, P
  <2>8. client' \in [Client -> P]
    BY <2>5, <2>6, <2>7
  <2> QED
    BY <1>1, <1>2, <2>4, <2>8 DEF ResolverInv, PeersInv, P
<1> QED
  BY <1>3, <1>4

LEMMA InitInv == Init => ResolverInv
<1> SUFFICES ASSUME Init PROVE ResolverInv
  OBVIOUS
<1>1. threads = <<>> /\ threads \in Seq(ThreadState) /\ DOMAIN threads = {}
  BY DEF Init
<1>2. ThreadsInv
  BY <1>1 DEF ThreadsInv
<1>3. Cardinality(Busy) = 0
  BY <1>1, FS_EmptySet DEF Busy
<1>4. SlotsInv
  BY <1>3, ResolverAssumption DEF Init, SlotsInv
<1>5. PeersInv
  BY ResolverAssumption DEF Init, PeersInv
<1>6. /\ ns_cache \in [Name -> Seq(Ns)]
      /\ resolved_names_cache \in [Name -> InAddr \cup {NoAddress}]
  BY DEF Init
<1>8. seen = {} /\ misread = FALSE
  BY DEF Init
<1>7. CachesInv
  BY <1>6, <1>8 DEF CachesInv
<1> QED
  BY <1>2, <1>4, <1>5, <1>7 DEF Init, ResolverInv, MainInv

\* The invariant holds in every reachable state.
THEOREM ResolverInvHolds == Spec => []ResolverInv
<1>1. ResolverInv /\ [Next]_vars => ResolverInv'
  <2> SUFFICES ASSUME ResolverInv, [Next]_vars PROVE ResolverInv'
    OBVIOUS
  <2>1. CASE MainStep
    BY <2>1, MainStepInv
  <2>2. CASE \E h \in DOMAIN threads : ThreadStep(h)
    <3>1. PICK h \in DOMAIN threads : ThreadStep(h)
      BY <2>2
    <3> QED
      BY <3>1, ReceiveInv, CommandsInv, RespondInv, StartFindsInv, StartFindsNothingInv,
         FindCachedInv, QueryInv, DecodeAnswerInv, CheckAnsweredInv, DecodeReferralInv,
         WalkFindsInv, WalkFindsNothingInv, WalkGoesAstrayInv DEF ThreadStep
  <2>3. CASE \E c \in Client : Leave(c) \/ \E r \in Requests[c] : Ask(c, r)
    BY <2>3, PeerStepInv
  <2>4. CASE UNCHANGED vars
    BY <2>4 DEF vars, caches, stack, ResolverInv, ThreadsInv, SlotsInv, PeersInv, CachesInv, MainInv, Busy
  <2> QED
    BY <2>1, <2>2, <2>3, <2>4 DEF Next
<1> QED
  BY <1>1, InitInv, PTL DEF Spec

\* The variables keep their types, and what a thread waits in, it has a label for.
THEOREM TypeHolds == Spec => []TypeOK
<1>1. ResolverInv => TypeOK
  <2> SUFFICES ASSUME ResolverInv PROVE TypeOK
    OBVIOUS
  <2>1. ASSUME NEW h \in DOMAIN threads
        PROVE  threads[h] \in ThreadState /\ Within(threads[h])
    BY LenProperties, ElementOfSeq DEF ResolverInv, ThreadsInv
  <2>2. \A h \in DOMAIN threads :
       /\ threads[h].label \in Name \cup {NoName} /\ threads[h].calls \in Seq(Name)
       /\ threads[h].ns \in Ns \cup {root_server} /\ threads[h].contacted \subseteq Ns
       /\ threads[h].reply \in Reply
       /\ threads[h].pc \in {"start", "walk"} => threads[h].label \in Name
    BY <2>1 DEF ThreadState, Within
  <2> QED
    BY <2>2 DEF TypeOK, ResolverInv, SlotsInv, PeersInv, CachesInv, MainInv
<1> QED
  BY <1>1, ResolverInvHolds, PTL

\* No more threads than places run, and avail_threads counts the free ones, with
\* what main has still to count.
THEOREM SlotsHold == Spec => []SlotsCounted
<1>1. ResolverInv => SlotsCounted
  <2> SUFFICES ASSUME ResolverInv, main # "wrecked" PROVE SlotsCounted
    BY DEF SlotsCounted
  <2>1. Cardinality(Busy) \in Nat
    BY BusyFinite DEF ResolverInv
  <2> QED
    BY <2>1, ResolverAssumption DEF SlotsCounted, ResolverInv, SlotsInv
<1> QED
  BY <1>1, ResolverInvHolds, PTL

\* A look-up asks no more servers than there are, and one to start with.
THEOREM QueriesAreBounded == Spec => []QueriesBounded
<1>1. ResolverInv => QueriesBounded
  <2> SUFFICES ASSUME ResolverInv, NEW h \in DOMAIN threads
               PROVE  /\ threads[h].queries <= Cardinality(Ns) + 1
                      /\ Len(threads[h].calls) <= Cardinality(threads[h].contacted)
    BY DEF QueriesBounded
  <2>1. threads[h] \in ThreadState /\ Within(threads[h])
    BY LenProperties, ElementOfSeq DEF ResolverInv, ThreadsInv
  <2>2. threads[h].contacted \subseteq Ns /\ threads[h].queries \in Nat
    BY <2>1 DEF ThreadState
  <2>3. /\ Cardinality(threads[h].contacted) <= Cardinality(Ns)
        /\ Cardinality(threads[h].contacted) \in Nat /\ Cardinality(Ns) \in Nat
    BY <2>2, ResolverAssumption, FS_Subset, FS_CardinalityType
  <2> QED
    BY <2>1, <2>2, <2>3 DEF Within
<1> QED
  BY <1>1, ResolverInvHolds, PTL
-------------------------------------------------------------------------------
(***************************************************************************)
(* Whose answer it is.  While at most one accept times out, the threads    *)
(* are on different peers: descriptor 0 becomes a socket only when the one *)
(* thread that took it for a connection has closed it.                     *)
(***************************************************************************)
Looking == {"start", "query", "answers", "records", "walk", "found", "not found"}

\* Descriptor 0 is the input until an accept times out; a thread that is on it has
\* it open.
ZeroInv ==
  /\ idle \in Nat /\ idle <= MaxIdle
  /\ \A h \in Busy : threads[h].sock = ZERO => idle # 0 /\ zero \notin {"closed", "udp"}
  /\ idle = 0 => zero = "stdin"

\* No two threads are on one peer, and one that is on a client is the first to
\* tell it something; what it looks up is what the client asked, unless that left.
Serves(h) == Peer(threads[h].sock)
ServesInv ==
  /\ \A h, g \in Busy : Serves(h) = Serves(g) => h = g
  /\ \A h \in Busy : Serves(h) \in Client =>
       LET c == Serves(h) IN
         /\ client[c].told = <<>> /\ client[c].pc # "away"
         /\ \A i \in DOMAIN backlog : backlog[i] # c
         /\ threads[h].pc \in Command => client[c].request = threads[h].pc
         /\ threads[h].pc \in Looking =>
              \/ threads[h].name = client[c].request
              \/ threads[h].name = EmptyName /\ client[c].pc = "gone"

\* So have those that wait to be accepted, each for one connection.
BacklogInv ==
  /\ \A i, j \in DOMAIN backlog : backlog[i] = backlog[j] => i = j
  /\ \A i \in DOMAIN backlog : client[backlog[i]].told = <<>> /\ client[backlog[i]].pc # "away"
  /\ \A c \in Client : client[c].pc = "away" => client[c].told = <<>>

\* What a thread has found is in the cache, and stays there.
NamesInv ==
  \A h \in DOMAIN threads : threads[h].pc = "found" => resolved_names_cache[threads[h].name] # NoAddress

ToldRight(c) ==
  /\ Len(client[c].told) <= 1
  /\ \A i \in DOMAIN client[c].told :
       LET m == client[c].told[i] IN
         \/ m.type = client[c].request
         \/ /\ m.type \in {"found", "not found"}
            /\ m.name = client[c].request \/ (client[c].pc = "gone" /\ m.name = EmptyName)

OwnInv == ZeroInv /\ ServesInv /\ BacklogInv /\ NamesInv /\ \A c \in Client : ToldRight(c)
-------------------------------------------------------------------------------
\* Nothing of this is said of the other variables.
LEMMA SameOwn ==
  ASSUME OwnInv, UNCHANGED <<idle, zero, threads, client, backlog, resolved_names_cache>>
  PROVE  OwnInv'
<1>1. Busy' = Busy /\ \A h : Serves(h)' = Serves(h)
  BY DEF Busy, Serves, Peer
<1>2. ZeroInv'
  BY <1>1 DEF OwnInv, ZeroInv
<1>3. ServesInv'
  BY <1>1 DEF OwnInv, ServesInv
<1>4. BacklogInv' /\ NamesInv'
  BY DEF OwnInv, BacklogInv, NamesInv
<1>5. \A c \in Client : ToldRight(c)'
  BY DEF OwnInv, ToldRight
<1> QED
  BY <1>2, <1>3, <1>4, <1>5 DEF OwnInv

\* The names have their types.
LEMMA NamesFacts ==
  ASSUME ResolverInv
  PROVE  /\ threads \in Seq(ThreadState) /\ DOMAIN threads = 1 .. Len(threads) /\ Len(threads) \in Nat
         /\ \A g \in DOMAIN threads : threads[g] \in ThreadState
         /\ \A g \in DOMAIN threads : threads[g].name \in Name /\ threads[g].sock \in Client \cup {ZERO}
         /\ backlog \in Seq(Client) /\ DOMAIN backlog = 1 .. Len(backlog) /\ Len(backlog) \in Nat
         /\ \A i \in DOMAIN backlog : backlog[i] \in Client
<1>1. threads \in Seq(ThreadState) /\ backlog \in Seq(Client)
  BY DEF ResolverInv, ThreadsInv, PeersInv
<1>2. /\ DOMAIN threads = 1 .. Len(threads) /\ Len(threads) \in Nat
      /\ DOMAIN backlog = 1 .. Len(backlog) /\ Len(backlog) \in Nat
  BY <1>1, LenProperties
<1>3. /\ \A g \in DOMAIN threads : threads[g] \in ThreadState
      /\ \A i \in DOMAIN backlog : backlog[i] \in Client
  BY <1>1, <1>2, ElementOfSeq
<1> QED
  BY <1>1, <1>2, <1>3 DEF ThreadState

\* A thread that looks on: on the same peer, for the same name, while addresses
\* may come into the cache, and descriptor 0, when free, may become its query's.
LEMMA LooksOn ==
  ASSUME ResolverInv, OwnInv, NEW h \in Busy, threads[h].pc \in Looking, threads'[h].pc \in Looking,
         DOMAIN threads' = DOMAIN threads,
         \A g \in DOMAIN threads : threads'[g].sock = threads[g].sock /\ threads'[g].name = threads[g].name,
         \A g \in DOMAIN threads \ {h} : threads'[g].pc = threads[g].pc,
         threads'[h].pc = "found" => resolved_names_cache'[threads[h].name] # NoAddress,
         \A n \in Name : resolved_names_cache'[n] \in {resolved_names_cache[n]} \cup InAddr,
         zero' = zero \/ (zero = "closed" /\ zero' = "udp"),
         UNCHANGED <<idle, client, backlog>>
  PROVE  OwnInv'
<1>1. "ended" \notin Looking /\ \A pc \in Looking : pc \notin Command
  BY DEF Looking, Command
<1>2. Busy' = Busy /\ h \in DOMAIN threads
  BY <1>1 DEF Busy
<1>3. \A g \in Busy : g \in DOMAIN threads
  BY DEF Busy
<1>4. ASSUME NEW g \in Busy PROVE Serves(g)' = Serves(g)
  <2>1. threads[g].sock = ZERO => zero' = zero
    BY DEF OwnInv, ZeroInv
  <2> QED
    BY <2>1, <1>3 DEF Serves, Peer
<1>5. ZeroInv'
  BY <1>2, <1>3 DEF OwnInv, ZeroInv
<1>6. ServesInv'
  <2>1. \A g \in Busy : threads'[g].pc \in Command => threads'[g].pc = threads[g].pc
    BY <1>1, <1>3
  <2>2. \A g \in Busy : threads'[g].pc \in Looking => threads[g].pc \in Looking
    BY <1>3
  <2>3. \A g \in Busy : threads'[g].name = threads[g].name
    BY <1>3
  <2> HIDE DEF Looking, Command
  <2>4. ASSUME NEW g, NEW k \in Busy, g \in Busy, Serves(g)' = Serves(k)' PROVE g = k
    BY <2>4, <1>4 DEF OwnInv, ServesInv
  <2>5. ASSUME NEW g \in Busy, Serves(g)' \in Client
        PROVE  LET c == Serves(g)' IN
                 /\ client'[c].told = <<>> /\ client'[c].pc # "away"
                 /\ \A i \in DOMAIN backlog' : backlog'[i] # c
                 /\ threads'[g].pc \in Command => client'[c].request = threads'[g].pc
                 /\ threads'[g].pc \in Looking =>
                      \/ threads'[g].name = client'[c].request
                      \/ threads'[g].name = EmptyName /\ client'[c].pc = "gone"
    BY <1>4, <2>1, <2>2, <2>3, <2>5 DEF OwnInv, ServesInv
  <2> QED
    BY <1>2, <2>4, <2>5 DEF ServesInv
<1>7. BacklogInv' /\ \A c \in Client : ToldRight(c)'
  BY DEF OwnInv, BacklogInv, ToldRight
<1>8. NamesInv'
  <2>2. NoAddress \notin InAddr /\ \A g \in DOMAIN threads : threads[g].name \in Name
    BY NamesFacts, ResolverAssumption
  <2>3. ASSUME NEW g \in DOMAIN threads, threads'[g].pc = "found"
        PROVE  resolved_names_cache'[threads'[g].name] # NoAddress
    <3>1. CASE g = h
      BY <3>1, <2>3
    <3>2. CASE g # h
      <4>1. resolved_names_cache[threads[g].name] # NoAddress
        BY <2>3, <3>2 DEF OwnInv, NamesInv
      <4>2. threads'[g].name = threads[g].name
        OBVIOUS
      <4> QED
        BY <4>1, <4>2, <2>2
    <3> QED
      BY <3>1, <3>2
  <2> QED
    BY <2>3 DEF NamesInv
<1> QED
  BY <1>5, <1>6, <1>7, <1>8 DEF OwnInv

\* Its next state, with these answers to go through.
LooksThrough(h, answers) ==
  \E t : /\ t.pc \in Looking /\ t.sock = threads[h].sock /\ t.name = threads[h].name
         /\ t.reply.answers = answers
         /\ threads' = [threads EXCEPT ![h] = t]
         /\ t.pc = "found" => resolved_names_cache[t.name] # NoAddress

Looks(h) == LooksThrough(h, threads[h].reply.answers)

LEMMA LooksOwn ==
  ASSUME ResolverInv, OwnInv, NEW h, NEW pc \in Looking, At(h, pc), NEW answers, LooksThrough(h, answers),
         zero' = zero \/ (zero = "closed" /\ zero' = "udp"),
         UNCHANGED <<idle, client, backlog, resolved_names_cache>>
  PROVE  OwnInv'
<1>1. h \in DOMAIN threads /\ threads[h].pc = pc /\ h \in Busy
  BY DEF At, Busy, Looking
<1>2. PICK t : /\ t.pc \in Looking /\ t.sock = threads[h].sock /\ t.name = threads[h].name
               /\ threads' = [threads EXCEPT ![h] = t]
               /\ t.pc = "found" => resolved_names_cache[t.name] # NoAddress
  BY DEF LooksThrough
<1>3. /\ DOMAIN threads' = DOMAIN threads
      /\ \A g \in DOMAIN threads : threads'[g] = IF g = h THEN t ELSE threads[g]
  BY <1>1, <1>2, NamesFacts
<1>4. /\ \A g \in DOMAIN threads : threads'[g].sock = threads[g].sock /\ threads'[g].name = threads[g].name
      /\ \A g \in DOMAIN threads \ {h} : threads'[g].pc = threads[g].pc
      /\ threads'[h].pc \in Looking
      /\ threads'[h].pc = "found" => resolved_names_cache'[threads[h].name] # NoAddress
  BY <1>1, <1>2, <1>3
<1> QED
  BY <1>1, <1>3, <1>4, LooksOn

\* The same for one that puts something into a cache: others are told of a race
\* and nothing else.
LEMMA RacesOwn ==
  ASSUME ResolverInv, OwnInv, NEW h, NEW pc \in Looking, At(h, pc), NEW walking, NEW t,
         Race(h, t, walking), t.pc \in Looking \ {"found"}, t.sock = threads[h].sock, t.name = threads[h].name,
         \A n \in Name : resolved_names_cache'[n] \in {resolved_names_cache[n]} \cup InAddr,
         UNCHANGED <<idle, client, backlog, zero>>
  PROVE  OwnInv'
<1>1. h \in DOMAIN threads /\ threads[h].pc = pc /\ h \in Busy
  BY DEF At, Busy, Looking
<1>2. /\ DOMAIN threads' = DOMAIN threads
      /\ \A g \in DOMAIN threads : threads'[g] =
            IF g = h THEN t ELSE [threads[g] EXCEPT !.raced = @ \/ threads[g].pc \in walking]
  BY NamesFacts DEF Race
<1>3. ASSUME NEW g \in DOMAIN threads, g # h
      PROVE  threads'[g].sock = threads[g].sock /\ threads'[g].name = threads[g].name /\ threads'[g].pc = threads[g].pc
  <2>1. threads[g] \in ThreadState
    BY NamesFacts
  <2> QED
    BY <1>2, <1>3, <2>1 DEF ThreadState
<1>4. /\ \A g \in DOMAIN threads : threads'[g].sock = threads[g].sock /\ threads'[g].name = threads[g].name
      /\ \A g \in DOMAIN threads \ {h} : threads'[g].pc = threads[g].pc
      /\ threads'[h].pc \in Looking
      /\ threads'[h].pc = "found" => resolved_names_cache'[threads[h].name] # NoAddress
  BY <1>1, <1>2, <1>3
<1>5. threads[h].pc \in Looking /\ (zero' = zero \/ (zero = "closed" /\ zero' = "udp"))
  BY <1>1
<1> QED
  BY <1>1, <1>2, <1>4, <1>5, LooksOn

\* GetNS leaves a thread on its peer and its name.
LEMMA GetNSKeeps ==
  ASSUME NEW t \in ThreadState, NEW pc \in {"start", "walk"}, NEW n, NEW u \in GetNS(t, pc, n)
  PROVE  u.pc \in Looking \ {"found"} /\ u.sock = t.sock /\ u.name = t.name /\ u.reply = t.reply
<1>1. PICK l \in Label(n) : u = [t EXCEPT !.pc = pc, !.label = l, !.raced = FALSE]
  BY DEF GetNS
<1> QED
  BY <1>1 DEF ThreadState, Looking

\* The look-up goes on, from where it starts to the last of its calls.
LEMMA GetNSLooks ==
  ASSUME NEW h \in DOMAIN threads, threads[h] \in ThreadState, NEW pc \in {"start", "walk"}, NEW n,
         Becomes(h, GetNS(threads[h], pc, n))
  PROVE  Looks(h)
<1>1. PICK u \in GetNS(threads[h], pc, n) : threads' = [threads EXCEPT ![h] = u]
  BY DEF Becomes
<1> QED
  BY <1>1, GetNSKeeps DEF Looks, LooksThrough

LEMMA ReturnFalseLooks ==
  ASSUME NEW h \in DOMAIN threads, threads[h] \in ThreadState, ReturnFalse(h)
  PROVE  Looks(h)
<1> DEFINE calls == threads[h].calls
           t == [threads[h] EXCEPT !.pc = "not found"]
           u == [threads[h] EXCEPT !.pc = "walk", !.raced = FALSE, !.label = calls[Len(calls)],
                                   !.calls = SubSeq(calls, 1, Len(calls) - 1)]
<1>1. threads' = [threads EXCEPT ![h] = t] \/ threads' = [threads EXCEPT ![h] = u]
  BY DEF ReturnFalse
<1>2. /\ t.pc = "not found" /\ t.sock = threads[h].sock /\ t.name = threads[h].name
      /\ u.pc = "walk" /\ u.sock = threads[h].sock /\ u.name = threads[h].name
      /\ t.reply = threads[h].reply /\ u.reply = threads[h].reply
  BY DEF ThreadState
<1> HIDE DEF t, u
<1> QED
  BY <1>1, <1>2 DEF Looks, LooksThrough, Looking
-------------------------------------------------------------------------------
\* What the look-up does between two queries: it looks on.
LEMMA LookupLooks ==
  ASSUME ResolverInv, NEW h,
         \/ StartFinds(h) \/ StartFindsNothing(h) \/ FindCached(h) \/ CheckAnswered(h)
         \/ WalkFinds(h) \/ WalkFindsNothing(h)
  PROVE  /\ \E pc \in Looking : At(h, pc)
         /\ Looks(h) /\ UNCHANGED <<client, backlog, zero, resolved_names_cache, seen, misread>>
<1>1. PICK pc \in {"start", "query", "answers", "walk"} : At(h, pc)
  BY DEF StartFinds, StartFindsNothing, FindCached, CheckAnswered, WalkFinds, WalkFindsNothing
<1>2. pc \in Looking /\ h \in DOMAIN threads /\ threads[h] \in ThreadState
  BY <1>1, Acting DEF Looking
<1>3. ASSUME NEW t, t.pc \in Looking \ {"found"}, t.sock = threads[h].sock, t.name = threads[h].name,
             t.reply = threads[h].reply, threads' = [threads EXCEPT ![h] = t]
      PROVE  Looks(h)
  BY <1>3 DEF Looks, LooksThrough
<1>4. ASSUME Go(h, "found"), resolved_names_cache[threads[h].name] # NoAddress PROVE Looks(h)
  <2> DEFINE t == [threads[h] EXCEPT !.pc = "found"]
  <2>1. threads' = [threads EXCEPT ![h] = t]
    BY <1>4 DEF Go
  <2>2. t.pc = "found" /\ t.sock = threads[h].sock /\ t.name = threads[h].name /\ t.reply = threads[h].reply
    BY <1>2 DEF ThreadState
  <2> HIDE DEF t
  <2> QED
    BY <1>4, <2>1, <2>2 DEF Looks, LooksThrough, Looking
<1>5. Looks(h) /\ UNCHANGED <<client, backlog, zero, resolved_names_cache, seen, misread>>
  <2>1. CASE StartFinds(h)
    <3>1. PICK n \in Finds(h) : threads' = [threads EXCEPT ![h].pc = "query", ![h].ns = n]
      BY <2>1 DEF StartFinds
    <3> DEFINE t == [threads[h] EXCEPT !.pc = "query", !.ns = n]
    <3>2. threads' = [threads EXCEPT ![h] = t]
      BY <3>1
    <3>3. t.pc = "query" /\ t.sock = threads[h].sock /\ t.name = threads[h].name /\ t.reply = threads[h].reply
      BY <1>2 DEF ThreadState
    <3> HIDE DEF t
    <3>4. Looks(h)
      BY <3>2, <3>3, <1>3 DEF Looking
    <3> QED
      BY <2>1, <3>4 DEF StartFinds, caches, stack
  <2>2. CASE StartFindsNothing(h)
    <3> DEFINE t == [threads[h] EXCEPT !.pc = "query", !.ns = root_server]
    <3>1. \/ Becomes(h, GetNS(threads[h], "start", Trim[threads[h].label]))
          \/ threads' = [threads EXCEPT ![h] = t]
      BY <2>2 DEF StartFindsNothing
    <3>2. t.pc = "query" /\ t.sock = threads[h].sock /\ t.name = threads[h].name /\ t.reply = threads[h].reply
      BY <1>2 DEF ThreadState
    <3> HIDE DEF t
    <3>3. Looks(h)
      BY <1>2, <1>3, <3>1, <3>2, GetNSLooks DEF Looking
    <3> QED
      BY <2>2, <3>3 DEF StartFindsNothing, caches, stack
  <2>3. CASE FindCached(h)
    <3>1. Looks(h)
      BY <1>4, <2>3 DEF FindCached
    <3> QED
      BY <2>3, <3>1 DEF FindCached, caches, stack
  <2>5. CASE CheckAnswered(h)
    <3> DEFINE t == [threads[h] EXCEPT !.pc = "records"]
    <3>1. \/ Go(h, "found") /\ resolved_names_cache[threads[h].name] # NoAddress
          \/ ReturnFalse(h)
          \/ threads' = [threads EXCEPT ![h] = t]
          \/ Becomes(h, GetNS(threads[h], "walk", threads[h].name))
      BY <2>5 DEF CheckAnswered, Go
    <3>2. t.pc = "records" /\ t.sock = threads[h].sock /\ t.name = threads[h].name /\ t.reply = threads[h].reply
      BY <1>2 DEF ThreadState
    <3> HIDE DEF t
    <3>3. Looks(h)
      BY <1>2, <1>3, <1>4, <3>1, <3>2, GetNSLooks, ReturnFalseLooks DEF Looking
    <3> QED
      BY <2>5, <3>3 DEF CheckAnswered, caches, stack
  <2>6. CASE WalkFinds(h)
    <3>1. PICK n \in Finds(h) :
            threads' = [threads EXCEPT ![h].pc = "query", ![h].ns = n, ![h].contacted = @ \cup {n},
                          ![h].calls = Append(@, threads[h].label)]
      BY <2>6 DEF WalkFinds
    <3> DEFINE t == [threads[h] EXCEPT !.pc = "query", !.ns = n, !.contacted = @ \cup {n},
                                       !.calls = Append(@, threads[h].label)]
    <3>2. threads' = [threads EXCEPT ![h] = t]
      BY <3>1
    <3>3. t.pc = "query" /\ t.sock = threads[h].sock /\ t.name = threads[h].name /\ t.reply = threads[h].reply
      BY <1>2 DEF ThreadState
    <3> HIDE DEF t
    <3>4. Looks(h)
      BY <3>2, <3>3, <1>3 DEF Looking
    <3> QED
      BY <2>6, <3>4 DEF WalkFinds, caches, stack
  <2>7. CASE WalkFindsNothing(h)
    <3>1. Becomes(h, GetNS(threads[h], "walk", Trim[threads[h].label])) \/ ReturnFalse(h)
      BY <2>7 DEF WalkFindsNothing
    <3>2. Looks(h)
      BY <1>2, <3>1, GetNSLooks, ReturnFalseLooks
    <3> QED
      BY <2>7, <3>2 DEF WalkFindsNothing, caches, stack
  <2> QED
    BY <2>1, <2>2, <2>3, <2>5, <2>6, <2>7
<1> QED
  BY <1>1, <1>2, <1>5

\* So does a query, with the answers it reads.
LEMMA QueryLooks ==
  ASSUME ResolverInv, NEW h, NEW r, At(h, "query"), Reads(h, r)
  PROVE  /\ LooksThrough(h, r.answers) /\ "query" \in Looking
         /\ UNCHANGED <<client, backlog, resolved_names_cache>>
         /\ zero' = zero \/ (zero = "closed" /\ zero' = "udp")
<1>1. threads[h] \in ThreadState
  BY Acting
<1> DEFINE t == [threads[h] EXCEPT !.pc = "answers", !.reply = r, !.queries = @ + 1]
<1>2. threads' = [threads EXCEPT ![h] = t]
  BY DEF Reads
<1>3. t.pc = "answers" /\ t.sock = threads[h].sock /\ t.name = threads[h].name /\ t.reply = r
  BY <1>1 DEF ThreadState
<1> HIDE DEF t
<1>4. LooksThrough(h, r.answers)
  BY <1>2, <1>3 DEF LooksThrough, Looking
<1> QED
  BY <1>4 DEF Reads, Looking, caches

\* All of it keeps the threads apart.
LEMMA LookupOwn ==
  ASSUME ResolverInv, OwnInv, NEW h,
         \/ StartFinds(h) \/ StartFindsNothing(h) \/ FindCached(h) \/ CheckAnswered(h)
         \/ WalkFinds(h) \/ WalkFindsNothing(h)
         \/ Query(h) \/ QueryTimesOut(h) \/ QueryMisreads(h),
         UNCHANGED idle
  PROVE  OwnInv'
<1>1. CASE Query(h) \/ QueryTimesOut(h) \/ QueryMisreads(h)
  <2>1. PICK r \in Reply : Reads(h, r) /\ At(h, "query")
    BY <1>1, QueryReads
  <2> QED
    BY <2>1, QueryLooks, LooksOwn
<1>2. CASE \/ StartFinds(h) \/ StartFindsNothing(h) \/ FindCached(h) \/ CheckAnswered(h)
           \/ WalkFinds(h) \/ WalkFindsNothing(h)
  BY <1>2, LookupLooks, LooksOwn DEF Looks
<1> QED
  BY <1>1, <1>2

\* An address comes into the cache, or a server under its zone.
LEMMA DecodeOwn ==
  ASSUME ResolverInv, OwnInv, NEW h, DecodeAnswer(h) \/ DecodeReferral(h), UNCHANGED idle
  PROVE  OwnInv'
<1>1. CASE DecodeAnswer(h)
  <2> DEFINE n == Head(threads[h].reply.answers)[1]
             a == Head(threads[h].reply.answers)[2]
             t == [threads[h] EXCEPT !.reply.answers = Tail(@)]
             walking == IF resolved_names_cache[n] = NoAddress THEN {"dump"} ELSE {}
  <2>1. /\ At(h, "answers") /\ Race(h, t, walking) /\ threads[h].reply.answers # <<>>
        /\ resolved_names_cache' = [resolved_names_cache EXCEPT ![n] = a]
        /\ UNCHANGED <<zero, backlog, client>>
    BY <1>1 DEF DecodeAnswer
  <2>2. threads[h] \in ThreadState /\ threads[h].pc = "answers"
    BY <2>1, Acting
  <2>3. t.pc = "answers" /\ t.sock = threads[h].sock /\ t.name = threads[h].name
    BY <2>2 DEF ThreadState
  <2>7. a \in InAddr
    <3>1. threads[h].reply.answers \in Seq(Name \X InAddr)
      BY <2>2 DEF ThreadState, Reply
    <3>2. Head(threads[h].reply.answers) \in Name \X InAddr
      BY <2>1, <3>1, HeadTailProperties
    <3> QED
      BY <3>2
  <2> HIDE DEF t, n, a, walking
  <2>4. resolved_names_cache \in [Name -> InAddr \cup {NoAddress}]
    BY DEF ResolverInv, CachesInv
  <2>5. \A k \in Name : resolved_names_cache'[k] \in {resolved_names_cache[k]} \cup InAddr
    BY <2>1, <2>4, <2>7
  <2>6. "answers" \in Looking /\ t.pc \in Looking \ {"found"}
    BY <2>3 DEF Looking
  <2> QED
    BY <2>1, <2>3, <2>5, <2>6, RacesOwn
<1>2. CASE DecodeReferral(h)
  <2> DEFINE rest == Tail(threads[h].reply.referral)
             t == [threads[h] EXCEPT !.reply.referral = rest]
             walking == {"start", "walk", "dump"}
  <2>1. /\ At(h, "records") /\ UNCHANGED <<zero, backlog, client, resolved_names_cache>>
        /\ \E u \in IF rest # <<>> THEN {t} ELSE GetNS(t, "walk", t.name) : Race(h, u, walking)
    BY <1>2 DEF DecodeReferral
  <2>2. threads[h] \in ThreadState /\ threads[h].pc = "records" /\ Within(threads[h])
    BY <2>1, Acting
  <2>3. t.pc = "records" /\ t.sock = threads[h].sock /\ t.name = threads[h].name
    BY <2>2 DEF ThreadState
  <2>4. t \in ThreadState
    <3>1. threads[h].reply \in Reply /\ threads[h].reply.referral # <<>>
      BY <2>2 DEF ThreadState, Within
    <3>2. threads[h].reply.referral \in Seq(Name \X Ns)
      BY <3>1 DEF Reply
    <3>3. rest \in Seq(Name \X Ns)
      BY <3>1, <3>2, HeadTailProperties
    <3> HIDE DEF rest
    <3>4. [threads[h].reply EXCEPT !.referral = rest] \in Reply
      BY <3>1, <3>3 DEF Reply
    <3> QED
      BY <2>2, <3>4 DEF ThreadState
  <2> HIDE DEF t, rest, walking
  <2>5. PICK u \in IF rest # <<>> THEN {t} ELSE GetNS(t, "walk", t.name) : Race(h, u, walking)
    BY <2>1
  <2>6. u.pc \in Looking \ {"found"} /\ u.sock = t.sock /\ u.name = t.name
    <3>1. CASE rest # <<>>
      BY <2>3, <2>5, <3>1 DEF Looking
    <3>2. CASE rest = <<>>
      BY <2>4, <2>5, <3>2, GetNSKeeps
    <3> QED
      BY <3>1, <3>2
  <2>7. "records" \in Looking
    BY DEF Looking
  <2> QED
    BY <2>1, <2>3, <2>5, <2>6, <2>7, RacesOwn
<1> QED
  BY <1>1, <1>2
-------------------------------------------------------------------------------
\* The message received: a name to look up, or a command to carry out.
LEMMA ReceiveOwn ==
  ASSUME ResolverInv, OwnInv, NEW h, Receive(h), UNCHANGED idle
  PROVE  OwnInv'
<1>1. /\ h \in DOMAIN threads /\ threads[h] \in ThreadState /\ threads[h].pc = "recv"
      /\ UNCHANGED <<zero, backlog, resolved_names_cache>>
  BY Acting DEF Receive, caches
<1>2. ASSUME NEW n, Begin(h, n)
      PROVE  \E t : /\ threads' = [threads EXCEPT ![h] = t] /\ t.sock = threads[h].sock
                    /\ t.pc = "start" /\ t.name = n
  <2> DEFINE s == [threads[h] EXCEPT !.name = n]
  <2>1. PICK u \in GetNS(s, "start", n) : threads' = [threads EXCEPT ![h] = u]
    BY <1>2 DEF Begin, Becomes
  <2>2. PICK l \in Label(n) : u = [s EXCEPT !.pc = "start", !.label = l, !.raced = FALSE]
    BY <2>1 DEF GetNS
  <2>3. u.pc = "start" /\ u.sock = threads[h].sock /\ u.name = n
    BY <1>1, <2>2 DEF ThreadState
  <2> QED
    BY <2>1, <2>3
<1>3. ASSUME NEW pc, Go(h, pc)
      PROVE  \E t : threads' = [threads EXCEPT ![h] = t] /\ t.sock = threads[h].sock /\ t.pc = pc
  <2> DEFINE t == [threads[h] EXCEPT !.pc = pc]
  <2>1. threads' = [threads EXCEPT ![h] = t]
    BY <1>3 DEF Go
  <2>2. t.sock = threads[h].sock /\ t.pc = pc
    BY <1>1 DEF ThreadState
  <2> QED
    BY <2>1, <2>2
<1> DEFINE c == Serves(h)
           Right(t) == /\ t.pc \in Command \cup {"start"}
                       /\ c \in Client =>
                            /\ t.pc \in Command => client[c].request = t.pc
                            /\ t.pc = "start" =>
                                 \/ t.name = client[c].request
                                 \/ t.name = EmptyName /\ client[c].pc = "gone"
<1>4. \E t : threads' = [threads EXCEPT ![h] = t] /\ t.sock = threads[h].sock /\ Right(t)
  <2>1. "start" \notin Command
    BY DEF Command
  <2>2. CASE c \notin Client
    <3>1. Begin(h, EmptyName)
      BY <2>2 DEF Receive, Serves
    <3> QED
      BY <1>2, <2>1, <2>2, <3>1
  <2>3. CASE c \in Client
    <3>1. /\ client[c].unread \/ client[c].pc = "gone"
          /\ IF ~client[c].unread THEN Begin(h, EmptyName)
             ELSE IF client[c].request \in Command THEN Go(h, client[c].request)
             ELSE Begin(h, client[c].request)
      BY <2>3 DEF Receive, Serves
    <3> HIDE DEF c
    <3>2. CASE ~client[c].unread
      BY <1>2, <2>1, <3>1, <3>2
    <3>3. CASE client[c].unread /\ client[c].request \in Command
      BY <1>3, <2>1, <3>1, <3>3
    <3>4. CASE client[c].unread /\ client[c].request \notin Command
      BY <1>2, <2>1, <3>1, <3>4
    <3> QED
      BY <3>2, <3>3, <3>4
  <2> QED
    BY <2>2, <2>3
<1>5. /\ DOMAIN client' = DOMAIN client
      /\ \A d \in Client : /\ client'[d].pc = client[d].pc /\ client'[d].request = client[d].request
                           /\ client'[d].told = client[d].told
  <2>1. client \in [Client -> [pc : {"away", "waiting", "gone"}, request : Name \cup Command,
                               unread : BOOLEAN, told : Seq(Message)]]
    BY DEF ResolverInv, PeersInv
  <2>2. client' = client \/ client' = [client EXCEPT ![c].unread = FALSE]
    BY DEF Receive, Serves
  <2> DEFINE p == [client[c] EXCEPT !.unread = FALSE]
  <2>3. client' = client \/ client' = [client EXCEPT ![c] = p]
    BY <2>2
  <2>4. c \in Client => p.pc = client[c].pc /\ p.request = client[c].request /\ p.told = client[c].told
    BY <2>1
  <2>5. DOMAIN client' = DOMAIN client /\ DOMAIN client = Client
    BY <2>1, <2>3
  <2> HIDE DEF c, p
  <2>6. \A d \in Client : client'[d] = client[d] \/ (d = c /\ client'[d] = p)
    BY <2>3, <2>5
  <2> QED
    BY <2>4, <2>5, <2>6
<1>6. PICK t : threads' = [threads EXCEPT ![h] = t] /\ t.sock = threads[h].sock /\ Right(t)
  BY <1>4
<1>7. /\ DOMAIN threads' = DOMAIN threads
      /\ \A g \in DOMAIN threads : threads'[g] = IF g = h THEN t ELSE threads[g]
  BY <1>1, <1>6, NamesFacts
<1>8. t.pc \notin {"ended", "found"} /\ (t.pc \in Looking => t.pc = "start")
  BY <1>6 DEF Command, Looking
<1>9. Busy' = Busy /\ h \in Busy /\ \A g \in Busy : g \in DOMAIN threads /\ Serves(g)' = Serves(g)
  BY <1>1, <1>6, <1>7, <1>8 DEF Busy, Serves, Peer
<1>10. ZeroInv'
  BY <1>1, <1>6, <1>7, <1>9 DEF OwnInv, ZeroInv
<1>11. BacklogInv' /\ \A d \in Client : ToldRight(d)'
  <2>1. \A i \in DOMAIN backlog : backlog[i] \in Client
    BY NamesFacts
  <2>2. BacklogInv'
    BY <1>1, <1>5, <2>1 DEF OwnInv, BacklogInv
  <2>3. ASSUME NEW d \in Client PROVE ToldRight(d)'
    <3>1. ToldRight(d)
      BY DEF OwnInv
    <3> HIDE DEF c
    <3> QED
      BY <1>5, <3>1 DEF ToldRight
  <2> QED
    BY <2>2, <2>3
<1>12. NamesInv'
  BY <1>1, <1>7, <1>8 DEF OwnInv, NamesInv
<1>13. ServesInv'
  <2>1. \A g, k \in Busy : Serves(g)' = Serves(k)' => g = k
    BY <1>9 DEF OwnInv, ServesInv
  <2>2. ASSUME NEW g \in Busy, Serves(g) \in Client, NEW d, d = Serves(g)
        PROVE  /\ client'[d].told = <<>> /\ client'[d].pc # "away"
               /\ \A i \in DOMAIN backlog' : backlog'[i] # d
               /\ threads'[g].pc \in Command => client'[d].request = threads'[g].pc
               /\ threads'[g].pc \in Looking =>
                    \/ threads'[g].name = client'[d].request
                    \/ threads'[g].name = EmptyName /\ client'[d].pc = "gone"
    <3>1. /\ client[d].told = <<>> /\ client[d].pc # "away"
          /\ \A i \in DOMAIN backlog : backlog[i] # d
          /\ threads[g].pc \in Command => client[d].request = threads[g].pc
          /\ threads[g].pc \in Looking =>
               \/ threads[g].name = client[d].request
               \/ threads[g].name = EmptyName /\ client[d].pc = "gone"
      BY <2>2 DEF OwnInv, ServesInv
    <3>2. CASE g # h
      BY <1>1, <1>5, <1>7, <1>9, <2>2, <3>1, <3>2
    <3>3. CASE g = h
      <4>1. threads'[g] = t /\ d = c
        BY <1>7, <1>9, <2>2, <3>3
      <4>2. /\ t.pc \in Command => client[d].request = t.pc
            /\ t.pc \in Looking =>
                 \/ t.name = client[d].request
                 \/ t.name = EmptyName /\ client[d].pc = "gone"
        BY <1>6, <1>8, <2>2, <4>1
      <4> HIDE DEF c
      <4> QED
        BY <1>1, <1>5, <2>2, <3>1, <4>1, <4>2
    <3> QED
      BY <3>2, <3>3
  <2> QED
    BY <1>9, <2>1, <2>2 DEF ServesInv
<1> QED
  BY <1>10, <1>11, <1>12, <1>13 DEF OwnInv

\* What Append does, whatever is appended.
LEMMA AppendFacts ==
  ASSUME NEW S, NEW s \in Seq(S), NEW e
  PROVE  /\ DOMAIN Append(s, e) = 1 .. Len(s) + 1 /\ Append(s, e)[Len(s) + 1] = e
         /\ \A i \in 1 .. Len(s) : Append(s, e)[i] = s[i]
<1> DEFINE T == S \cup {e}
<1>1. s \in Seq(T) /\ e \in T
  BY SeqDef
<1> HIDE DEF T
<1>2. /\ Append(s, e) \in Seq(T) /\ Len(Append(s, e)) = Len(s) + 1
      /\ Append(s, e)[Len(s) + 1] = e
      /\ \A i \in 1 .. Len(s) : Append(s, e)[i] = s[i]
  BY <1>1, AppendProperties
<1> QED
  BY <1>2, LenProperties

\* What has been added to an empty sequence is all there is in it.
LEMMA AddedToNone ==
  ASSUME NEW S, NEW s \in Seq(S), Len(s) = 0, NEW e \in S
  PROVE  Len(Append(s, e)) = 1 /\ \A i \in DOMAIN Append(s, e) : Append(s, e)[i] = e
<1>1. /\ Append(s, e) \in Seq(S) /\ Len(Append(s, e)) = Len(s) + 1
      /\ Append(s, e)[Len(s) + 1] = e
  BY AppendProperties
<1>2. DOMAIN Append(s, e) = 1 .. 1
  BY <1>1, LenProperties
<1> QED
  BY <1>1, <1>2

\* The one message a client is told, by the thread that serves it.
LEMMA FinishOwn ==
  ASSUME ResolverInv, OwnInv, NEW h, NEW pc, At(h, pc), pc # "ended", NEW m \in Message, Finish(h, m),
         Serves(h) \in Client =>
           \/ m.type = client[Serves(h)].request
           \/ /\ m.type \in {"found", "not found"}
              /\ \/ m.name = client[Serves(h)].request
                 \/ client[Serves(h)].pc = "gone" /\ m.name = EmptyName,
         zero' = zero \/ Close(h),
         UNCHANGED <<idle, backlog, resolved_names_cache>>
  PROVE  OwnInv'
<1>1. /\ h \in DOMAIN threads /\ threads[h] \in ThreadState /\ threads[h].pc # "ended" /\ h \in Busy
  BY Acting DEF Busy
<1> DEFINE c == Serves(h)
           t == [Thread(threads[h].sock) EXCEPT !.pc = "ended"]
<1>2. t.pc = "ended"
  BY DEF Thread
<1>3. /\ threads' = [threads EXCEPT ![h] = t]
      /\ client' = IF c \in Client THEN [client EXCEPT ![c].told = Append(@, m)] ELSE client
  BY DEF Finish, Told, Serves
<1> HIDE DEF t
<1>4. /\ DOMAIN threads' = DOMAIN threads
      /\ \A g \in DOMAIN threads : threads'[g] = IF g = h THEN t ELSE threads[g]
  BY <1>1, <1>3, NamesFacts
<1>5. /\ Busy' = Busy \ {h}
      /\ \A g \in Busy \ {h} : g \in DOMAIN threads /\ threads'[g] = threads[g]
  BY <1>2, <1>4 DEF Busy
<1>6. ASSUME NEW g \in Busy \ {h}
      PROVE  Serves(g)' = Serves(g) /\ Serves(g) # c /\ (threads[g].sock = ZERO => zero' = zero)
  <2>1. Serves(g) # c
    BY <1>1, <1>6 DEF OwnInv, ServesInv
  <2>2. threads[g].sock = ZERO => zero' = zero
    BY <2>1 DEF Close, Serves, Peer
  <2> QED
    BY <1>5, <1>6, <2>1, <2>2 DEF Serves, Peer
<1> DEFINE P == [pc : {"away", "waiting", "gone"}, request : Name \cup Command,
                 unread : BOOLEAN, told : Seq(Message)]
<1>7. client \in [Client -> P]
  BY DEF ResolverInv, PeersInv
<1>8. ASSUME c \in Client
      PROVE  /\ client[c].told = <<>> /\ client[c].pc # "away"
             /\ \A i \in DOMAIN backlog : backlog[i] # c
  BY <1>1, <1>8 DEF OwnInv, ServesInv
<1>9. /\ \A d \in Client \ {c} : client'[d] = client[d]
      /\ c \in Client => /\ Len(client'[c].told) = 1
                         /\ \A i \in DOMAIN client'[c].told : client'[c].told[i] = m
                         /\ client'[c].pc = client[c].pc /\ client'[c].request = client[c].request
  <2> HIDE DEF c
  <2>1. CASE c \notin Client
    BY <1>3, <2>1
  <2>2. CASE c \in Client
    <3> DEFINE told == Append(client[c].told, m)
               p == [client[c] EXCEPT !.told = told]
    <3>1. client' = [client EXCEPT ![c] = p] /\ client[c] \in P
      BY <1>3, <1>7, <2>2
    <3>2. Len(told) = 1 /\ \A i \in DOMAIN told : told[i] = m
      <4>1. client[c].told \in Seq(Message) /\ Len(client[c].told) = 0
        BY <1>8, <2>2, <3>1
      <4>2. m \in Message
        OBVIOUS
      <4> QED
        BY ONLY <4>1, <4>2, AddedToNone
    <3> HIDE DEF told
    <3>3. p.told = told /\ p.pc = client[c].pc /\ p.request = client[c].request
      BY <3>1
    <3> HIDE DEF p, P
    <3> QED
      BY <1>7, <2>2, <3>1, <3>2, <3>3
  <2> QED
    BY <2>1, <2>2
<1> HIDE DEF P
<1>10. ZeroInv'
  <2>1. \A g \in Busy' : g \in Busy /\ threads'[g].sock = threads[g].sock
    BY <1>5
  <2>2. \A g \in Busy' : threads[g].sock = ZERO => zero' = zero
    BY <1>5, <1>6
  <2>3. idle = 0 => threads[h].sock # ZERO
    BY <1>1 DEF OwnInv, ZeroInv
  <2>4. idle = 0 => zero' = zero
    BY <2>3 DEF Close
  <2> QED
    BY <2>1, <2>2, <2>4 DEF OwnInv, ZeroInv
<1>11. BacklogInv'
  <2>1. \A i \in DOMAIN backlog : backlog[i] \in Client \ {c}
    BY <1>8, NamesFacts
  <2>2. \A d \in Client : client'[d].pc = "away" => d # c /\ client[d].pc = "away"
    BY <1>8, <1>9
  <2> HIDE DEF c
  <2> QED
    BY <1>9, <2>1, <2>2 DEF OwnInv, BacklogInv
<1>12. NamesInv'
  BY <1>2, <1>4 DEF OwnInv, NamesInv
<1>13. ServesInv'
  <2>1. ASSUME NEW g \in Busy', NEW k \in Busy', Serves(g)' = Serves(k)' PROVE g = k
    <3>1. g \in Busy \ {h} /\ k \in Busy \ {h}
      BY <1>5
    <3>2. Serves(g) = Serves(k)
      BY <1>6, <2>1, <3>1
    <3> QED
      BY <3>1, <3>2 DEF OwnInv, ServesInv
  <2>2. ASSUME NEW g \in Busy', Serves(g)' \in Client, NEW d, d = Serves(g)'
        PROVE  /\ client'[d].told = <<>> /\ client'[d].pc # "away"
               /\ \A i \in DOMAIN backlog' : backlog'[i] # d
               /\ threads'[g].pc \in Command => client'[d].request = threads'[g].pc
               /\ threads'[g].pc \in Looking =>
                    \/ threads'[g].name = client'[d].request
                    \/ threads'[g].name = EmptyName /\ client'[d].pc = "gone"
    <3>1. g \in Busy \ {h} /\ d = Serves(g) /\ d \in Client \ {c} /\ threads'[g] = threads[g]
      BY <1>5, <1>6, <2>2
    <3>2. client'[d] = client[d]
      BY <1>9, <3>1
    <3>3. /\ client[d].told = <<>> /\ client[d].pc # "away"
          /\ \A i \in DOMAIN backlog : backlog[i] # d
          /\ threads[g].pc \in Command => client[d].request = threads[g].pc
          /\ threads[g].pc \in Looking =>
               \/ threads[g].name = client[d].request
               \/ threads[g].name = EmptyName /\ client[d].pc = "gone"
      BY <3>1 DEF OwnInv, ServesInv
    <3> QED
      BY <3>1, <3>2, <3>3
  <2> QED
    BY <2>1, <2>2 DEF ServesInv
<1>14. ASSUME NEW d \in Client PROVE ToldRight(d)'
  <2>1. CASE d # c
    <3>1. client'[d] = client[d] /\ ToldRight(d)
      BY <1>9, <1>14, <2>1 DEF OwnInv
    <3> QED
      BY <3>1 DEF ToldRight
  <2>2. CASE d = c
    <3>1. /\ Len(client'[d].told) = 1 /\ \A i \in DOMAIN client'[d].told : client'[d].told[i] = m
          /\ client'[d].pc = client[d].pc
          /\ client'[d].request = client[d].request
      BY <1>9, <1>14, <2>2
    <3>2. \/ m.type = client[d].request
          \/ /\ m.type \in {"found", "not found"}
             /\ m.name = client[d].request \/ (client[d].pc = "gone" /\ m.name = EmptyName)
      BY <1>14, <2>2
    <3> QED
      <4> HIDE DEF c
      <4>3. Len(client'[d].told) = 1
        BY <3>1
      <4>1. Len(client'[d].told) <= 1
        BY ONLY <4>3
      <4>2. ASSUME NEW i \in DOMAIN client'[d].told
            PROVE  LET w == client'[d].told[i] IN
                     \/ w.type = client'[d].request
                     \/ /\ w.type \in {"found", "not found"}
                        /\ w.name = client'[d].request \/ (client'[d].pc = "gone" /\ w.name = EmptyName)
        BY <3>1, <3>2, <4>2
      <4> QED
        BY <4>1, <4>2, Zenon DEF ToldRight
  <2> QED
    BY <2>1, <2>2
<1> QED
  BY <1>10, <1>11, <1>12, <1>13, <1>14 DEF OwnInv
\* What it is told: that its command has been carried out, or about its name.
LEMMA CommandsOwn ==
  ASSUME ResolverInv, OwnInv, NEW h, SetOutput(h) \/ SetShutdown(h) \/ Dump(h), UNCHANGED idle
  PROVE  OwnInv'
<1>1. ASSUME NEW cmd \in Command, At(h, cmd), Finish(h, Done(cmd)), zero' = zero \/ Close(h),
             UNCHANGED <<caches, backlog>>
      PROVE  OwnInv'
  <2>1. h \in Busy /\ threads[h].pc = cmd /\ cmd # "ended"
    BY <1>1 DEF At, Busy, Command
  <2>2. Serves(h) \in Client => client[Serves(h)].request = cmd
    BY <1>1, <2>1 DEF OwnInv, ServesInv
  <2>3. Done(cmd) \in Message /\ Done(cmd).type = cmd
    BY <1>1 DEF Done, Message
  <2> QED
    BY <1>1, <2>1, <2>2, <2>3, FinishOwn DEF caches
<1>2. "output" \in Command /\ "shutdown" \in Command /\ "dump" \in Command
  BY DEF Command
<1>3. CASE SetOutput(h)
  BY <1>1, <1>2, <1>3 DEF SetOutput
<1>4. CASE SetShutdown(h)
  BY <1>1, <1>2, <1>4 DEF SetShutdown
<1>5. CASE Dump(h)
  <2>1. CASE Finish(h, Done("dump"))
    BY <1>1, <1>2, <1>5, <2>1 DEF Dump
  <2>2. CASE UNCHANGED <<avail_threads, client, threads>>
    BY <1>5, <2>2, SameOwn DEF Dump, caches
  <2> QED
    BY <1>5, <2>1, <2>2 DEF Dump
<1> QED
  BY <1>3, <1>4, <1>5

LEMMA RespondOwn ==
  ASSUME ResolverInv, OwnInv, NEW h, Respond(h), UNCHANGED idle
  PROVE  OwnInv'
<1> DEFINE n == threads[h].name
<1>1. PICK pc \in {"found", "not found"} :
        At(h, pc) /\ Finish(h, IF pc = "found" THEN Found(n) ELSE NotFound(n))
  BY DEF Respond
<1>2. h \in Busy /\ h \in DOMAIN threads /\ threads[h].pc = pc /\ pc \in Looking /\ n \in Name
  <2>1. threads[h] \in ThreadState
    BY <1>1, Acting
  <2> QED
    BY <1>1, <2>1 DEF At, Busy, Looking, ThreadState
<1>3. Serves(h) \in Client =>
        n = client[Serves(h)].request \/ (n = EmptyName /\ client[Serves(h)].pc = "gone")
  BY <1>2 DEF OwnInv, ServesInv
<1>4. resolved_names_cache[n] \in InAddr \cup {NoAddress}
  BY <1>2 DEF ResolverInv, CachesInv
<1>5. Close(h) /\ UNCHANGED <<backlog, resolved_names_cache>>
  BY DEF Respond, caches
<1> HIDE DEF n
<1>6. CASE pc = "found"
  <2>1. /\ Found(n) \in Message /\ Found(n).type = "found" /\ Found(n).name = n
    BY <1>2, <1>4, <1>6 DEF Found, Message
  <2> QED
    BY <1>1, <1>2, <1>3, <1>5, <1>6, <2>1, FinishOwn
<1>7. CASE pc = "not found"
  <2>1. NotFound(n) \in Message /\ NotFound(n).type = "not found" /\ NotFound(n).name = n
    BY <1>2 DEF NotFound, Message
  <2>2. pc # "found"
    BY <1>7
  <2> QED
    BY <1>1, <1>2, <1>3, <1>5, <1>7, <2>1, <2>2, FinishOwn
<1> QED
  BY <1>1, <1>6, <1>7
-------------------------------------------------------------------------------
\* A thread more, on a peer of its own.
LEMMA SpawnOwn ==
  ASSUME ResolverInv, OwnInv, NEW sock, NEW p, Spawn(sock), p = (IF sock = ZERO THEN zero' ELSE sock),
         \A g \in Busy : threads[g].sock = ZERO => zero' = zero,
         \A g \in Busy : Serves(g) # p,
         p \in Client => /\ client[p].told = <<>> /\ client[p].pc # "away"
                         /\ \A i \in DOMAIN backlog' : backlog'[i] # p,
         \A i \in DOMAIN backlog' : \E j \in DOMAIN backlog : backlog'[i] = backlog[j],
         \A i, j \in DOMAIN backlog' : backlog'[i] = backlog'[j] => i = j,
         idle' \in Nat, idle' <= MaxIdle, idle' >= idle, idle' = 0 => zero' = "stdin",
         sock = ZERO => idle' # 0 /\ zero' \notin {"closed", "udp"}
  PROVE  OwnInv'
<1>0. PICK n : n = Len(threads) + 1
  OBVIOUS
<1>1. /\ threads' = Append(threads, Thread(sock))
      /\ UNCHANGED <<client, resolved_names_cache>>
  BY DEF Spawn, caches
<1>2. /\ DOMAIN threads' = 1 .. n /\ DOMAIN threads = 1 .. Len(threads) /\ Len(threads) \in Nat
      /\ \A g \in 1 .. Len(threads) : threads'[g] = threads[g]
      /\ threads'[n] = Thread(sock)
  BY <1>1, <1>0, NamesFacts, AppendFacts
<1>3. /\ Thread(sock).pc = "recv" /\ Thread(sock).sock = sock
      /\ "recv" \notin Command /\ "recv" \notin Looking
  BY DEF Thread, Command, Looking
<1>4. n \notin DOMAIN threads /\ DOMAIN threads' = DOMAIN threads \cup {n}
  BY <1>2, <1>0
<1>5. Busy' = Busy \cup {n} /\ n \notin Busy /\ \A g \in Busy : g \in DOMAIN threads /\ threads'[g] = threads[g]
  BY <1>2, <1>3, <1>4 DEF Busy
<1>6. Serves(n)' = p /\ \A g \in Busy : Serves(g)' = Serves(g)
  BY <1>2, <1>3, <1>5 DEF Serves, Peer
<1>7. ZeroInv'
  <2>1. \A g \in Busy : threads'[g].sock = ZERO => idle' # 0 /\ zero' \notin {"closed", "udp"}
    BY <1>5 DEF OwnInv, ZeroInv
  <2> QED
    BY <1>2, <1>3, <1>5, <2>1 DEF ZeroInv
<1>8. ServesInv'
  <2>1. ASSUME NEW g \in Busy', NEW k \in Busy', Serves(g)' = Serves(k)' PROVE g = k
    <3>1. ASSUME g \in Busy, k \in Busy PROVE g = k
      BY <1>6, <2>1, <3>1 DEF OwnInv, ServesInv
    <3>2. g = n => k \notin Busy
      BY <1>6, <2>1
    <3>3. k = n => g \notin Busy
      BY <1>6, <2>1
    <3> QED
      BY <1>5, <3>1, <3>2, <3>3
  <2>2. ASSUME NEW g \in Busy', Serves(g)' \in Client, NEW d, d = Serves(g)'
        PROVE  /\ client'[d].told = <<>> /\ client'[d].pc # "away"
               /\ \A i \in DOMAIN backlog' : backlog'[i] # d
               /\ threads'[g].pc \in Command => client'[d].request = threads'[g].pc
               /\ threads'[g].pc \in Looking =>
                    \/ threads'[g].name = client'[d].request
                    \/ threads'[g].name = EmptyName /\ client'[d].pc = "gone"
    <3>1. CASE g = n
      BY <1>1, <1>2, <1>3, <1>6, <2>2, <3>1
    <3>2. CASE g # n
      <4>1. g \in Busy /\ d = Serves(g) /\ threads'[g] = threads[g]
        BY <1>5, <1>6, <2>2, <3>2
      <4>2. /\ client[d].told = <<>> /\ client[d].pc # "away"
            /\ \A i \in DOMAIN backlog : backlog[i] # d
            /\ threads[g].pc \in Command => client[d].request = threads[g].pc
            /\ threads[g].pc \in Looking =>
                 \/ threads[g].name = client[d].request
                 \/ threads[g].name = EmptyName /\ client[d].pc = "gone"
        BY <2>2, <4>1 DEF OwnInv, ServesInv
      <4>3. \A i \in DOMAIN backlog' : backlog'[i] # d
        BY <4>2
      <4> QED
        BY <1>1, <4>1, <4>2, <4>3
    <3> QED
      BY <3>1, <3>2
  <2> QED
    BY <2>1, <2>2 DEF ServesInv
<1>9. BacklogInv'
  BY <1>1 DEF OwnInv, BacklogInv
<1>10. NamesInv'
  BY <1>1, <1>2, <1>3, <1>4 DEF OwnInv, NamesInv
<1>11. ASSUME NEW c \in Client PROVE ToldRight(c)'
  <2>1. ToldRight(c)
    BY DEF OwnInv
  <2> QED
    BY <1>1, <2>1 DEF ToldRight
<1> QED
  BY <1>7, <1>8, <1>9, <1>10, <1>11 DEF OwnInv

\* The sockets of busy threads, as far as they are no clients.
LEMMA SocketFacts ==
  ASSUME ResolverInv, NEW g \in Busy
  PROVE  /\ threads[g].sock \in Client \cup {ZERO} /\ ZERO \notin Client
         /\ threads[g].sock # ZERO => Serves(g) = threads[g].sock /\ Serves(g) \in Client
BY NamesFacts, DescriptorAssumption DEF Busy, Serves, Peer

\* Main starts it on the connection at the head of the backlog, or, once, on
\* descriptor 0 as it is.
LEMMA MainStepOwn ==
  ASSUME ResolverInv, OwnInv, MaxIdle <= 1, ~g_shutdown, MainStep
  PROVE  OwnInv'
<1>1. CASE Loop /\ UNCHANGED idle
  BY <1>1, SameOwn DEF Loop, caches
<1>2. CASE CountOut /\ UNCHANGED idle
  BY <1>2, SameOwn DEF CountOut, caches
<1>3. CASE Accept /\ UNCHANGED idle
  <2> DEFINE c == Head(backlog)
             sock == IF zero = "closed" THEN ZERO ELSE c
  <2>1. /\ backlog # <<>> /\ backlog' = Tail(backlog) /\ Spawn(sock)
        /\ zero' = IF zero = "closed" THEN c ELSE zero
    BY <1>3 DEF Accept
  <2>2. /\ backlog \in Seq(Client) /\ DOMAIN backlog = 1 .. Len(backlog) /\ Len(backlog) \in Nat
    BY NamesFacts
  <2>3. /\ c = backlog[1] /\ 1 \in DOMAIN backlog /\ DOMAIN backlog' = 1 .. Len(backlog) - 1
        /\ \A i \in 1 .. Len(backlog) - 1 : backlog'[i] = backlog[i + 1]
    BY <2>1, <2>2
  <2> HIDE DEF c
  <2>4. c \in Client /\ c \notin {"stdin", "closed", "udp", ZERO}
    BY <2>2, <2>3, NamesFacts, DescriptorAssumption
  <2>5. /\ \A i \in DOMAIN backlog' : i + 1 \in DOMAIN backlog /\ backlog'[i] = backlog[i + 1]
    BY <2>2, <2>3
  <2>6. /\ \A i, j \in DOMAIN backlog : backlog[i] = backlog[j] => i = j
        /\ client[c].told = <<>> /\ client[c].pc # "away"
    BY <2>3 DEF OwnInv, BacklogInv
  <2>7. \A i \in DOMAIN backlog' : \E j \in DOMAIN backlog : backlog'[i] = backlog[j]
    BY <2>5
  <2>8. \A i, j \in DOMAIN backlog' : backlog'[i] = backlog'[j] => i = j
    BY <2>2, <2>3, <2>5, <2>6
  <2>9. \A i \in DOMAIN backlog' : backlog'[i] # c
    BY <2>2, <2>3, <2>5, <2>6
  <2>10. \A g \in Busy : threads[g].sock = ZERO => zero' = zero
    BY <2>1 DEF OwnInv, ZeroInv
  <2>11. ASSUME NEW g \in Busy PROVE Serves(g) # c
    <3>1. Serves(g) \in Client => \A i \in DOMAIN backlog : backlog[i] # Serves(g)
      BY DEF OwnInv, ServesInv
    <3> QED
      BY <2>3, <2>4, <3>1
  <2>12. c = IF sock = ZERO THEN zero' ELSE sock
    BY <2>1, <2>4
  <2>13. /\ idle' \in Nat /\ idle' <= MaxIdle /\ idle' >= idle
         /\ idle' = 0 => zero' = "stdin"
         /\ sock = ZERO => idle' # 0 /\ zero' \notin {"closed", "udp"}
    <3>1. idle \in Nat /\ idle <= MaxIdle /\ (idle = 0 => zero = "stdin") /\ idle' = idle
      BY <1>3 DEF OwnInv, ZeroInv
    <3>2. sock = ZERO => zero = "closed" /\ zero' = c
      BY <2>1, <2>4
    <3> QED
      BY <2>1, <2>4, <3>1, <3>2
  <2> HIDE DEF sock
  <2> QED
    BY <2>1, <2>4, <2>6, <2>7, <2>8, <2>9, <2>10, <2>11, <2>12, <2>13, SpawnOwn
<1>4. CASE AcceptTimesOut
  <2>1. Spawn(ZERO) /\ UNCHANGED <<zero, backlog>> /\ idle < MaxIdle /\ idle' = idle + 1
    BY <1>4 DEF AcceptTimesOut
  <2>2. idle \in Nat /\ idle = 0 /\ zero = "stdin"
    BY <2>1, ResolverAssumption DEF OwnInv, ZeroInv
  <2>3. "stdin" \notin Client
    BY DescriptorAssumption
  <2>4. \A g \in Busy : Serves(g) # "stdin"
    <3>1. \A g \in Busy : threads[g].sock # ZERO
      BY <2>2 DEF OwnInv, ZeroInv
    <3> QED
      BY <2>3, <3>1, SocketFacts
  <2>5. /\ \A i \in DOMAIN backlog' : \E j \in DOMAIN backlog : backlog'[i] = backlog[j]
        /\ \A i, j \in DOMAIN backlog' : backlog'[i] = backlog'[j] => i = j
    BY <2>1 DEF OwnInv, BacklogInv
  <2>6. /\ idle' \in Nat /\ idle' <= MaxIdle /\ idle' >= idle /\ idle' # 0
    BY <2>1, <2>2, ResolverAssumption
  <2>7. zero' \notin {"closed", "udp"} /\ zero' = zero /\ zero' = "stdin"
    BY <2>1, <2>2
  <2> QED
    BY <2>1, <2>3, <2>4, <2>5, <2>6, <2>7, SpawnOwn
<1> QED
  BY <1>1, <1>2, <1>3, <1>4 DEF MainStep

\* A peer comes or goes.
LEMMA PeerStepOwn ==
  ASSUME ResolverInv, OwnInv, NEW c \in Client, Leave(c) \/ \E r \in Requests[c] : Ask(c, r), UNCHANGED idle
  PROVE  OwnInv'
<1>1. UNCHANGED <<threads, zero, resolved_names_cache>>
  BY DEF Leave, Ask, caches
<1>2. Busy' = Busy /\ \A h : Serves(h)' = Serves(h)
  BY <1>1 DEF Busy, Serves, Peer
<1>3. ZeroInv' /\ NamesInv'
  BY <1>1, <1>2 DEF OwnInv, ZeroInv, NamesInv
<1> DEFINE P == [pc : {"away", "waiting", "gone"}, request : Name \cup Command,
                 unread : BOOLEAN, told : Seq(Message)]
<1>4. client \in [Client -> P] /\ client[c] \in P
  BY DEF ResolverInv, PeersInv
<1>5. /\ backlog \in Seq(Client) /\ DOMAIN backlog = 1 .. Len(backlog) /\ Len(backlog) \in Nat
      /\ \A i \in DOMAIN backlog : backlog[i] \in Client
  BY NamesFacts
<1>6. CASE Leave(c)
  <2>1. PICK u : client' = [client EXCEPT ![c].pc = "gone", ![c].unread = u]
    BY <1>6 DEF Leave
  <2> DEFINE p == [client[c] EXCEPT !.pc = "gone", !.unread = u]
  <2>2. client' = [client EXCEPT ![c] = p]
    BY <2>1
  <2>3. p.told = client[c].told /\ p.request = client[c].request /\ p.pc = "gone"
    BY <1>4
  <2>4. client[c].told = <<>> /\ client[c].pc = "waiting" /\ UNCHANGED backlog
    BY <1>6 DEF Leave
  <2> HIDE DEF p, P
  <2>5. /\ client'[c] = p /\ \A d \in Client \ {c} : client'[d] = client[d]
    BY <1>4, <2>2
  <2>6. \A d \in Client : /\ client'[d].told = client[d].told /\ client'[d].request = client[d].request
                          /\ client'[d].pc = "away" => client[d].pc = "away"
                          /\ client[d].pc = "away" => client'[d].pc = "away"
                          /\ client[d].pc = "gone" => client'[d].pc = "gone"
    BY <2>3, <2>4, <2>5
  <2>7. BacklogInv'
    BY <1>5, <2>4, <2>6 DEF OwnInv, BacklogInv
  <2>8. ServesInv'
    BY <1>1, <1>2, <2>4, <2>6 DEF OwnInv, ServesInv
  <2>9. ASSUME NEW d \in Client PROVE ToldRight(d)'
    <3>1. ToldRight(d)
      BY DEF OwnInv
    <3> QED
      BY <2>6, <3>1 DEF ToldRight
  <2> QED
    BY <1>3, <2>7, <2>8, <2>9 DEF OwnInv
<1>7. CASE \E r \in Requests[c] : Ask(c, r)
  <2>1. PICK r : Ask(c, r)
    BY <1>7
  <2> DEFINE p == [client[c] EXCEPT !.pc = "waiting", !.request = r, !.unread = TRUE]
  <2>2. client' = [client EXCEPT ![c] = p] /\ backlog' = Append(backlog, c) /\ client[c].pc = "away"
    BY <2>1 DEF Ask
  <2>3. p.told = client[c].told /\ p.pc = "waiting"
    BY <1>4
  <2>4. client[c].told = <<>>
    BY <2>2 DEF OwnInv, BacklogInv
  <2> HIDE DEF p, P
  <2>5. /\ client'[c] = p /\ \A d \in Client \ {c} : client'[d] = client[d]
    BY <1>4, <2>2
  <2>6. /\ DOMAIN backlog' = 1 .. Len(backlog) + 1 /\ backlog'[Len(backlog) + 1] = c
        /\ \A i \in DOMAIN backlog : backlog'[i] = backlog[i]
    BY <1>5, <2>2, AppendFacts
  <2>7. \A i \in DOMAIN backlog : backlog[i] \in Client \ {c}
    BY <1>5, <2>2 DEF OwnInv, BacklogInv
  <2>8. ASSUME NEW g \in Busy PROVE Serves(g) # c
    BY <2>2 DEF OwnInv, ServesInv
  <2>9. BacklogInv'
    <3>1. ASSUME NEW i \in DOMAIN backlog', NEW j \in DOMAIN backlog', backlog'[i] = backlog'[j] PROVE i = j
      <4>1. CASE i \in DOMAIN backlog /\ j \in DOMAIN backlog
        BY <2>6, <3>1, <4>1 DEF OwnInv, BacklogInv
      <4>2. i \notin DOMAIN backlog => i = Len(backlog) + 1
        BY <1>5, <2>6
      <4>3. j \notin DOMAIN backlog => j = Len(backlog) + 1
        BY <1>5, <2>6
      <4> QED
        BY <2>6, <2>7, <3>1, <4>1, <4>2, <4>3
    <3>2. ASSUME NEW i \in DOMAIN backlog'
          PROVE  client'[backlog'[i]].told = <<>> /\ client'[backlog'[i]].pc # "away"
      <4>1. CASE i \in DOMAIN backlog
        <5>1. backlog'[i] = backlog[i] /\ client'[backlog[i]] = client[backlog[i]]
          BY <2>5, <2>6, <2>7, <4>1
        <5> QED
          BY <4>1, <5>1 DEF OwnInv, BacklogInv
      <4>2. CASE i \notin DOMAIN backlog
        <5>1. i = Len(backlog) + 1
          BY <1>5, <2>6, <4>2
        <5> QED
          BY <2>3, <2>4, <2>5, <2>6, <5>1
      <4> QED
        BY <4>1, <4>2
    <3>3. \A d \in Client : client'[d].pc = "away" => client'[d].told = <<>>
      BY <2>3, <2>5 DEF OwnInv, BacklogInv
    <3> QED
      BY <3>1, <3>2, <3>3 DEF BacklogInv
  <2>10. ServesInv'
    <3>1. \A g, k \in Busy' : Serves(g)' = Serves(k)' => g = k
      BY <1>2 DEF OwnInv, ServesInv
    <3>2. ASSUME NEW g \in Busy', Serves(g)' \in Client, NEW d, d = Serves(g)'
          PROVE  /\ client'[d].told = <<>> /\ client'[d].pc # "away"
                 /\ \A i \in DOMAIN backlog' : backlog'[i] # d
                 /\ threads'[g].pc \in Command => client'[d].request = threads'[g].pc
                 /\ threads'[g].pc \in Looking =>
                      \/ threads'[g].name = client'[d].request
                      \/ threads'[g].name = EmptyName /\ client'[d].pc = "gone"
      <4>1. g \in Busy /\ d = Serves(g) /\ d \in Client \ {c} /\ threads'[g] = threads[g]
        BY <1>1, <1>2, <2>8, <3>2
      <4>2. /\ client[d].told = <<>> /\ client[d].pc # "away"
            /\ \A i \in DOMAIN backlog : backlog[i] # d
            /\ threads[g].pc \in Command => client[d].request = threads[g].pc
            /\ threads[g].pc \in Looking =>
                 \/ threads[g].name = client[d].request
                 \/ threads[g].name = EmptyName /\ client[d].pc = "gone"
        BY <4>1 DEF OwnInv, ServesInv
      <4>3. \A i \in DOMAIN backlog' : backlog'[i] # d
        BY <1>5, <2>6, <4>1, <4>2
      <4>4. client'[d] = client[d]
        BY <2>5, <4>1
      <4> QED
        BY <4>1, <4>2, <4>3, <4>4
    <3> QED
      BY <3>1, <3>2 DEF ServesInv
  <2>11. ASSUME NEW d \in Client PROVE ToldRight(d)'
    <3>1. CASE d # c
      <4>1. client'[d] = client[d] /\ ToldRight(d)
        BY <2>5, <3>1 DEF OwnInv
      <4> QED
        BY <4>1 DEF ToldRight
    <3>2. CASE d = c
      <4>1. client'[d].told = <<>> /\ Len(<<>>) <= 1 /\ DOMAIN <<>> = {}
        BY <2>3, <2>4, <2>5, <3>2
      <4> QED
        BY <4>1 DEF ToldRight
    <3> QED
      BY <3>1, <3>2
  <2> QED
    BY <1>3, <2>9, <2>10, <2>11 DEF OwnInv
<1> QED
  BY <1>6, <1>7

LEMMA InitOwn == Init => OwnInv
<1> SUFFICES ASSUME Init PROVE OwnInv
  OBVIOUS
<1>1. threads = <<>> /\ DOMAIN threads = {} /\ backlog = <<>> /\ DOMAIN backlog = {} /\ Busy = {}
  BY DEF Init, Busy
<1>2. ZeroInv
  BY <1>1, ResolverAssumption DEF Init, ZeroInv
<1>3. ServesInv
  BY <1>1 DEF ServesInv
<1>4. BacklogInv
  BY <1>1 DEF BacklogInv, Init
<1>5. NamesInv
  BY <1>1 DEF NamesInv, Init
<1>6. ASSUME NEW c \in Client PROVE ToldRight(c)
  <2>1. client[c].told = <<>> /\ Len(<<>>) <= 1 /\ DOMAIN <<>> = {}
    BY DEF Init
  <2> QED
    BY <2>1 DEF ToldRight
<1> QED
  BY <1>2, <1>3, <1>4, <1>5, <1>6 DEF OwnInv

-------------------------------------------------------------------------------
(***************************************************************************)
(* Whose address it is.  Until a reply is read out of step, an address is  *)
(* on its way from a reply to a client together with the name that some    *)
(* server gave it for.                                                     *)
(***************************************************************************)
ToldGiven(c) ==
  \A i \in DOMAIN client[c].told :
    LET m == client[c].told[i] IN m.type = "found" => <<m.name, m.address>> \in Given

GivenInv == ~misread =>
  /\ \A n \in Name : resolved_names_cache[n] # NoAddress => <<n, resolved_names_cache[n]>> \in Given
  /\ \A h \in DOMAIN threads :
       \A i \in DOMAIN threads[h].reply.answers : threads[h].reply.answers[i] \in Given
  /\ \A c \in Client : ToldGiven(c)

\* The cache, the threads and the clients keep what they have, or get what has
\* been said.
LEMMA GivenStep ==
  ASSUME GivenInv, misread => misread', seen \subseteq seen',
         \A n \in Name : ~misread' => resolved_names_cache'[n] = resolved_names_cache[n]
                                        \/ <<n, resolved_names_cache'[n]>> \in Given',
         \A g \in DOMAIN threads' : ~misread' =>
           \/ g \in DOMAIN threads /\ threads'[g].reply.answers = threads[g].reply.answers
           \/ \A i \in DOMAIN threads'[g].reply.answers : threads'[g].reply.answers[i] \in Given',
         \A c \in Client : ~misread' => client'[c].told = client[c].told \/ ToldGiven(c)'
  PROVE  GivenInv'
<1> SUFFICES ASSUME ~misread' PROVE GivenInv'
  BY DEF GivenInv
<1>1. ~misread
  OBVIOUS
<1>2. Given \subseteq Given'
  BY DEF Given
<1>3. \A n \in Name : resolved_names_cache'[n] # NoAddress => <<n, resolved_names_cache'[n]>> \in Given'
  BY <1>1, <1>2 DEF GivenInv
<1>4. ASSUME NEW g \in DOMAIN threads', NEW i \in DOMAIN threads'[g].reply.answers
      PROVE  threads'[g].reply.answers[i] \in Given'
  BY <1>1, <1>2, <1>4 DEF GivenInv
<1>5. ASSUME NEW c \in Client PROVE ToldGiven(c)'
  <2>1. ToldGiven(c)
    BY <1>1 DEF GivenInv
  <2>2. client'[c].told = client[c].told => ToldGiven(c)'
    BY <1>2, <2>1 DEF ToldGiven
  <2> QED
    BY <2>2
<1> QED
  BY <1>3, <1>4, <1>5 DEF GivenInv

\* When nothing of it changes, nothing has to be shown.
LEMMA SameGiven ==
  ASSUME GivenInv, UNCHANGED <<resolved_names_cache, seen, misread, threads>>,
         \A c \in Client : client'[c].told = client[c].told
  PROVE  GivenInv'
BY GivenStep

\* The thread that acts has these answers to go through, the others have theirs.
LEMMA AnswersOfThreads ==
  ASSUME ResolverInv, NEW h \in DOMAIN threads, NEW t, NEW walking,
         Race(h, t, walking) \/ threads' = [threads EXCEPT ![h] = t]
  PROVE  /\ DOMAIN threads' = DOMAIN threads
         /\ \A g \in DOMAIN threads :
              threads'[g].reply.answers = IF g = h THEN t.reply.answers ELSE threads[g].reply.answers
<1>1. \A g \in DOMAIN threads : threads[g] \in ThreadState
  BY NamesFacts
<1>2. CASE threads' = [threads EXCEPT ![h] = t]
  BY <1>2, NamesFacts
<1>3. CASE Race(h, t, walking)
  <2>1. /\ DOMAIN threads' = DOMAIN threads
        /\ \A g \in DOMAIN threads : threads'[g] =
             IF g = h THEN t ELSE [threads[g] EXCEPT !.raced = @ \/ threads[g].pc \in walking]
    BY <1>3 DEF Race
  <2>2. ASSUME NEW g \in DOMAIN threads
        PROVE  [threads[g] EXCEPT !.raced = @ \/ threads[g].pc \in walking].reply = threads[g].reply
    BY <1>1 DEF ThreadState
  <2> QED
    BY <2>1, <2>2
<1> QED
  BY <1>2, <1>3


\* A query reads what is said to it, or was to another, unless it misreads.
LEMMA QueryGiven ==
  ASSUME ResolverInv, NEW h, Query(h) \/ QueryTimesOut(h) \/ QueryMisreads(h), ~misread'
  PROVE  \E r \in Reply : Reads(h, r) /\ \A i \in DOMAIN r.answers : r.answers[i] \in Given'
<1>1. ~QueryMisreads(h)
  BY DEF QueryMisreads
<1>2. PICK r : r \in Reply /\ Reads(h, r) /\ (r = Nothing \/ \E q \in seen' : q[2] = r)
  <2>1. CASE Query(h)
    <3>1. PICK r \in Says[<<threads[h].ns, threads[h].name>>] :
            Reads(h, r) /\ seen' = seen \cup {<<Octets[threads[h].name], r>>}
      BY <2>1 DEF Query
    <3>2. At(h, "query")
      BY <2>1 DEF Query, Asks
    <3>3. <<threads[h].ns, threads[h].name>> \in (Ns \cup {root_server}) \X Name
      BY <3>2, Acting DEF ThreadState
    <3>4. r \in Reply
      BY <3>1, <3>3, ResolverAssumption
    <3> QED
      BY <3>1, <3>4
  <2>2. CASE QueryTimesOut(h)
    <3>1. PICK r \in InStep(threads[h].name) : Reads(h, r)
      BY <2>2 DEF QueryTimesOut
    <3>2. Nothing \in Reply /\ seen' = seen /\ seen \subseteq Nat \X Reply
      BY <2>2 DEF Nothing, Reply, QueryTimesOut, stack, ResolverInv, CachesInv
    <3>3. r = Nothing \/ \E q \in seen : q[2] = r
      BY <3>1 DEF InStep
    <3>4. r \in Reply
      BY <3>2, <3>3
    <3> QED
      BY <3>1, <3>2, <3>3, <3>4
  <2> QED
    BY <1>1, <2>1, <2>2
<1>3. ASSUME NEW i \in DOMAIN r.answers PROVE r.answers[i] \in Given'
  <2>1. r # Nothing
    BY <1>3 DEF Nothing
  <2>2. PICK q \in seen' : q[2] = r
    BY <1>2, <2>1
  <2> QED
    BY <1>3, <2>2 DEF Given
<1> QED
  BY <1>2, <1>3

LEMMA LookupGiven ==
  ASSUME ResolverInv, GivenInv, NEW h,
         \/ StartFinds(h) \/ StartFindsNothing(h) \/ FindCached(h) \/ CheckAnswered(h)
         \/ WalkFinds(h) \/ WalkFindsNothing(h)
         \/ Query(h) \/ QueryTimesOut(h) \/ QueryMisreads(h)
  PROVE  GivenInv'
<1>1. CASE Query(h) \/ QueryTimesOut(h) \/ QueryMisreads(h)
  <2>1. SUFFICES ASSUME ~misread' PROVE GivenInv'
    BY DEF GivenInv
  <2>2. PICK r \in Reply : Reads(h, r) /\ \A i \in DOMAIN r.answers : r.answers[i] \in Given'
    BY <1>1, <2>1, QueryGiven
  <2>3. /\ h \in DOMAIN threads /\ At(h, "query") /\ seen \subseteq seen'
    BY <1>1, QueryReads DEF At
  <2>4. LooksThrough(h, r.answers) /\ UNCHANGED <<client, resolved_names_cache>>
    BY <2>2, <2>3, QueryLooks
  <2>5. PICK t : t.reply.answers = r.answers /\ threads' = [threads EXCEPT ![h] = t]
    BY <2>4 DEF LooksThrough
  <2>6. /\ DOMAIN threads' = DOMAIN threads
        /\ \A g \in DOMAIN threads :
              threads'[g].reply.answers = IF g = h THEN r.answers ELSE threads[g].reply.answers
    BY <2>3, <2>5, AnswersOfThreads
  <2>7. misread => misread'
    BY <1>1 DEF Query, QueryTimesOut, QueryMisreads, stack
  <2> QED
    BY <2>2, <2>3, <2>4, <2>6, <2>7, GivenStep
<1>2. CASE \/ StartFinds(h) \/ StartFindsNothing(h) \/ FindCached(h) \/ CheckAnswered(h)
           \/ WalkFinds(h) \/ WalkFindsNothing(h)
  <2>1. /\ \E pc \in Looking : At(h, pc)
        /\ Looks(h) /\ UNCHANGED <<client, resolved_names_cache, seen, misread>>
    BY <1>2, LookupLooks
  <2>2. h \in DOMAIN threads
    BY <2>1 DEF At
  <2>3. PICK t : t.reply.answers = threads[h].reply.answers /\ threads' = [threads EXCEPT ![h] = t]
    BY <2>1 DEF Looks, LooksThrough
  <2>4. /\ DOMAIN threads' = DOMAIN threads
        /\ \A g \in DOMAIN threads : threads'[g].reply.answers = threads[g].reply.answers
    BY <2>2, <2>3, AnswersOfThreads
  <2> QED
    BY <2>1, <2>4, GivenStep
<1> QED
  BY <1>1, <1>2

\* An answer goes into the cache as it has been given.
LEMMA DecodeAnswerGiven ==
  ASSUME ResolverInv, GivenInv, NEW h, DecodeAnswer(h)
  PROVE  GivenInv'
<1> SUFFICES ASSUME ~misread' PROVE GivenInv'
  BY DEF GivenInv
<1> DEFINE answers == threads[h].reply.answers
           n == Head(answers)[1]
           a == Head(answers)[2]
           t == [threads[h] EXCEPT !.reply.answers = Tail(@)]
           walking == IF resolved_names_cache[n] = NoAddress THEN {"dump"} ELSE {}
<1>1. /\ At(h, "answers") /\ answers # <<>> /\ Race(h, t, walking)
      /\ resolved_names_cache' = [resolved_names_cache EXCEPT ![n] = a]
      /\ UNCHANGED <<client, seen, misread>>
  BY DEF DecodeAnswer, stack
<1>2. threads[h] \in ThreadState /\ h \in DOMAIN threads
  BY <1>1, Acting
<1>3. answers \in Seq(Name \X InAddr) /\ threads[h].reply \in Reply
  BY <1>2 DEF ThreadState, Reply
<1>4. \A i \in DOMAIN answers : answers[i] \in Given
  BY <1>1, <1>2 DEF GivenInv
<1>5. t.reply.answers = Tail(answers)
  BY <1>2, <1>3 DEF ThreadState, Reply
<1> HIDE DEF answers, t
<1>6. /\ Head(answers) = answers[1] /\ 1 \in DOMAIN answers /\ Len(answers) \in Nat
      /\ Tail(answers) \in Seq(Name \X InAddr) /\ Len(Tail(answers)) = Len(answers) - 1
      /\ \A i \in 1 .. Len(Tail(answers)) : Tail(answers)[i] = answers[i + 1]
      /\ DOMAIN answers = 1 .. Len(answers)
  BY <1>1, <1>3, HeadTailProperties, LenProperties
<1>10. DOMAIN Tail(answers) = 1 .. Len(answers) - 1
  BY <1>6, LenProperties
<1>11. \A i \in DOMAIN Tail(answers) : i + 1 \in DOMAIN answers /\ Tail(answers)[i] = answers[i + 1]
  BY <1>6, <1>10
<1>12. \A i \in DOMAIN Tail(answers) : Tail(answers)[i] \in Given
  BY <1>4, <1>11
<1>13. Head(answers) = <<n, a>> /\ n \in Name
  <2>1. answers[1] \in Name \X InAddr
    BY <1>3, <1>6, ElementOfSeq
  <2> QED
    BY <1>6, <2>1
<1>14. <<n, a>> \in Given
  BY <1>4, <1>6, <1>13
<1> HIDE DEF n, a, walking
<1>7. /\ DOMAIN threads' = DOMAIN threads
      /\ \A g \in DOMAIN threads :
           threads'[g].reply.answers = IF g = h THEN Tail(answers) ELSE threads[g].reply.answers
  BY <1>1, <1>2, <1>5, AnswersOfThreads
<1>8. Given' = Given
  BY <1>1 DEF Given
<1>9. \A k \in Name : resolved_names_cache'[k] = resolved_names_cache[k]
                        \/ <<k, resolved_names_cache'[k]>> \in Given'
  <2>1. resolved_names_cache \in [Name -> InAddr \cup {NoAddress}]
    BY DEF ResolverInv, CachesInv
  <2> QED
    BY <1>1, <1>8, <1>13, <1>14, <2>1
<1> QED
  BY <1>1, <1>7, <1>8, <1>9, <1>12, GivenStep

LEMMA DecodeReferralGiven ==
  ASSUME ResolverInv, GivenInv, NEW h, DecodeReferral(h)
  PROVE  GivenInv'
<1> DEFINE rest == Tail(threads[h].reply.referral)
           t == [threads[h] EXCEPT !.reply.referral = rest]
           walking == {"start", "walk", "dump"}
<1>1. /\ At(h, "records") /\ UNCHANGED <<client, resolved_names_cache, seen, misread>>
      /\ \E u \in IF rest # <<>> THEN {t} ELSE GetNS(t, "walk", t.name) : Race(h, u, walking)
  BY DEF DecodeReferral, stack
<1>2. threads[h] \in ThreadState /\ h \in DOMAIN threads
  BY <1>1, Acting
<1>3. t.reply.answers = threads[h].reply.answers
  BY <1>2 DEF ThreadState, Reply
<1> HIDE DEF rest, t
<1>4. PICK u \in IF rest # <<>> THEN {t} ELSE GetNS(t, "walk", t.name) : Race(h, u, walking)
  BY <1>1
<1>5. u.reply.answers = threads[h].reply.answers
  <2>1. CASE u = t
    BY <1>3, <2>1
  <2>2. CASE u \in GetNS(t, "walk", t.name)
    <3>1. PICK l \in Label(t.name) : u = [t EXCEPT !.pc = "walk", !.label = l, !.raced = FALSE]
      BY <2>2 DEF GetNS
    <3>2. u.reply = t.reply
      BY <3>1, <1>2 DEF t, ThreadState
    <3> QED
      BY <1>3, <3>2
  <2> QED
    BY <1>4, <2>1, <2>2
<1> HIDE DEF walking
<1>6. /\ DOMAIN threads' = DOMAIN threads
      /\ \A g \in DOMAIN threads : threads'[g].reply.answers = threads[g].reply.answers
  BY <1>2, <1>4, <1>5, AnswersOfThreads
<1> QED
  BY <1>1, <1>6, GivenStep

\* A message received changes what a thread does, and no reply.
LEMMA ReceiveGiven ==
  ASSUME ResolverInv, GivenInv, NEW h, Receive(h)
  PROVE  GivenInv'
<1>1. /\ h \in DOMAIN threads /\ threads[h] \in ThreadState
      /\ UNCHANGED <<resolved_names_cache, seen, misread>>
  BY Acting DEF Receive, caches, stack
<1>2. ASSUME NEW n, Begin(h, n)
      PROVE  \E t : threads' = [threads EXCEPT ![h] = t] /\ t.reply = threads[h].reply
  <2> DEFINE s == [threads[h] EXCEPT !.name = n]
  <2>1. PICK u \in GetNS(s, "start", n) : threads' = [threads EXCEPT ![h] = u]
    BY <1>2 DEF Begin, Becomes
  <2>2. PICK l \in Label(n) : u = [s EXCEPT !.pc = "start", !.label = l, !.raced = FALSE]
    BY <2>1 DEF GetNS
  <2>3. u.reply = threads[h].reply
    BY <1>1, <2>2 DEF ThreadState
  <2> QED
    BY <2>1, <2>3
<1>3. ASSUME NEW pc, Go(h, pc)
      PROVE  \E t : threads' = [threads EXCEPT ![h] = t] /\ t.reply = threads[h].reply
  <2> DEFINE t == [threads[h] EXCEPT !.pc = pc]
  <2>1. threads' = [threads EXCEPT ![h] = t]
    BY <1>3 DEF Go
  <2>2. t.reply = threads[h].reply
    BY <1>1 DEF ThreadState
  <2> QED
    BY <2>1, <2>2
<1> DEFINE c == Peer(threads[h].sock)
<1>4. /\ (\E n : Begin(h, n)) \/ (\E pc : Go(h, pc))
      /\ client' = client \/ client' = [client EXCEPT ![c].unread = FALSE]
  BY DEF Receive
<1>5. PICK t : threads' = [threads EXCEPT ![h] = t] /\ t.reply = threads[h].reply
  BY <1>2, <1>3, <1>4
<1>6. /\ DOMAIN threads' = DOMAIN threads
      /\ \A g \in DOMAIN threads : threads'[g].reply.answers = threads[g].reply.answers
  BY <1>1, <1>5, AnswersOfThreads
<1>7. \A d \in Client : client'[d].told = client[d].told
  <2>1. client \in [Client -> [pc : {"away", "waiting", "gone"}, request : Name \cup Command,
                               unread : BOOLEAN, told : Seq(Message)]]
    BY DEF ResolverInv, PeersInv
  <2> DEFINE p == [client[c] EXCEPT !.unread = FALSE]
  <2>3. client' = client \/ client' = [client EXCEPT ![c] = p]
    BY <1>4
  <2>4. c \in Client => p.told = client[c].told
    BY <2>1
  <2> HIDE DEF c, p
  <2>6. \A d \in Client : client'[d] = client[d] \/ (d = c /\ client'[d] = p)
    BY <2>1, <2>3
  <2> QED
    BY <2>4, <2>6
<1> HIDE DEF c
<1> QED
  BY <1>1, <1>6, <1>7, GivenStep

\* What a client is told of a name comes from the cache.
LEMMA FinishGiven ==
  ASSUME ResolverInv, GivenInv, NEW h, NEW pc, At(h, pc), NEW m \in Message, Finish(h, m),
         ~misread /\ m.type = "found" => <<m.name, m.address>> \in Given,
         UNCHANGED <<resolved_names_cache, seen, misread>>
  PROVE  GivenInv'
<1>1. h \in DOMAIN threads /\ threads[h] \in ThreadState
  BY Acting
<1> DEFINE t == [Thread(threads[h].sock) EXCEPT !.pc = "ended"]
           c == Peer(threads[h].sock)
<1>2. /\ threads' = [threads EXCEPT ![h] = t] /\ t.reply.answers = <<>>
      /\ client' = IF c \in Client THEN [client EXCEPT ![c].told = Append(@, m)] ELSE client
  BY DEF Finish, Told, Thread, Nothing
<1> HIDE DEF t, c
<1>3. /\ DOMAIN threads' = DOMAIN threads
      /\ \A g \in DOMAIN threads :
           threads'[g].reply.answers = IF g = h THEN <<>> ELSE threads[g].reply.answers
  BY <1>1, <1>2, AnswersOfThreads
<1>4. Given' = Given
  BY DEF Given
<1>5. ASSUME NEW d \in Client, ~misread'
      PROVE  client'[d].told = client[d].told \/ ToldGiven(d)'
  <2>1. /\ client[d].told \in Seq(Message) /\ ToldGiven(d)
        /\ client \in [Client -> [pc : {"away", "waiting", "gone"}, request : Name \cup Command,
                                  unread : BOOLEAN, told : Seq(Message)]]
    BY <1>5 DEF ResolverInv, PeersInv, GivenInv
  <2>2. CASE d # c \/ c \notin Client
    BY <1>2, <2>1, <2>2
  <2>3. CASE d = c /\ c \in Client
    <3> DEFINE told == Append(client[d].told, m)
               p == [client[d] EXCEPT !.told = told]
    <3>1. client' = [client EXCEPT ![d] = p]
      BY <1>2, <2>3
    <3>2. p.told = told
      BY <2>1
    <3>3. /\ DOMAIN told = 1 .. Len(client[d].told) + 1 /\ told[Len(client[d].told) + 1] = m
          /\ \A i \in 1 .. Len(client[d].told) : told[i] = client[d].told[i]
      BY <2>1, AppendFacts
    <3>4. DOMAIN client[d].told = 1 .. Len(client[d].told) /\ Len(client[d].told) \in Nat
      BY <2>1, LenProperties
    <3> HIDE DEF told, p
    <3>5. client'[d].told = told
      BY <2>1, <3>1, <3>2
    <3>6. \A i \in DOMAIN told : i \in DOMAIN client[d].told \/ told[i] = m
      BY <3>3, <3>4
    <3>7. ASSUME NEW i \in DOMAIN told, told[i].type = "found"
          PROVE  <<told[i].name, told[i].address>> \in Given
      <4>1. CASE told[i] = m
        BY <1>5, <3>7, <4>1
      <4>2. CASE i \in DOMAIN client[d].told
        <5>1. told[i] = client[d].told[i]
          BY <3>3, <3>4, <4>2
        <5> QED
          BY <2>1, <3>7, <4>2, <5>1 DEF ToldGiven
      <4> QED
        BY <3>6, <4>1, <4>2
    <3> QED
      BY <1>4, <3>5, <3>7 DEF ToldGiven
  <2> QED
    BY <2>2, <2>3
<1> QED
  BY <1>3, <1>5, GivenStep

LEMMA TellingGiven ==
  ASSUME ResolverInv, OwnInv, GivenInv, NEW h,
         SetOutput(h) \/ SetShutdown(h) \/ Dump(h) \/ Respond(h)
  PROVE  GivenInv'
<1>1. ASSUME NEW cmd \in Command, At(h, cmd), Finish(h, Done(cmd)), UNCHANGED <<caches, stack>>
      PROVE  GivenInv'
  <2>1. Done(cmd) \in Message /\ Done(cmd).type # "found"
    BY <1>1 DEF Done, Message, Command
  <2> QED
    BY <1>1, <2>1, FinishGiven DEF caches, stack
<1>2. "output" \in Command /\ "shutdown" \in Command /\ "dump" \in Command
  BY DEF Command
<1>3. CASE SetOutput(h)
  BY <1>1, <1>2, <1>3 DEF SetOutput
<1>4. CASE SetShutdown(h)
  BY <1>1, <1>2, <1>4 DEF SetShutdown
<1>5. CASE Dump(h)
  <2>1. CASE Finish(h, Done("dump"))
    BY <1>1, <1>2, <1>5, <2>1 DEF Dump
  <2>2. CASE UNCHANGED <<avail_threads, client, threads>>
    BY <1>5, <2>2, SameGiven DEF Dump, caches, stack
  <2> QED
    BY <1>5, <2>1, <2>2 DEF Dump
<1>6. CASE Respond(h)
  <2> DEFINE n == threads[h].name
  <2>1. PICK pc \in {"found", "not found"} :
          At(h, pc) /\ Finish(h, IF pc = "found" THEN Found(n) ELSE NotFound(n))
    BY <1>6 DEF Respond
  <2>2. n \in Name /\ h \in DOMAIN threads /\ threads[h].pc = pc
    BY <2>1, Acting DEF ThreadState
  <2>3. resolved_names_cache[n] \in InAddr \cup {NoAddress}
    BY <2>2 DEF ResolverInv, CachesInv
  <2>4. UNCHANGED <<resolved_names_cache, seen, misread>>
    BY <1>6 DEF Respond, caches, stack
  <2> HIDE DEF n
  <2>5. CASE pc = "found"
    <3>1. resolved_names_cache[n] # NoAddress
      BY <2>2, <2>5 DEF OwnInv, NamesInv, n
    <3>2. ~misread => <<n, resolved_names_cache[n]>> \in Given
      BY <2>2, <3>1 DEF GivenInv
    <3>3. /\ Found(n) \in Message /\ Found(n).name = n
          /\ Found(n).address = resolved_names_cache[n]
      BY <2>2, <2>3 DEF Found, Message
    <3> QED
      BY <2>1, <2>4, <2>5, <3>2, <3>3, FinishGiven
  <2>6. CASE pc = "not found"
    <3>1. NotFound(n) \in Message /\ NotFound(n).type # "found" /\ pc # "found"
      BY <2>2, <2>6 DEF NotFound, Message
    <3> QED
      BY <2>1, <2>4, <3>1, FinishGiven
  <2> QED
    BY <2>1, <2>5, <2>6
<1> QED
  BY <1>3, <1>4, <1>5, <1>6

\* A new thread has read nothing.
LEMMA MainStepGiven ==
  ASSUME ResolverInv, GivenInv, MainStep
  PROVE  GivenInv'
<1>1. CASE Loop \/ CountOut
  BY <1>1, SameGiven DEF Loop, CountOut, caches, stack
<1>2. CASE Accept \/ AcceptTimesOut
  <2>1. PICK sock : Spawn(sock)
    BY <1>2 DEF Accept, AcceptTimesOut
  <2>2. /\ threads' = Append(threads, Thread(sock)) /\ Thread(sock).reply.answers = <<>>
        /\ UNCHANGED <<resolved_names_cache, client, seen, misread>>
    BY <2>1 DEF Spawn, caches, stack, Thread, Nothing
  <2>3. /\ DOMAIN threads' = 1 .. Len(threads) + 1 /\ DOMAIN threads = 1 .. Len(threads)
        /\ Len(threads) \in Nat
        /\ \A g \in 1 .. Len(threads) : threads'[g] = threads[g]
        /\ threads'[Len(threads) + 1] = Thread(sock)
    BY <2>2, NamesFacts, AppendFacts
  <2>4. ASSUME NEW g \in DOMAIN threads'
        PROVE  \/ g \in DOMAIN threads /\ threads'[g].reply.answers = threads[g].reply.answers
               \/ \A i \in DOMAIN threads'[g].reply.answers : threads'[g].reply.answers[i] \in Given'
    BY <2>2, <2>3
  <2> QED
    BY <2>2, <2>4, GivenStep
<1> QED
  BY <1>1, <1>2 DEF MainStep

LEMMA PeerStepGiven ==
  ASSUME ResolverInv, GivenInv, NEW c \in Client, Leave(c) \/ \E r \in Requests[c] : Ask(c, r)
  PROVE  GivenInv'
<1>1. UNCHANGED <<threads, resolved_names_cache, seen, misread>>
  BY DEF Leave, Ask, caches, stack
<1> DEFINE P == [pc : {"away", "waiting", "gone"}, request : Name \cup Command,
                 unread : BOOLEAN, told : Seq(Message)]
<1>2. client \in [Client -> P]
  BY DEF ResolverInv, PeersInv
<1>3. PICK p : client' = [client EXCEPT ![c] = p] /\ p.told = client[c].told
  <2>1. CASE Leave(c)
    <3>1. PICK u : client' = [client EXCEPT ![c].pc = "gone", ![c].unread = u]
      BY <2>1 DEF Leave
    <3> DEFINE q == [client[c] EXCEPT !.pc = "gone", !.unread = u]
    <3>2. client' = [client EXCEPT ![c] = q]
      BY <3>1
    <3>3. q.told = client[c].told
      BY <1>2
    <3> QED
      BY <3>2, <3>3
  <2>2. CASE \E r \in Requests[c] : Ask(c, r)
    <3>1. PICK r \in Requests[c] : Ask(c, r)
      BY <2>2
    <3> DEFINE q == [client[c] EXCEPT !.pc = "waiting", !.request = r, !.unread = TRUE]
    <3>2. client' = [client EXCEPT ![c] = q]
      BY <3>1 DEF Ask
    <3>3. q.told = client[c].told
      BY <1>2
    <3> QED
      BY <3>2, <3>3
  <2> QED
    BY <2>1, <2>2
<1> HIDE DEF P
<1>4. \A d \in Client : client'[d].told = client[d].told
  BY <1>2, <1>3
<1> QED
  BY <1>1, <1>4, SameGiven

LEMMA InitGiven == Init => GivenInv
<1> SUFFICES ASSUME Init PROVE GivenInv
  OBVIOUS
<1>1. DOMAIN threads = {} /\ \A n \in Name : resolved_names_cache[n] = NoAddress
  BY DEF Init
<1>2. ASSUME NEW c \in Client PROVE ToldGiven(c)
  <2>1. client[c].told = <<>> /\ DOMAIN <<>> = {}
    BY DEF Init
  <2> QED
    BY <2>1 DEF ToldGiven
<1> QED
  BY <1>1, <1>2 DEF GivenInv

\* Until a shutdown a client is told one thing, and about what it asked: of a name,
\* and until a reply is read out of step, an address that a server gave for this
\* very name, whatever other threads and stale replies read in step put into the
\* caches - as long as at most one accept times out.  After a second one two threads
\* may share the client that descriptor 0 is on.
THEOREM AnswersAreOwn == ASSUME MaxIdle <= 1 PROVE Spec => []AnswerIsOwn
<1> DEFINE I == ~g_shutdown => OwnInv /\ GivenInv
<1>1. Init => I
  BY InitOwn, InitGiven
<1>2. ResolverInv /\ I /\ [Next]_vars => I'
  <2> SUFFICES ASSUME ResolverInv, I, [Next]_vars, ~g_shutdown' PROVE OwnInv' /\ GivenInv'
    OBVIOUS
  <2>1. CASE MainStep
    <3>1. ~g_shutdown
      BY <2>1 DEF MainStep, Loop, Accept, AcceptTimesOut, CountOut, Spawn
    <3> QED
      BY <2>1, <3>1, MainStepOwn, MainStepGiven
  <2>2. CASE \E h \in DOMAIN threads : ThreadStep(h)
    <3>1. PICK h \in DOMAIN threads : ThreadStep(h)
      BY <2>2
    <3>2. ~g_shutdown
      BY <3>1 DEF ThreadStep, Receive, SetOutput, SetShutdown, Dump, Respond, StartFinds,
         StartFindsNothing, FindCached, Query, QueryTimesOut, QueryMisreads, QueryGoesAstray, Reads,
         DecodeAnswer, CheckAnswered, DecodeReferral, WalkFinds, WalkFindsNothing, WalkGoesAstray
    <3>3. OwnInv /\ GivenInv /\ UNCHANGED idle
      BY <3>1, <3>2 DEF ThreadStep
    <3>4. CASE WalkGoesAstray(h) \/ QueryGoesAstray(h)
      BY <3>3, <3>4, SameOwn, SameGiven DEF WalkGoesAstray, QueryGoesAstray, caches, stack
    <3>5. CASE Receive(h)
      BY <3>3, <3>5, ReceiveOwn, ReceiveGiven
    <3>6. CASE SetOutput(h) \/ SetShutdown(h) \/ Dump(h)
      BY <3>3, <3>6, CommandsOwn, TellingGiven
    <3>7. CASE Respond(h)
      BY <3>3, <3>7, RespondOwn, TellingGiven
    <3>8. CASE DecodeAnswer(h) \/ DecodeReferral(h)
      BY <3>3, <3>8, DecodeOwn, DecodeAnswerGiven, DecodeReferralGiven
    <3>9. CASE \/ StartFinds(h) \/ StartFindsNothing(h) \/ FindCached(h) \/ CheckAnswered(h)
               \/ WalkFinds(h) \/ WalkFindsNothing(h)
               \/ Query(h) \/ QueryTimesOut(h) \/ QueryMisreads(h)
      BY <3>3, <3>9, LookupOwn, LookupGiven
    <3> QED
      BY <3>1, <3>4, <3>5, <3>6, <3>7, <3>8, <3>9 DEF ThreadStep
  <2>3. CASE (\E c \in Client : Leave(c) \/ \E r \in Requests[c] : Ask(c, r)) /\ UNCHANGED idle
    <3>1. ~g_shutdown
      BY <2>3 DEF Leave, Ask
    <3> QED
      BY <2>3, <3>1, PeerStepOwn, PeerStepGiven
  <2>4. CASE UNCHANGED vars
    BY <2>4, SameOwn, SameGiven DEF vars, caches, stack
  <2> QED
    BY <2>1, <2>2, <2>3, <2>4 DEF Next
<1>3. I => AnswerIsOwn
  <2> SUFFICES ASSUME OwnInv, GivenInv, ~g_shutdown, NEW c \in Client
               PROVE  /\ Len(client[c].told) <= 1
                      /\ \A i \in DOMAIN client[c].told :
                           LET m == client[c].told[i] IN
                             \/ m.type = client[c].request
                             \/ /\ m.type \in {"found", "not found"}
                                /\ \/ m.name = client[c].request
                                   \/ client[c].pc = "gone" /\ m.name = EmptyName
                                /\ m.type = "found" /\ ~misread => <<m.name, m.address>> \in Given
    BY DEF AnswerIsOwn
  <2>1. ToldRight(c)
    BY DEF OwnInv
  <2>2. ~misread => ToldGiven(c)
    BY DEF GivenInv
  <2> QED
    BY <2>1, <2>2 DEF ToldRight, ToldGiven
<1> QED
  BY <1>1, <1>2, <1>3, ResolverInvHolds, PTL DEF Spec
===============================================================================
