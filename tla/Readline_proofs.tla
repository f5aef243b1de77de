---------------------------- MODULE Readline_proofs ----------------------------
(***************************************************************************)
(* No byte is lost and every line has its shape, for every block size,     *)
(* number of threads, contents of the files and size of a line.            *)
(***************************************************************************)
EXTENDS Readline, SequenceTheorems, TLAPS

Types ==
  /\ offset \in [Fds -> Nat] /\ \A f \in Fds : offset[f] <= Len(Content[f])
  /\ block \in [Threads -> Seq(Byte)] /\ block_index \in [Threads -> Nat]
  /\ new_block_needed \in [Threads -> BOOLEAN] /\ eof \in [Threads -> BOOLEAN]
  /\ fd \in [Threads -> Fds \cup {NoFd}] /\ size \in [Threads -> Nat]
  /\ buff \in [Threads -> Seq(Byte)] /\ got \in [Fds -> Seq(Byte)]
  /\ last \in [Threads -> Nat \X Seq(Byte)] /\ faults \in 0 .. MaxFaults

\* Where a thread is in its block, and what it has in hand: no newline, and nothing
\* once the end was seen.
InLine(t) ==
  /\ block_index[t] <= BlockSize /\ Len(block[t]) <= BlockSize
  /\ ~new_block_needed[t] => block_index[t] <= Len(block[t])
  /\ fd[t] # NoFd => fd[t] \in Owner[t]
  /\ Len(buff[t]) <= size[t] + (IF Idle(t) THEN 1 ELSE 0)
  /\ ~Idle(t) => \A i \in 1 .. Len(buff[t]) : buff[t][i] # Newline
  /\ ~Idle(t) /\ eof[t] => buff[t] = <<>>

\* What LineShape says of one thread.
Shaped(t) ==
  /\ \A i \in 1 .. Len(last[t][2]) - 1 : last[t][2][i] # Newline
  /\ last[t][1] > 0 /\ Len(last[t][2]) < last[t][1] - 1 =>
       eof[t] \/ (last[t][2] # <<>> /\ last[t][2][Len(last[t][2])] = Newline)

ReadlineInv == Types /\ \A t \in Threads : InLine(t) /\ Shaped(t)
-------------------------------------------------------------------------------
\* Bytes of a file that has been opened.
LEMMA ContentFacts ==
  ASSUME NEW f \in Fds
  PROVE  Content[f] \in Seq(Byte) /\ Len(Content[f]) \in Nat
BY ReadlineAssumption, LenProperties

\* A step of one thread leaves the others as they are.
Alone(t) ==
  \A u \in Threads \ {t} :
    /\ block'[u] = block[u] /\ block_index'[u] = block_index[u]
    /\ new_block_needed'[u] = new_block_needed[u] /\ eof'[u] = eof[u]
    /\ fd'[u] = fd[u] /\ size'[u] = size[u] /\ buff'[u] = buff[u] /\ last'[u] = last[u]

LEMMA OthersKept ==
  ASSUME ReadlineInv, NEW t \in Threads, Alone(t), Types', InLine(t)', Shaped(t)'
  PROVE  ReadlineInv'
<1>1. \A u \in Threads \ {t} : InLine(u)' /\ Shaped(u)'
  BY DEF Alone, ReadlineInv, InLine, Shaped, Idle
<1> QED
  BY <1>1 DEF ReadlineInv

\* The return of a line that has its shape.
LEMMA ReturnFacts ==
  ASSUME ReadlineInv, NEW t \in Threads, ~Idle(t), NEW line \in Seq(Byte), Return(t, line)
  PROVE  /\ fd' \in [Threads -> Fds \cup {NoFd}] /\ fd'[t] = NoFd
         /\ got' \in [Fds -> Seq(Byte)] /\ last' \in [Threads -> Nat \X Seq(Byte)]
         /\ last'[t] = <<size[t] + 1, line>> /\ fd[t] \in Owner[t] /\ fd[t] \in Fds
         /\ \A u \in Threads \ {t} : fd'[u] = fd[u] /\ last'[u] = last[u]
<1>1. fd[t] \in Owner[t] /\ fd[t] \in Fds
  BY ReadlineAssumption DEF ReadlineInv, InLine, Idle
<1>2. got[fd[t]] \o line \in Seq(Byte)
  BY <1>1, ConcatProperties DEF ReadlineInv, Types
<1>3. size[t] + 1 \in Nat
  BY DEF ReadlineInv, Types
<1> QED
  BY <1>1, <1>2, <1>3 DEF Return, ReadlineInv, Types

LEMMA CallInv ==
  ASSUME ReadlineInv, NEW t \in Threads, NEW f \in Fds, NEW n \in Sizes, Call(t, f, n)
  PROVE  ReadlineInv'
<1>1. n - 1 \in Nat /\ f # NoFd
  BY ReadlineAssumption
<1>2. <<>> \in Seq(Byte) /\ Len(<<>>) = 0
  OBVIOUS
<1>3. Types'
  BY <1>1, <1>2 DEF Call, ReadlineInv, Types, statics
<1>4. /\ fd'[t] = f /\ f \in Owner[t] /\ size'[t] = n - 1 /\ buff'[t] = <<>>
      /\ UNCHANGED <<block[t], block_index[t], new_block_needed[t], eof[t], last[t]>>
  BY DEF Call, ReadlineInv, Types, statics
<1>5. InLine(t)' /\ Shaped(t)'
  BY <1>1, <1>2, <1>4 DEF ReadlineInv, InLine, Shaped, Idle
<1>6. Alone(t)
  BY DEF Call, ReadlineInv, Types, statics, Alone
<1> QED
  BY <1>3, <1>5, <1>6, OthersKept

LEMMA ReturnNullInv ==
  ASSUME ReadlineInv, NEW t \in Threads, ReturnNull(t)
  PROVE  ReadlineInv'
<1>1. <<>> \in Seq(Byte) /\ Len(<<>>) = 0
  OBVIOUS
<1>2. ~Idle(t) /\ eof[t] /\ Return(t, <<>>) /\ UNCHANGED <<offset, statics, size, buff, faults>>
  BY DEF ReturnNull
<1>3. /\ fd' \in [Threads -> Fds \cup {NoFd}] /\ fd'[t] = NoFd
      /\ got' \in [Fds -> Seq(Byte)] /\ last' \in [Threads -> Nat \X Seq(Byte)]
      /\ last'[t] = <<size[t] + 1, <<>>>>
      /\ \A u \in Threads \ {t} : fd'[u] = fd[u] /\ last'[u] = last[u]
  BY <1>1, <1>2, ReturnFacts
<1>4. Types'
  BY <1>2, <1>3 DEF ReadlineInv, Types, statics
<1>5. InLine(t)' /\ Shaped(t)'
  BY <1>1, <1>2, <1>3 DEF ReadlineInv, Types, InLine, Shaped, Idle, statics
<1>6. Alone(t)
  BY <1>2, <1>3 DEF statics, Alone
<1> QED
  BY <1>4, <1>5, <1>6, OthersKept

LEMMA FetchInv ==
  ASSUME ReadlineInv, NEW t \in Threads, Fetch(t)
  PROVE  ReadlineInv'
<1>1. fd[t] \in Fds /\ ~Idle(t)
  BY DEF Fetch, Looping, Idle, ReadlineInv, Types
<1> DEFINE o == offset[fd[t]]
<1>2. PICK n \in 1 .. BlockSize :
        /\ o + n <= Len(Content[fd[t]])
        /\ block' = [block EXCEPT ![t] = SubSeq(Content[fd[t]], o + 1, o + n)]
        /\ offset' = [offset EXCEPT ![fd[t]] = @ + n]
  BY DEF Fetch
<1>3. BlockSize \in Nat /\ n \in Nat /\ n >= 1 /\ n <= BlockSize /\ o \in Nat
  BY <1>1, ReadlineAssumption DEF ReadlineInv, Types
<1>4. SubSeq(Content[fd[t]], o + 1, o + n) \in Seq(Byte)
      /\ Len(SubSeq(Content[fd[t]], o + 1, o + n)) = n
  <2>1. \A i \in o + 1 .. o + n : Content[fd[t]][i] \in Byte
    BY <1>1, <1>2, <1>3, ContentFacts, ElementOfSeq
  <2> QED
    BY <1>3, <2>1, SubSeqProperties
<1>5. /\ block_index' = [block_index EXCEPT ![t] = 0]
      /\ new_block_needed' = [new_block_needed EXCEPT ![t] = FALSE]
      /\ UNCHANGED <<eof, call, got, last, faults>>
  BY DEF Fetch
<1> HIDE DEF o
<1>6. offset' \in [Fds -> Nat] /\ \A f \in Fds : offset'[f] <= Len(Content[f])
  <2>1. offset \in [Fds -> Nat] /\ o = offset[fd[t]] /\ o + n \in Nat
    BY <1>3 DEF ReadlineInv, Types, o
  <2>2. offset' = [offset EXCEPT ![fd[t]] = o + n]
    BY <1>2, <2>1
  <2> QED
    BY <1>1, <1>2, <2>1, <2>2 DEF ReadlineInv, Types
<1>7. Types'
  BY <1>2, <1>4, <1>5, <1>6 DEF ReadlineInv, Types, call
<1>8. block'[t] = SubSeq(Content[fd[t]], o + 1, o + n) /\ block_index'[t] = 0
  BY <1>2, <1>5 DEF ReadlineInv, Types
<1>9. InLine(t)' /\ Shaped(t)'
  BY <1>3, <1>4, <1>5, <1>8 DEF ReadlineInv, Types, InLine, Shaped, Idle, call
<1>10. Alone(t)
  BY <1>2, <1>5 DEF ReadlineInv, Types, call, Alone
<1> QED
  BY <1>7, <1>9, <1>10, OthersKept

LEMMA FetchNothingInv ==
  ASSUME ReadlineInv, NEW t \in Threads, FetchNothing(t)
  PROVE  ReadlineInv'
<1>1. <<>> \in Seq(Byte) /\ Len(<<>>) = 0
  OBVIOUS
<1>2. /\ ~Idle(t) /\ new_block_needed[t] /\ Return(t, buff[t]) /\ faults' \in 0 .. MaxFaults
      /\ block' = [block EXCEPT ![t] = <<>>] /\ eof' = [eof EXCEPT ![t] = TRUE]
      /\ UNCHANGED <<offset, block_index, new_block_needed, size, buff>>
  BY ReadlineAssumption DEF FetchNothing, Looping, ReadlineInv, Types
<1>3. buff[t] \in Seq(Byte) /\ Len(buff[t]) \in Nat
  BY LenProperties DEF ReadlineInv, Types
<1>4. /\ fd' \in [Threads -> Fds \cup {NoFd}] /\ fd'[t] = NoFd
      /\ got' \in [Fds -> Seq(Byte)] /\ last' \in [Threads -> Nat \X Seq(Byte)]
      /\ last'[t] = <<size[t] + 1, buff[t]>>
      /\ \A u \in Threads \ {t} : fd'[u] = fd[u] /\ last'[u] = last[u]
  BY <1>2, <1>3, ReturnFacts
<1>5. Types'
  BY <1>1, <1>2, <1>4 DEF ReadlineInv, Types
<1>6. block'[t] = <<>> /\ eof'[t]
  BY <1>2 DEF ReadlineInv, Types
<1>7. InLine(t)' /\ Shaped(t)'
  BY <1>1, <1>2, <1>3, <1>4, <1>6, ReadlineAssumption DEF ReadlineInv, Types, InLine, Shaped, Idle
<1>8. Alone(t)
  BY <1>2, <1>4 DEF ReadlineInv, Types, Alone
<1> QED
  BY <1>5, <1>7, <1>8, OthersKept

LEMMA EndOfBlockInv ==
  ASSUME ReadlineInv, NEW t \in Threads, EndOfBlock(t)
  PROVE  ReadlineInv'
<1>1. /\ new_block_needed' = [new_block_needed EXCEPT ![t] = TRUE]
      /\ UNCHANGED <<offset, block, block_index, eof, call, got, last, faults>>
  BY DEF EndOfBlock
<1>2. Types' /\ Alone(t) /\ new_block_needed'[t]
  BY <1>1 DEF ReadlineInv, Types, call, Alone
<1>3. InLine(t)' /\ Shaped(t)'
  BY <1>1, <1>2 DEF ReadlineInv, InLine, Shaped, Idle, call
<1> QED
  BY <1>2, <1>3, OthersKept

\* The character a thread looks at.
LEMMA NextCharFacts ==
  ASSUME ReadlineInv, NEW t \in Threads, InBlock(t)
  PROVE  /\ NextChar(t) \in Byte /\ block_index[t] \in Nat /\ block_index[t] + 1 <= Len(block[t])
         /\ buff[t] \in Seq(Byte) /\ Len(buff[t]) \in Nat /\ block[t] \in Seq(Byte)
         /\ Append(buff[t], NextChar(t)) \in Seq(Byte)
         /\ Len(Append(buff[t], NextChar(t))) = Len(buff[t]) + 1
         /\ \A i \in 1 .. Len(buff[t]) : Append(buff[t], NextChar(t))[i] = buff[t][i]
         /\ Append(buff[t], NextChar(t))[Len(buff[t]) + 1] = NextChar(t)
         /\ Len(block[t]) \in Nat
<1>1. /\ block[t] \in Seq(Byte) /\ buff[t] \in Seq(Byte) /\ block_index[t] \in Nat
      /\ block_index[t] < Len(block[t])
  BY DEF ReadlineInv, Types, InBlock
<1>2. Len(buff[t]) \in Nat /\ Len(block[t]) \in Nat
  BY <1>1, LenProperties
<1>3. NextChar(t) \in Byte
  BY <1>1, <1>2, ElementOfSeq DEF NextChar
<1> HIDE DEF NextChar
<1> QED
  BY <1>1, <1>2, <1>3, AppendProperties

LEMMA EndOfLineInv ==
  ASSUME ReadlineInv, NEW t \in Threads, EndOfLine(t)
  PROVE  ReadlineInv'
<1> DEFINE line == Append(buff[t], NextChar(t))
<1>1. /\ InBlock(t) /\ ~Idle(t) /\ ~new_block_needed[t] /\ NextChar(t) = Newline
      /\ buff' = [buff EXCEPT ![t] = line]
      /\ block_index' = [block_index EXCEPT ![t] = @ + 1]
      /\ UNCHANGED <<offset, block, new_block_needed, eof, size, faults>>
  BY DEF EndOfLine, InBlock, Looping
<1>2. buff'[t] = line
  BY <1>1 DEF ReadlineInv, Types
<1>3. Return(t, line)
  BY <1>2 DEF EndOfLine
<1>4. /\ line \in Seq(Byte) /\ Len(line) = Len(buff[t]) + 1 /\ Len(buff[t]) \in Nat
      /\ \A i \in 1 .. Len(buff[t]) : line[i] = buff[t][i]
      /\ line[Len(line)] = Newline /\ line # <<>>
      /\ block_index[t] \in Nat /\ block_index[t] + 1 <= Len(block[t]) /\ Len(block[t]) \in Nat
  BY <1>1, NextCharFacts, EmptySeq
<1> HIDE DEF line
<1>5. /\ fd' \in [Threads -> Fds \cup {NoFd}] /\ fd'[t] = NoFd
      /\ got' \in [Fds -> Seq(Byte)] /\ last' \in [Threads -> Nat \X Seq(Byte)]
      /\ last'[t] = <<size[t] + 1, line>>
      /\ \A u \in Threads \ {t} : fd'[u] = fd[u] /\ last'[u] = last[u]
  BY <1>1, <1>3, <1>4, ReturnFacts
<1>7. block_index' \in [Threads -> Nat] /\ block_index'[t] = block_index[t] + 1
  <2>1. block_index[t] + 1 \in Nat
    BY <1>4
  <2> QED
    BY <1>1, <2>1 DEF ReadlineInv, Types
<1>6. Types'
  BY <1>1, <1>4, <1>5, <1>7 DEF ReadlineInv, Types
<1>8. InLine(t)'
  BY <1>1, <1>2, <1>4, <1>5, <1>7, ReadlineAssumption DEF ReadlineInv, Types, InLine, Idle
<1>9. Shaped(t)'
  <2>1. \A i \in 1 .. Len(line) - 1 : line[i] # Newline
    BY <1>1, <1>4 DEF ReadlineInv, InLine
  <2>2. last'[t][1] = size[t] + 1 /\ last'[t][2] = line
    BY <1>5
  <2> QED
    BY <1>4, <2>1, <2>2 DEF Shaped
<1>10. Alone(t)
  BY <1>1, <1>5 DEF ReadlineInv, Types, Alone
<1> QED
  BY <1>6, <1>8, <1>9, <1>10, OthersKept

LEMMA BufferFullInv ==
  ASSUME ReadlineInv, NEW t \in Threads, BufferFull(t)
  PROVE  ReadlineInv'
<1>1. /\ InBlock(t) /\ ~Idle(t) /\ Return(t, buff[t]) /\ Len(buff[t]) > size[t] - 1
      /\ UNCHANGED <<offset, statics, size, buff, faults>>
  BY DEF BufferFull, InBlock, Looping, Full
<1>2. buff[t] \in Seq(Byte) /\ Len(buff[t]) \in Nat
  BY LenProperties DEF ReadlineInv, Types
<1>3. /\ fd' \in [Threads -> Fds \cup {NoFd}] /\ fd'[t] = NoFd
      /\ got' \in [Fds -> Seq(Byte)] /\ last' \in [Threads -> Nat \X Seq(Byte)]
      /\ last'[t] = <<size[t] + 1, buff[t]>>
      /\ \A u \in Threads \ {t} : fd'[u] = fd[u] /\ last'[u] = last[u]
  BY <1>1, <1>2, ReturnFacts
<1>4. Types'
  BY <1>1, <1>3 DEF ReadlineInv, Types, statics
<1>5. InLine(t)' /\ Shaped(t)'
  BY <1>1, <1>2, <1>3 DEF ReadlineInv, Types, InLine, Shaped, Idle, statics
<1>6. Alone(t)
  BY <1>1, <1>3 DEF statics, Alone
<1> QED
  BY <1>4, <1>5, <1>6, OthersKept

LEMMA TakeCharInv ==
  ASSUME ReadlineInv, NEW t \in Threads, TakeChar(t)
  PROVE  ReadlineInv'
<1> DEFINE more == Append(buff[t], NextChar(t))
<1>1. /\ InBlock(t) /\ ~Idle(t) /\ ~eof[t] /\ NextChar(t) # Newline /\ ~(Len(buff[t]) > size[t] - 1)
      /\ buff' = [buff EXCEPT ![t] = more]
      /\ block_index' = [block_index EXCEPT ![t] = @ + 1]
      /\ UNCHANGED <<offset, block, new_block_needed, eof, fd, size, got, last, faults>>
  BY DEF TakeChar, InBlock, Looping, Full
<1>2. /\ more \in Seq(Byte) /\ Len(more) = Len(buff[t]) + 1 /\ Len(buff[t]) \in Nat
      /\ \A i \in 1 .. Len(buff[t]) : more[i] = buff[t][i]
      /\ more[Len(more)] # Newline
      /\ block_index[t] \in Nat /\ block_index[t] + 1 <= Len(block[t]) /\ Len(block[t]) \in Nat
  BY <1>1, NextCharFacts
<1> HIDE DEF more
<1>3. Types' /\ buff'[t] = more /\ block_index'[t] = block_index[t] + 1
  <2>1. block_index[t] + 1 \in Nat
    BY <1>2
  <2>2. block_index' \in [Threads -> Nat] /\ block_index'[t] = block_index[t] + 1
    BY <1>1, <2>1 DEF ReadlineInv, Types
  <2> QED
    BY <1>1, <1>2, <2>2 DEF ReadlineInv, Types
<1>4. InLine(t)' /\ Shaped(t)'
  <2>1. \A i \in 1 .. Len(more) : more[i] # Newline
    BY <1>1, <1>2 DEF ReadlineInv, InLine
  <2>2. block_index'[t] <= BlockSize
    BY <1>2, <1>3, ReadlineAssumption DEF ReadlineInv, InLine
  <2> QED
    BY <1>1, <1>2, <1>3, <2>1, <2>2 DEF ReadlineInv, Types, InLine, Shaped, Idle
<1>5. Alone(t)
  BY <1>1 DEF ReadlineInv, Types, Alone
<1> QED
  BY <1>3, <1>4, <1>5, OthersKept

\* The invariant holds in every reachable state.
THEOREM ReadlineInvHolds == Spec => []ReadlineInv
<1>1. Init => ReadlineInv
  <2> SUFFICES ASSUME Init PROVE ReadlineInv
    OBVIOUS
  <2>1. <<>> \in Seq(Byte) /\ Len(<<>>) = 0
    OBVIOUS
  <2>2. Types
    <3>1. \A f \in Fds : 0 <= Len(Content[f])
      BY ContentFacts
    <3>2. 0 \in 0 .. MaxFaults
      BY ReadlineAssumption
    <3>7. <<0, <<>>>> \in Nat \X Seq(Byte)
      <4>1. \A s \in Seq(Byte) : <<0, s>> \in Nat \X Seq(Byte)
        OBVIOUS
      <4> QED
        BY <2>1, <4>1, Zenon
    <3>3. last \in [Threads -> Nat \X Seq(Byte)]
      BY <3>7 DEF Init
    <3>4. offset \in [Fds -> Nat] /\ \A f \in Fds : offset[f] <= Len(Content[f])
      BY <3>1 DEF Init
    <3>5. faults \in 0 .. MaxFaults
      BY <3>2 DEF Init
    <3>6. /\ block \in [Threads -> Seq(Byte)] /\ buff \in [Threads -> Seq(Byte)]
          /\ got \in [Fds -> Seq(Byte)]
      BY <2>1 DEF Init
    <3> QED
      BY <3>3, <3>4, <3>5, <3>6 DEF Init, Types
  <2>3. \A t \in Threads : InLine(t) /\ Shaped(t)
    BY <2>1, ReadlineAssumption DEF Init, InLine, Shaped, Idle
  <2> QED
    BY <2>2, <2>3 DEF ReadlineInv
<1>2. ReadlineInv /\ [Next]_vars => ReadlineInv'
  <2> SUFFICES ASSUME ReadlineInv, [Next]_vars PROVE ReadlineInv'
    OBVIOUS
  <2>1. CASE \E t \in Threads : Turn(t)
    BY <2>1, ReturnNullInv, FetchInv, FetchNothingInv, EndOfBlockInv, EndOfLineInv,
       BufferFullInv, TakeCharInv DEF Turn
  <2>2. CASE \E t \in Threads, f \in Fds, n \in Sizes : Call(t, f, n)
    BY <2>2, CallInv
  <2>3. CASE UNCHANGED vars
    BY <2>3 DEF vars, statics, call, ReadlineInv, Types, InLine, Shaped, Idle
  <2> QED
    BY <2>1, <2>2, <2>3 DEF Next
<1> QED
  BY <1>1, <1>2, PTL DEF Spec

\* The variables keep their types, and indexes their bounds.
THEOREM TypeHolds == Spec => []TypeOK
<1>1. ReadlineInv => TypeOK
  <2> SUFFICES ASSUME ReadlineInv PROVE TypeOK
    OBVIOUS
  <2>1. \A f \in Fds : offset[f] \in 0 .. Len(Content[f])
    BY ContentFacts DEF ReadlineInv, Types
  <2>2. \A t \in Threads : Len(buff[t]) \in Nat /\ size[t] \in Nat
    BY LenProperties DEF ReadlineInv, Types
  <2> QED
    BY <2>1, <2>2, ReadlineAssumption DEF ReadlineInv, Types, InLine, Idle, TypeOK
<1> QED
  BY <1>1, ReadlineInvHolds, PTL

\* A line ends at its newline, or is cut by its size or the end of the file.
THEOREM ShapeHolds == Spec => []LineShape
<1>1. ReadlineInv => LineShape
  BY DEF ReadlineInv, Shaped, LineShape, Last
<1> QED
  BY <1>1, ReadlineInvHolds, PTL
-------------------------------------------------------------------------------
\* A thread that keeps to one descriptor, which is its own.
OneDescriptorEach ==
  /\ \A t \in Threads : \A f, g \in Owner[t] : f = g
  /\ \A t, u \in Threads : t # u => Owner[t] \cap Owner[u] = {}

\* What NoByteLost says of one thread and one descriptor.
Kept(t, f) == got[f] \o InHand(t) \o InStatics(t) \o Unread(f) = Content[f]

\* Concatenation is associative, of bytes.
LEMMA Assoc == \A x, y, z \in Seq(Byte) : (x \o y) \o z = x \o (y \o z)
BY ConcatAssociative

\* The four parts are sequences of bytes.
LEMMA PartsAreSequences ==
  ASSUME ReadlineInv, NEW t \in Threads, NEW f \in Fds
  PROVE  /\ got[f] \in Seq(Byte) /\ buff[t] \in Seq(Byte) /\ InHand(t) \in Seq(Byte)
         /\ InStatics(t) \in Seq(Byte) /\ Unread(f) \in Seq(Byte)
<1>1. /\ got[f] \in Seq(Byte) /\ buff[t] \in Seq(Byte) /\ block[t] \in Seq(Byte)
      /\ Content[f] \in Seq(Byte) /\ block_index[t] \in Nat /\ offset[f] \in Nat
  BY ContentFacts DEF ReadlineInv, Types
<1>2. <<>> \in Seq(Byte)
  OBVIOUS
<1>3. \A s \in Seq(Byte), k \in Nat : SubSeq(s, k + 1, Len(s)) \in Seq(Byte)
  <2> SUFFICES ASSUME NEW s \in Seq(Byte), NEW k \in Nat
               PROVE  SubSeq(s, k + 1, Len(s)) \in Seq(Byte)
    OBVIOUS
  <2>1. Len(s) \in Nat /\ \A i \in k + 1 .. Len(s) : s[i] \in Byte
    BY LenProperties, ElementOfSeq
  <2>2. k + 1 \in Int /\ Len(s) \in Int
    BY <2>1
  <2> QED
    BY <2>1, <2>2, SubSeqProperties
<1> QED
  BY <1>1, <1>2, <1>3 DEF InHand, InStatics, Unread

\* A line that is returned goes from the hand to what was got, and back to nothing.
LEMMA ReturnKeeps ==
  ASSUME NEW g \in Seq(Byte), NEW b \in Seq(Byte), NEW st \in Seq(Byte), NEW r \in Seq(Byte)
  PROVE  g \o b \o <<>> \o st \o r = g \o b \o st \o r
<1>1. g \o b \in Seq(Byte)
  BY ConcatProperties
<1> QED
  BY <1>1, ConcatEmptySeq

\* The four parts of a file.
Whole(lines, hand, rest, unread) == lines \o hand \o rest \o unread

\* A byte that goes from the block into the hand keeps its place.
LEMMA TakeKeeps ==
  ASSUME NEW g \in Seq(Byte), NEW b \in Seq(Byte), NEW r \in Seq(Byte), NEW s \in Seq(Byte),
         NEW i \in Nat, i + 1 <= Len(s)
  PROVE  Whole(g, b, SubSeq(s, i + 1, Len(s)), r)
           = Whole(g, Append(b, s[i + 1]), SubSeq(s, i + 2, Len(s)), r)
<1> DEFINE c == s[i + 1]
           rest == SubSeq(s, i + 2, Len(s))
<1>1. Len(s) \in Nat /\ i + 1 \in 1 .. Len(s) /\ Len(s) \in i + 1 .. Len(s)
  BY LenProperties
<1>2. SubSeq(s, i + 1, Len(s)) = <<c>> \o SubSeq(s, (i + 1) + 1, Len(s))
  BY <1>1, SubSeqRecursiveFirst
<1>3. (i + 1) + 1 = i + 2
  OBVIOUS
<1>4. c \in Byte /\ <<c>> \in Seq(Byte)
  BY <1>1, ElementOfSeq
<1>5. rest \in Seq(Byte)
  <2>1. \A j \in i + 2 .. Len(s) : s[j] \in Byte
    BY <1>1, ElementOfSeq
  <2> QED
    BY <1>1, <2>1, SubSeqProperties
<1>6. Append(b, c) = b \o <<c>>
  BY <1>4, AppendIsConcat
<1> HIDE DEF c, rest
<1>7. SubSeq(s, i + 1, Len(s)) = <<c>> \o rest
  BY <1>2, <1>3 DEF rest
<1>8. g \o b \in Seq(Byte)
  BY ConcatProperties
<1>9. (g \o b) \o (<<c>> \o rest) = ((g \o b) \o <<c>>) \o rest
  BY <1>4, <1>5, <1>8, Assoc
<1>10. (g \o b) \o <<c>> = g \o (b \o <<c>>)
  BY <1>4, Assoc
<1> QED
  BY <1>6, <1>7, <1>9, <1>10 DEF c, rest, Whole

\* A block that is fetched is what comes next in the file.
LEMMA FetchKeeps ==
  ASSUME NEW x \in Seq(Byte), NEW s \in Seq(Byte), NEW o \in Nat, NEW n \in Nat, o + n <= Len(s)
  PROVE  /\ SubSeq(s, o + 1, o + n) \in Seq(Byte)
         /\ x \o SubSeq(s, o + 1, Len(s))
              = x \o SubSeq(s, o + 1, o + n) \o SubSeq(s, (o + n) + 1, Len(s))
<1>1. Len(s) \in Nat /\ o + 1 \in 1 .. Len(s) + 1 /\ o + n \in (o + 1) - 1 .. Len(s)
      /\ Len(s) \in o + n .. Len(s)
  BY LenProperties
<1>2. SubSeq(s, o + 1, o + n) \o SubSeq(s, (o + n) + 1, Len(s)) = SubSeq(s, o + 1, Len(s))
  BY <1>1, ConcatAdjacentSubSeq
<1>3. \A i \in o + 1 .. Len(s) : s[i] \in Byte
  BY <1>1, ElementOfSeq
<1>4. SubSeq(s, o + 1, o + n) \in Seq(Byte)
  BY <1>1, <1>3, SubSeqProperties
<1>5. SubSeq(s, (o + n) + 1, Len(s)) \in Seq(Byte)
  BY <1>1, <1>3, SubSeqProperties
<1> DEFINE y == SubSeq(s, o + 1, o + n)
           z == SubSeq(s, (o + n) + 1, Len(s))
<1>6. (x \o y) \o z = x \o (y \o z)
  <2>1. y \in Seq(Byte) /\ z \in Seq(Byte)
    BY <1>4, <1>5
  <2> HIDE DEF y, z
  <2> QED
    BY <2>1, Assoc
<1> QED
  BY <1>2, <1>4, <1>6

\* The descriptors of other threads are not touched.
LEMMA OthersKeepTheirs ==
  ASSUME OneDescriptorEach, ReadlineInv, NoByteLost, NEW t \in Threads, Alone(t),
         \A f \in Owner[t] : Kept(t, f)',
         \A f \in Fds \ Owner[t] : got'[f] = got[f] /\ offset'[f] = offset[f]
  PROVE  NoByteLost'
<1> SUFFICES ASSUME NEW u \in Threads, NEW f \in Owner[u] PROVE Kept(u, f)'
  BY DEF NoByteLost, Kept
<1>1. CASE u = t
  BY <1>1
<1>2. CASE u # t
  <2>1. f \in Fds \ Owner[t]
    BY <1>2, ReadlineAssumption DEF OneDescriptorEach
  <2>2. got'[f] = got[f] /\ InHand(u)' = InHand(u) /\ InStatics(u)' = InStatics(u) /\ Unread(f)' = Unread(f)
    BY <1>2, <2>1 DEF Alone, InHand, InStatics, Unread, Idle
  <2> QED
    BY <2>2 DEF NoByteLost, Kept
<1> QED
  BY <1>1, <1>2

\* A return of what is in hand.
LEMMA ReturnKeepsBytes ==
  ASSUME OneDescriptorEach, ReadlineInv, NoByteLost, NEW t \in Threads, ~Idle(t),
         Return(t, buff[t]), InStatics(t)' = InStatics(t), UNCHANGED offset, Alone(t)
  PROVE  NoByteLost'
<1>1. /\ fd[t] \in Owner[t] /\ fd[t] \in Fds /\ fd'[t] = NoFd
  BY PartsAreSequences, ReturnFacts, ReadlineAssumption DEF ReadlineInv, Types, InLine, Idle
<1>2. got' = [got EXCEPT ![fd[t]] = @ \o buff[t]] /\ got \in [Fds -> Seq(Byte)]
  BY DEF Return, ReadlineInv, Types
<1>3. ASSUME NEW f \in Owner[t] PROVE Kept(t, f)'
  <2>1. f = fd[t]
    BY <1>1 DEF OneDescriptorEach
  <2>2. got'[f] = got[f] \o buff[t] /\ InHand(t)' = <<>> /\ InHand(t) = buff[t] /\ Unread(f)' = Unread(f)
    BY <1>1, <1>2, <2>1 DEF InHand, Unread, Idle
  <2>3. got[f] \o buff[t] \o InStatics(t) \o Unread(f) = Content[f]
    BY <2>2 DEF NoByteLost
  <2>4. got[f] \o buff[t] \o <<>> \o InStatics(t) \o Unread(f) = Content[f]
    <3>1. /\ got[f] \in Seq(Byte) /\ buff[t] \in Seq(Byte) /\ InStatics(t) \in Seq(Byte)
          /\ Unread(f) \in Seq(Byte)
      BY <1>1, <2>1, PartsAreSequences
    <3>2. got[f] \o buff[t] \o <<>> \o InStatics(t) \o Unread(f)
            = got[f] \o buff[t] \o InStatics(t) \o Unread(f)
      BY <3>1, ReturnKeeps
    <3> QED
      BY <2>3, <3>2
  <2> QED
    BY <2>2, <2>4 DEF Kept
<1>4. \A f \in Fds \ Owner[t] : got'[f] = got[f] /\ offset'[f] = offset[f]
  BY <1>1, <1>2
<1> QED
  BY <1>3, <1>4, OthersKeepTheirs

\* Every step keeps the bytes.
LEMMA CallKeepsBytes ==
  ASSUME OneDescriptorEach, ReadlineInv, NoByteLost, NEW t \in Threads, NEW g \in Fds,
         NEW n \in Sizes, Call(t, g, n)
  PROVE  NoByteLost'
<1>1. Idle(t) /\ fd'[t] = g /\ buff'[t] = <<>> /\ g # NoFd
  BY ReadlineAssumption DEF Call, ReadlineInv, Types
<1>2. Alone(t)
  BY DEF Call, ReadlineInv, Types, statics, Alone
<1>3. ASSUME NEW f \in Owner[t] PROVE Kept(t, f)'
  <2>1. /\ got'[f] = got[f] /\ InHand(t)' = <<>> /\ InHand(t) = <<>>
        /\ InStatics(t)' = InStatics(t) /\ Unread(f)' = Unread(f)
    BY <1>1 DEF Call, statics, InHand, InStatics, Unread, Idle
  <2> QED
    BY <2>1 DEF NoByteLost, Kept
<1> QED
  BY <1>2, <1>3, OthersKeepTheirs DEF Call

LEMMA ReturnNullKeepsBytes ==
  ASSUME OneDescriptorEach, ReadlineInv, NoByteLost, NEW t \in Threads, ReturnNull(t)
  PROVE  NoByteLost'
<1>1. ~Idle(t) /\ buff[t] = <<>> /\ Return(t, <<>>)
      /\ UNCHANGED <<offset, statics, size, buff, faults>>
  BY DEF ReturnNull, ReadlineInv, InLine
<1>2. Return(t, buff[t])
  BY <1>1
<1>3. Alone(t)
  BY <1>1 DEF Return, ReadlineInv, Types, statics, Alone
<1>4. InStatics(t)' = InStatics(t)
  BY <1>1 DEF InStatics, statics
<1> QED
  BY <1>1, <1>2, <1>3, <1>4, ReturnKeepsBytes

LEMMA BufferFullKeepsBytes ==
  ASSUME OneDescriptorEach, ReadlineInv, NoByteLost, NEW t \in Threads, BufferFull(t)
  PROVE  NoByteLost'
<1>1. ~Idle(t) /\ Return(t, buff[t]) /\ UNCHANGED <<offset, statics, size, buff, faults>>
  BY DEF BufferFull, InBlock, Looping
<1>2. Alone(t)
  BY <1>1 DEF Return, ReadlineInv, Types, statics, Alone
<1>3. InStatics(t)' = InStatics(t)
  BY <1>1 DEF InStatics, statics
<1> QED
  BY <1>1, <1>2, <1>3, ReturnKeepsBytes

LEMMA FetchNothingKeepsBytes ==
  ASSUME OneDescriptorEach, ReadlineInv, NoByteLost, NEW t \in Threads, FetchNothing(t)
  PROVE  NoByteLost'
<1>1. /\ ~Idle(t) /\ new_block_needed[t] /\ Return(t, buff[t])
      /\ block' = [block EXCEPT ![t] = <<>>] /\ eof' = [eof EXCEPT ![t] = TRUE]
      /\ UNCHANGED <<offset, block_index, new_block_needed, size, buff>>
  BY DEF FetchNothing, Looping
<1>2. Alone(t)
  BY <1>1 DEF Return, ReadlineInv, Types, Alone
<1>3. InStatics(t)' = InStatics(t)
  BY <1>1 DEF InStatics
<1> QED
  BY <1>1, <1>2, <1>3, ReturnKeepsBytes

LEMMA EndOfBlockKeepsBytes ==
  ASSUME OneDescriptorEach, ReadlineInv, NoByteLost, NEW t \in Threads, EndOfBlock(t)
  PROVE  NoByteLost'
<1>1. /\ ~new_block_needed[t] /\ block_index[t] >= Len(block[t])
      /\ new_block_needed' = [new_block_needed EXCEPT ![t] = TRUE]
      /\ UNCHANGED <<offset, block, block_index, eof, call, got, last, faults>>
  BY DEF EndOfBlock
<1>2. Alone(t) /\ new_block_needed'[t]
  BY <1>1 DEF ReadlineInv, Types, call, Alone
<1>3. InStatics(t) = <<>>
  <2>1. Len(block[t]) \in Nat /\ block_index[t] \in Nat
    BY LenProperties DEF ReadlineInv, Types
  <2> QED
    BY <1>1, <2>1, SubSeqEmpty DEF InStatics
<1>4. InStatics(t)' = <<>>
  BY <1>2 DEF InStatics
<1>5. ASSUME NEW f \in Owner[t] PROVE Kept(t, f)'
  BY <1>1, <1>3, <1>4 DEF call, InHand, Unread, Idle, NoByteLost, Kept
<1> QED
  BY <1>1, <1>2, <1>5, OthersKeepTheirs

LEMMA FetchKeepsBytes ==
  ASSUME OneDescriptorEach, ReadlineInv, NoByteLost, NEW t \in Threads, Fetch(t)
  PROVE  NoByteLost'
<1>1. PICK f \in Fds : f = fd[t] /\ f \in Owner[t] /\ ~Idle(t) /\ new_block_needed[t]
  BY DEF Fetch, Looping, Idle, ReadlineInv, Types, InLine
<1> DEFINE o == offset[f]
           s == Content[f]
<1>2. PICK n \in 1 .. BlockSize :
        /\ o + n <= Len(s)
        /\ block' = [block EXCEPT ![t] = SubSeq(s, o + 1, o + n)]
        /\ offset' = [offset EXCEPT ![f] = @ + n]
  BY <1>1 DEF Fetch
<1>3. /\ block_index' = [block_index EXCEPT ![t] = 0]
      /\ new_block_needed' = [new_block_needed EXCEPT ![t] = FALSE]
      /\ UNCHANGED <<eof, call, got, last, faults>>
  BY DEF Fetch
<1>4. n \in Nat /\ o \in Nat /\ s \in Seq(Byte) /\ offset'[f] = o + n
  BY <1>1, <1>2, ContentFacts, ReadlineAssumption DEF ReadlineInv, Types
<1>5. Alone(t)
  BY <1>2, <1>3 DEF ReadlineInv, Types, call, Alone
<1> DEFINE y == SubSeq(s, o + 1, o + n)
           r == SubSeq(s, (o + n) + 1, Len(s))
           x == got[f] \o buff[t]
<1>6. y \in Seq(Byte)
  BY <1>2, <1>4, FetchKeeps
<1>7. InStatics(t) = <<>> /\ InStatics(t)' = y
  <2>1. /\ block'[t] = y /\ block_index'[t] = 0 /\ ~new_block_needed'[t]
    BY <1>2, <1>3 DEF ReadlineInv, Types
  <2>2. SubSeq(y, 1, Len(y)) = y
    BY <1>6, SubSeqFull
  <2> HIDE DEF y
  <2> QED
    BY <1>1, <2>1, <2>2 DEF InStatics
<1>8. Unread(f) = SubSeq(s, o + 1, Len(s)) /\ Unread(f)' = r
  BY <1>4 DEF Unread
<1>9. InHand(t) = buff[t] /\ InHand(t)' = buff[t] /\ got'[f] = got[f]
  BY <1>1, <1>3 DEF InHand, Idle, call
<1>10. x \in Seq(Byte)
  BY <1>1, PartsAreSequences, ConcatProperties
<1>11. x \o <<>> \o Unread(f) = s
  BY <1>1, <1>7, <1>9 DEF NoByteLost
<1>12. x \o <<>> = x
  <2> HIDE DEF x
  <2> QED
    BY <1>10, ConcatEmptySeq
<1>13. x \o y \o r = x \o SubSeq(s, o + 1, Len(s))
  <2> HIDE DEF x, o, s
  <2> QED
    BY <1>2, <1>4, <1>10, FetchKeeps
<1>14. x \o y \o r = s
  BY <1>8, <1>11, <1>12, <1>13
<1>15. Kept(t, f)'
  BY <1>3, <1>7, <1>8, <1>9, <1>14 DEF Kept, call
<1>16. \A g \in Owner[t] : Kept(t, g)'
  BY <1>1, <1>15 DEF OneDescriptorEach
<1>17. \A g \in Fds \ Owner[t] : got'[g] = got[g] /\ offset'[g] = offset[g]
  BY <1>1, <1>2, <1>3 DEF ReadlineInv, Types
<1> QED
  BY <1>5, <1>16, <1>17, OthersKeepTheirs

LEMMA TakeCharKeepsBytes ==
  ASSUME OneDescriptorEach, ReadlineInv, NoByteLost, NEW t \in Threads, TakeChar(t)
  PROVE  NoByteLost'
<1>1. /\ InBlock(t) /\ ~Idle(t) /\ ~new_block_needed[t]
      /\ buff' = [buff EXCEPT ![t] = Append(@, NextChar(t))]
      /\ block_index' = [block_index EXCEPT ![t] = @ + 1]
      /\ UNCHANGED <<offset, block, new_block_needed, eof, fd, size, got, last, faults>>
  BY DEF TakeChar, InBlock, Looping
<1>2. Alone(t)
  BY <1>1 DEF ReadlineInv, Types, Alone
<1>3. ASSUME NEW f \in Owner[t] PROVE Kept(t, f)'
  <2>1. /\ block_index[t] \in Nat /\ block_index[t] + 1 <= Len(block[t]) /\ block[t] \in Seq(Byte)
        /\ buff[t] \in Seq(Byte)
    BY <1>1, NextCharFacts
  <2>2. f \in Fds /\ got[f] \in Seq(Byte) /\ Unread(f) \in Seq(Byte)
    BY PartsAreSequences, ReadlineAssumption
  <2>3. /\ got'[f] = got[f] /\ Unread(f)' = Unread(f)
        /\ InHand(t) = buff[t] /\ InHand(t)' = Append(buff[t], block[t][block_index[t] + 1])
        /\ InStatics(t) = SubSeq(block[t], block_index[t] + 1, Len(block[t]))
    BY <1>1 DEF InHand, InStatics, Unread, Idle, ReadlineInv, Types, NextChar
  <2>4. InStatics(t)' = SubSeq(block[t], block_index[t] + 2, Len(block[t]))
    <3>1. block_index'[t] + 1 = block_index[t] + 2
      BY <1>1, <2>1 DEF ReadlineInv, Types
    <3> QED
      BY <1>1, <3>1 DEF InStatics
  <2>5. got[f] \o buff[t] \o SubSeq(block[t], block_index[t] + 1, Len(block[t])) \o Unread(f)
          = got[f] \o Append(buff[t], block[t][block_index[t] + 1])
              \o SubSeq(block[t], block_index[t] + 2, Len(block[t])) \o Unread(f)
    <3> DEFINE g == got[f]
               b == buff[t]
               r == Unread(f)
               bl == block[t]
               i == block_index[t]
    <3>1. /\ g \in Seq(Byte) /\ b \in Seq(Byte) /\ r \in Seq(Byte) /\ bl \in Seq(Byte)
          /\ i \in Nat /\ i + 1 <= Len(bl)
      BY <2>1, <2>2
    <3> HIDE DEF g, b, r, bl, i
    <3>2. Whole(g, b, SubSeq(bl, i + 1, Len(bl)), r)
            = Whole(g, Append(b, bl[i + 1]), SubSeq(bl, i + 2, Len(bl)), r)
      BY <3>1, TakeKeeps
    <3> QED
      BY <3>2, Zenon DEF g, b, r, bl, i, Whole
  <2>6. got[f] \o InHand(t) \o InStatics(t) \o Unread(f) = Content[f]
    BY DEF NoByteLost
  <2> QED
    BY <2>3, <2>4, <2>5, <2>6 DEF Kept
<1> QED
  BY <1>1, <1>2, <1>3, OthersKeepTheirs

LEMMA EndOfLineKeepsBytes ==
  ASSUME OneDescriptorEach, ReadlineInv, NoByteLost, NEW t \in Threads, EndOfLine(t)
  PROVE  NoByteLost'
<1> DEFINE line == Append(buff[t], NextChar(t))
<1>1. /\ InBlock(t) /\ ~Idle(t) /\ ~new_block_needed[t]
      /\ buff' = [buff EXCEPT ![t] = line]
      /\ block_index' = [block_index EXCEPT ![t] = @ + 1]
      /\ UNCHANGED <<offset, block, new_block_needed, eof, size, faults>>
  BY DEF EndOfLine, InBlock, Looping
<1>2. Return(t, line)
  BY <1>1 DEF EndOfLine, ReadlineInv, Types
<1>3. Alone(t)
  BY <1>1, <1>2 DEF Return, ReadlineInv, Types, Alone
<1>4. /\ block_index[t] \in Nat /\ block_index[t] + 1 <= Len(block[t]) /\ block[t] \in Seq(Byte)
      /\ buff[t] \in Seq(Byte) /\ line \in Seq(Byte)
  BY <1>1, NextCharFacts
<1>5. /\ fd[t] \in Owner[t] /\ fd[t] \in Fds /\ fd'[t] = NoFd
  BY <1>1, <1>2, <1>4, ReturnFacts
<1>6. got' = [got EXCEPT ![fd[t]] = @ \o line] /\ got \in [Fds -> Seq(Byte)]
  BY <1>2 DEF Return, ReadlineInv, Types
<1>7. ASSUME NEW f \in Owner[t] PROVE Kept(t, f)'
  <2>1. f = fd[t] /\ f \in Fds
    BY <1>5 DEF OneDescriptorEach
  <2>2. got[f] \in Seq(Byte) /\ Unread(f) \in Seq(Byte)
    BY <2>1, PartsAreSequences
  <2> DEFINE st == SubSeq(block[t], block_index[t] + 2, Len(block[t]))
  <2>3. /\ got'[f] = got[f] \o line /\ InHand(t)' = <<>> /\ InHand(t) = buff[t]
        /\ Unread(f)' = Unread(f)
        /\ InStatics(t) = SubSeq(block[t], block_index[t] + 1, Len(block[t]))
    BY <1>1, <1>5, <1>6, <2>1 DEF InHand, InStatics, Unread, Idle
  <2>4. InStatics(t)' = st
    <3>1. block_index'[t] + 1 = block_index[t] + 2
      BY <1>1, <1>4 DEF ReadlineInv, Types
    <3> QED
      BY <1>1, <3>1 DEF InStatics
  <2>5. got[f] \o buff[t] \o SubSeq(block[t], block_index[t] + 1, Len(block[t])) \o Unread(f)
          = got[f] \o line \o st \o Unread(f)
    <3> DEFINE g == got[f]
               b == buff[t]
               r == Unread(f)
               bl == block[t]
               i == block_index[t]
    <3>1. /\ g \in Seq(Byte) /\ b \in Seq(Byte) /\ r \in Seq(Byte) /\ bl \in Seq(Byte)
          /\ i \in Nat /\ i + 1 <= Len(bl)
      BY <1>4, <2>2
    <3> HIDE DEF g, b, r, bl, i
    <3>2. Whole(g, b, SubSeq(bl, i + 1, Len(bl)), r)
            = Whole(g, Append(b, bl[i + 1]), SubSeq(bl, i + 2, Len(bl)), r)
      BY <3>1, TakeKeeps
    <3> QED
      BY <3>2, Zenon DEF g, b, r, bl, i, Whole, NextChar
  <2>6. got[f] \o InHand(t) \o InStatics(t) \o Unread(f) = Content[f]
    BY DEF NoByteLost
  <2>7. st \in Seq(Byte)
    <3>1. /\ Len(block[t]) \in Nat
          /\ \A i \in block_index[t] + 2 .. Len(block[t]) : block[t][i] \in Byte
      BY <1>4, LenProperties, ElementOfSeq
    <3> QED
      BY <1>4, <3>1, SubSeqProperties
  <2> HIDE DEF st, line
  <2>8. got[f] \o line \o <<>> \o st \o Unread(f) = got[f] \o line \o st \o Unread(f)
    BY <1>4, <2>2, <2>7, ReturnKeeps
  <2> QED
    BY <2>3, <2>4, <2>5, <2>6, <2>8 DEF Kept
<1>8. \A f \in Fds \ Owner[t] : got'[f] = got[f] /\ offset'[f] = offset[f]
  BY <1>1, <1>5, <1>6
<1> QED
  BY <1>3, <1>7, <1>8, OthersKeepTheirs

\* When every thread keeps to one descriptor of its own, no byte is lost, repeated
\* or reordered, for every block size and wherever read(2) cuts the blocks.
THEOREM BytesAreKept == OneDescriptorEach => (Spec => []NoByteLost)
<1> SUFFICES ASSUME OneDescriptorEach PROVE Spec => []NoByteLost
  OBVIOUS
<1>1. ReadlineInv /\ Init => NoByteLost
  <2> SUFFICES ASSUME ReadlineInv, Init, NEW t \in Threads, NEW f \in Owner[t]
               PROVE  Kept(t, f)
    BY DEF NoByteLost, Kept
  <2>1. f \in Fds /\ Content[f] \in Seq(Byte)
    BY ContentFacts, ReadlineAssumption
  <2>2. /\ got[f] = <<>> /\ InHand(t) = <<>> /\ InStatics(t) = <<>>
        /\ Unread(f) = SubSeq(Content[f], 1, Len(Content[f]))
    BY <2>1 DEF Init, InHand, InStatics, Unread, Idle
  <2>3. Unread(f) = Content[f]
    BY <2>1, <2>2, SubSeqFull
  <2>4. <<>> \o <<>> \o <<>> \o Content[f] = Content[f]
    <3>1. <<>> \in Seq(Byte)
      OBVIOUS
    <3> QED
      BY <2>1, <3>1, ConcatEmptySeq
  <2> QED
    BY <2>2, <2>3, <2>4 DEF Kept
<1>2. ReadlineInv /\ NoByteLost /\ [Next]_vars => NoByteLost'
  <2> SUFFICES ASSUME ReadlineInv, NoByteLost, [Next]_vars PROVE NoByteLost'
    OBVIOUS
  <2>1. CASE \E t \in Threads : Turn(t)
    BY <2>1, ReturnNullKeepsBytes, FetchKeepsBytes, FetchNothingKeepsBytes, EndOfBlockKeepsBytes,
       EndOfLineKeepsBytes, BufferFullKeepsBytes, TakeCharKeepsBytes DEF Turn
  <2>2. CASE \E t \in Threads, f \in Fds, n \in Sizes : Call(t, f, n)
    BY <2>2, CallKeepsBytes
  <2>3. CASE UNCHANGED vars
    BY <2>3 DEF vars, statics, call, NoByteLost, InHand, InStatics, Unread, Idle
  <2> QED
    BY <2>1, <2>2, <2>3 DEF Next
<1> QED
  BY <1>1, <1>2, ReadlineInvHolds, PTL DEF Spec
-------------------------------------------------------------------------------
\* How many turns of its loop a call may still take: at most three for each byte of the
\* file, one for each of the block, and one to return.
FileLeft(t)  == Len(Content[fd[t]]) - offset[fd[t]]
BlockLeft(t) == IF new_block_needed[t] THEN 0 ELSE 1 + (Len(block[t]) - block_index[t])
Turns(t)     == IF Idle(t) THEN 0 ELSE 1 + 3 * FileLeft(t) + BlockLeft(t)

\* A turn of one thread leaves the others where they are, or with less to read.
LEMMA TurnAlone ==
  ASSUME ReadlineInv, NEW t \in Threads, Turn(t)
  PROVE  Alone(t) /\ \A f \in Fds : offset'[f] >= offset[f]
<1> USE DEF ReadlineInv, Types, statics, call, Alone
<1>1. \A f \in Fds : offset[f] \in Nat
  OBVIOUS
<1>2. CASE ReturnNull(t) \/ BufferFull(t)
  BY <1>1, <1>2 DEF ReturnNull, BufferFull, Return
<1>5. CASE FetchNothing(t)
  BY <1>1, <1>5 DEF FetchNothing, Return
<1>6. CASE EndOfLine(t)
  <2>1. /\ fd' = [fd EXCEPT ![t] = NoFd] /\ buff' = [buff EXCEPT ![t] = Append(@, NextChar(t))]
        /\ last' = [last EXCEPT ![t] = <<size[t] + 1, buff'[t]>>]
        /\ block_index' = [block_index EXCEPT ![t] = @ + 1]
        /\ UNCHANGED <<offset, block, new_block_needed, eof, size>>
    BY <1>6 DEF EndOfLine, Return
  <2> QED
    BY <1>1, <2>1
<1>3. CASE EndOfBlock(t) \/ TakeChar(t)
  BY <1>1, <1>3 DEF EndOfBlock, TakeChar
<1>4. CASE Fetch(t)
  <2>1. Alone(t)
    BY <1>4 DEF Fetch
  <2>2. PICK n \in 1 .. BlockSize : offset' = [offset EXCEPT ![fd[t]] = @ + n]
    BY <1>4 DEF Fetch
  <2> QED
    BY <1>1, <2>1, <2>2, ReadlineAssumption
<1> QED
  BY <1>2, <1>3, <1>4, <1>5, <1>6 DEF Turn

\* What is left is a number, and nothing is left of a call only when it has returned.
Remaining(t) ==
  /\ BlockLeft(t) \in Nat
  /\ ~Idle(t) => fd[t] \in Fds /\ FileLeft(t) \in Nat /\ Turns(t) = 1 + 3 * FileLeft(t) + BlockLeft(t)
  /\ Turns(t) \in Nat /\ (Turns(t) = 0 <=> Idle(t))

LEMMA TurnsLeft == ReadlineInv => \A t \in Threads : Remaining(t)
<1> SUFFICES ASSUME ReadlineInv, NEW t \in Threads PROVE Remaining(t)
  OBVIOUS
<1>1. Len(block[t]) \in Nat /\ block_index[t] \in Nat /\ (~new_block_needed[t] => block_index[t] <= Len(block[t]))
  BY LenProperties DEF ReadlineInv, Types, InLine
<1>2. BlockLeft(t) \in Nat
  BY <1>1 DEF BlockLeft
<1>3. CASE Idle(t)
  BY <1>2, <1>3 DEF Remaining, Turns
<1>4. CASE ~Idle(t)
  <2>1. fd[t] \in Fds
    BY <1>4 DEF ReadlineInv, Types, Idle
  <2>2. Len(Content[fd[t]]) \in Nat /\ offset[fd[t]] \in Nat /\ offset[fd[t]] <= Len(Content[fd[t]])
    BY <2>1, ContentFacts DEF ReadlineInv, Types
  <2>3. FileLeft(t) \in Nat
    BY <2>2 DEF FileLeft
  <2> QED
    BY <1>2, <1>4, <2>1, <2>3 DEF Remaining, Turns
<1> QED
  BY <1>3, <1>4

\* Every turn of a call leaves it fewer turns until it returns, and no other thread can add to
\* them, whatever it reads from the same file: readline returns, wherever read(2) cuts
\* its blocks (the loop of readline.c 22-65).
CallsShorten ==
  \A t \in Threads : ~Idle(t) => /\ Turn(t) => Turns(t)' < Turns(t)
                                 /\ Turns(t)' <= Turns(t)

\* No call turns in its loop in vain: with fairness, each one returns.
THEOREM CallsAdvance == Spec => [][CallsShorten]_vars
<1> DEFINE Known == \A t \in Threads : Remaining(t)
<1>1. ReadlineInv => Known
  BY TurnsLeft
<1>2. ReadlineInv /\ Known /\ ReadlineInv' /\ Known' /\ [Next]_vars => [CallsShorten]_vars
  <2> SUFFICES ASSUME ReadlineInv, ReadlineInv', Known, Known', Next, NEW t \in Threads, ~Idle(t)
               PROVE  (Turn(t) => Turns(t)' < Turns(t)) /\ Turns(t)' <= Turns(t)
    BY DEF CallsShorten
  <2>1. /\ Turns(t) \in Nat /\ Turns(t) # 0 /\ Turns(t)' \in Nat
        /\ FileLeft(t) \in Nat /\ BlockLeft(t) \in Nat /\ fd[t] \in Fds
        /\ Turns(t) = 1 + 3 * FileLeft(t) + BlockLeft(t)
    BY DEF Remaining
  <2>2. ASSUME fd'[t] = fd[t]
        PROVE  /\ FileLeft(t)' \in Nat /\ BlockLeft(t)' \in Nat
               /\ FileLeft(t)' = Len(Content[fd[t]]) - offset'[fd[t]]
               /\ Turns(t)' = 1 + 3 * FileLeft(t)' + BlockLeft(t)'
    BY <2>2 DEF Remaining, FileLeft, Idle
  <2>3. ASSUME fd'[t] = NoFd PROVE Turns(t)' < Turns(t)
    BY <2>1, <2>3 DEF Turns, Idle
  <2>8. /\ Len(Content[fd[t]]) \in Nat /\ offset[fd[t]] \in Nat
        /\ Len(block[t]) \in Nat /\ block_index[t] \in Nat
    BY <2>1, ContentFacts, LenProperties DEF ReadlineInv, Types
  <2>9. offset'[fd[t]] \in Nat
    BY <2>1 DEF ReadlineInv, Types
  <2> HIDE DEF Known
  <2>4. ASSUME NEW u \in Threads \ {t}, Turn(u) PROVE Turns(t)' <= Turns(t)
    <3>1. Alone(u) /\ offset'[fd[t]] >= offset[fd[t]]
      BY <2>1, <2>4, TurnAlone
    <3>2. fd'[t] = fd[t] /\ BlockLeft(t)' = BlockLeft(t)
      BY <3>1 DEF Alone, BlockLeft
    <3>3. FileLeft(t)' <= FileLeft(t)
      BY <2>8, <2>9, <3>1, <3>2 DEF FileLeft
    <3>4. FileLeft(t)' \in Nat /\ BlockLeft(t)' \in Nat /\ Turns(t)' = 1 + 3 * FileLeft(t)' + BlockLeft(t)'
      BY <2>2, <3>2
    <3> QED
      BY <2>1, <3>2, <3>3, <3>4
  <2>5. ASSUME NEW u \in Threads, NEW f \in Fds, NEW n \in Sizes, Call(u, f, n)
        PROVE  Turns(t)' <= Turns(t)
    <3>1. u # t
      BY <2>5 DEF Call
    <3>2. fd'[t] = fd[t] /\ UNCHANGED <<offset, block, block_index, new_block_needed>>
      BY <2>5, <3>1 DEF Call, statics, ReadlineInv, Types
    <3>3. FileLeft(t)' = FileLeft(t) /\ BlockLeft(t)' = BlockLeft(t)
      BY <3>2 DEF FileLeft, BlockLeft
    <3> QED
      BY <2>1, <2>2, <3>2, <3>3
  <2>6. ASSUME Turn(t) PROVE Turns(t)' < Turns(t)
    <3>1. CASE ReturnNull(t) \/ FetchNothing(t) \/ BufferFull(t) \/ EndOfLine(t)
      <4>1. fd' = [fd EXCEPT ![t] = NoFd] /\ t \in DOMAIN fd
        BY <3>1 DEF ReturnNull, FetchNothing, BufferFull, EndOfLine, Return, ReadlineInv, Types
      <4> QED
        BY <2>3, <4>1
    <3>2. CASE EndOfBlock(t)
      <4>1. /\ UNCHANGED <<offset, block, block_index, fd>> /\ new_block_needed'[t]
            /\ ~new_block_needed[t] /\ block_index[t] <= Len(block[t])
        BY <3>2 DEF EndOfBlock, call, ReadlineInv, Types, InLine
      <4>2. FileLeft(t)' = FileLeft(t) /\ BlockLeft(t)' = 0
        BY <4>1 DEF FileLeft, BlockLeft
      <4>3. BlockLeft(t) >= 1
        BY <2>8, <4>1 DEF BlockLeft
      <4>4. FileLeft(t)' \in Nat /\ Turns(t)' = 1 + 3 * FileLeft(t)' + BlockLeft(t)'
        BY <2>2, <4>1
      <4> QED
        BY <2>1, <4>2, <4>3, <4>4
    <3>3. CASE TakeChar(t)
      <4>1. /\ UNCHANGED <<offset, block, new_block_needed, fd>> /\ ~new_block_needed[t]
            /\ block_index'[t] = block_index[t] + 1
        BY <3>3 DEF TakeChar, InBlock, ReadlineInv, Types
      <4>2. FileLeft(t)' = FileLeft(t)
        BY <4>1 DEF FileLeft
      <4>3. BlockLeft(t)' = BlockLeft(t) - 1
        <5>1. /\ BlockLeft(t) = 1 + (Len(block[t]) - block_index[t])
              /\ BlockLeft(t)' = 1 + (Len(block[t]) - (block_index[t] + 1))
          BY <4>1 DEF BlockLeft
        <5> QED
          BY <2>8, <5>1
      <4>4. Turns(t)' = 1 + 3 * FileLeft(t)' + BlockLeft(t)'
        BY <2>2, <4>1
      <4> QED
        BY <2>1, <4>2, <4>3, <4>4
    <3>4. CASE Fetch(t)
      <4> DEFINE o == offset[fd[t]]
      <4>1. PICK n \in 1 .. BlockSize :
              /\ o + n <= Len(Content[fd[t]])
              /\ block' = [block EXCEPT ![t] = SubSeq(Content[fd[t]], o + 1, o + n)]
              /\ offset' = [offset EXCEPT ![fd[t]] = @ + n]
        BY <3>4 DEF Fetch
      <4> HIDE DEF o
      <4>2. n \in Nat /\ n >= 1 /\ o = offset[fd[t]] /\ o \in Nat
        BY <2>8, <4>1, ReadlineAssumption DEF o
      <4>3. Len(SubSeq(Content[fd[t]], o + 1, o + n)) = n
        <5>1. Content[fd[t]] \in Seq(Byte)
          BY <2>1, ContentFacts
        <5>2. \A i \in o + 1 .. o + n : Content[fd[t]][i] \in Byte
          <6>1. o + 1 .. o + n \subseteq 1 .. Len(Content[fd[t]])
            BY <2>8, <4>1, <4>2
          <6> QED
            BY <5>1, <6>1, ElementOfSeq
        <5> QED
          BY <2>8, <4>2, <5>2, SubSeqProperties
      <4>4. /\ fd' = fd /\ block_index'[t] = 0 /\ ~new_block_needed'[t] /\ new_block_needed[t]
            /\ Len(block'[t]) = n /\ offset'[fd[t]] = offset[fd[t]] + n
        BY <2>1, <3>4, <4>1, <4>2, <4>3 DEF Fetch, call, ReadlineInv, Types
      <4>5. FileLeft(t)' = FileLeft(t) - n /\ BlockLeft(t)' = 1 + n /\ BlockLeft(t) = 0
        BY <2>8, <4>2, <4>4 DEF FileLeft, BlockLeft
      <4>6. Turns(t)' = 1 + 3 * FileLeft(t)' + BlockLeft(t)'
        BY <2>2, <4>4
      <4> QED
        BY <2>1, <4>2, <4>5, <4>6
    <3> QED
      BY <2>6, <3>1, <3>2, <3>3, <3>4 DEF Turn
  <2> QED
    BY <2>1, <2>4, <2>5, <2>6 DEF Next
<1> QED
  BY <1>1, <1>2, ReadlineInvHolds, PTL DEF Spec
===============================================================================
