------------------------------- MODULE Readline -------------------------------
(***************************************************************************)
(* readline of lab1: a line reader over read_block, with the block it is   *)
(* in the middle of kept in thread-local statics (one set per thread,      *)
(* whatever descriptors the thread reads).  Each turn of the loop is a     *)
(* step, so that the calls of several threads interleave.                  *)
(***************************************************************************)
EXTENDS Integers, Sequences, SequencesExt

CONSTANTS
  Threads, Fds,
  Byte,        \* the values of a char
  Content,     \* descriptor -> the bytes still to be read when it was opened
  Newline,     \* '\n'
  Owner,       \* thread -> the descriptors it reads
  BlockSize,   \* BLOCK_SIZE
  Sizes,       \* the values of size the callers pass
  NoFd,        \* no call in progress
  MaxFaults    \* bound on failing reads

ASSUME ReadlineAssumption ==
  /\ NoFd \notin Fds
  /\ Content \in [Fds -> Seq(Byte)] /\ Newline \in Byte
  /\ BlockSize \in Nat \ {0}
  /\ Sizes \subseteq Nat \ {0} /\ MaxFaults \in Nat
  /\ Owner \in [Threads -> SUBSET Fds]

VARIABLES
  offset,     \* descriptor -> bytes read(2) has returned so far
  block, block_index, new_block_needed, eof,   \* the statics of each thread
  fd, size, buff,    \* the call in progress: arguments and what was stored
  got,        \* history: descriptor -> what readline returned, concatenated
  last,       \* history: thread -> the line returned last and the size it was for
  faults      \* failing reads so far

statics == <<block, block_index, new_block_needed, eof>>
call    == <<fd, size, buff>>
vars    == <<offset, statics, call, got, last, faults>>

Idle(t) == fd[t] = NoFd
AtEnd(f) == offset[f] = Len(Content[f])

Init ==
  /\ offset = [f \in Fds |-> 0]
  /\ block = [t \in Threads |-> <<>>]
  /\ block_index = [t \in Threads |-> 0]
  /\ new_block_needed = [t \in Threads |-> TRUE]
  /\ eof = [t \in Threads |-> FALSE]
  /\ fd = [t \in Threads |-> NoFd]
  /\ size = [t \in Threads |-> 0]
  /\ buff = [t \in Threads |-> <<>>]
  /\ got = [f \in Fds |-> <<>>]
  /\ last = [t \in Threads |-> <<0, <<>>>>]
  /\ faults = 0

\* readline(buff, n, f); it leaves room for the terminator
Call(t, f, n) ==
  /\ Idle(t) /\ f \in Owner[t]
  /\ fd' = [fd EXCEPT ![t] = f]
  /\ size' = [size EXCEPT ![t] = n - 1]
  /\ buff' = [buff EXCEPT ![t] = <<>>]
  /\ UNCHANGED <<offset, statics, got, last, faults>>

Return(t, line) ==
  /\ fd' = [fd EXCEPT ![t] = NoFd]
  /\ got' = [got EXCEPT ![fd[t]] = @ \o line]
  /\ last' = [last EXCEPT ![t] = <<size[t] + 1, line>>]

\* the end was seen in an earlier call: return 0
ReturnNull(t) ==
  /\ ~Idle(t) /\ eof[t]
  /\ Return(t, <<>>)
  /\ UNCHANGED <<offset, statics, size, buff, faults>>

Looping(t) == ~Idle(t) /\ ~eof[t]

\* read_block returns at least one byte, and less than a block if it likes
Fetch(t) ==
  /\ Looping(t) /\ new_block_needed[t] /\ ~AtEnd(fd[t])
  /\ \E n \in 1 .. BlockSize :
       /\ offset[fd[t]] + n <= Len(Content[fd[t]])
       /\ block' = [block EXCEPT ![t] = SubSeq(Content[fd[t]], offset[fd[t]] + 1, offset[fd[t]] + n)]
       /\ offset' = [offset EXCEPT ![fd[t]] = @ + n]
  /\ block_index' = [block_index EXCEPT ![t] = 0]
  /\ new_block_needed' = [new_block_needed EXCEPT ![t] = FALSE]
  /\ UNCHANGED <<eof, call, got, last, faults>>

\* read_block returns 0, or -1: what was collected is returned, or NULL
FetchNothing(t) ==
  /\ Looping(t) /\ new_block_needed[t]
  /\ \/ AtEnd(fd[t]) /\ UNCHANGED faults
     \/ faults < MaxFaults /\ faults' = faults + 1
  /\ block' = [block EXCEPT ![t] = <<>>]   \* current_block_size <= 0
  /\ eof' = [eof EXCEPT ![t] = TRUE]
  /\ Return(t, buff[t])
  /\ UNCHANGED <<offset, block_index, new_block_needed, size, buff>>

InBlock(t) == Looping(t) /\ ~new_block_needed[t] /\ block_index[t] < Len(block[t])
NextChar(t) == block[t][block_index[t] + 1]
\* mutant of Full: the room for the terminator is counted the wrong way
FullLate(t) == Len(buff[t]) > size[t] + 1
Full(t) == Len(buff[t]) > size[t] - 1

\* mutants of EndOfBlock: the line ends with the block; no new block is asked for
EndOfBlockReturns(t) ==
  /\ Looping(t) /\ ~new_block_needed[t] /\ block_index[t] >= Len(block[t])
  /\ new_block_needed' = [new_block_needed EXCEPT ![t] = TRUE]
  /\ Return(t, buff[t])
  /\ UNCHANGED <<offset, block, block_index, eof, size, buff, faults>>
EndOfBlockStuck(t) ==
  /\ Looping(t) /\ ~new_block_needed[t] /\ block_index[t] >= Len(block[t])
  /\ UNCHANGED vars

EndOfBlock(t) ==
  /\ Looping(t) /\ ~new_block_needed[t] /\ block_index[t] >= Len(block[t])
  /\ new_block_needed' = [new_block_needed EXCEPT ![t] = TRUE]
  /\ UNCHANGED <<offset, block, block_index, eof, call, got, last, faults>>

\* the newline is stored before the space for it is looked at
EndOfLine(t) ==
  /\ InBlock(t) /\ NextChar(t) = Newline
  /\ buff' = [buff EXCEPT ![t] = Append(@, NextChar(t))]
  /\ block_index' = [block_index EXCEPT ![t] = @ + 1]
  /\ Return(t, buff'[t])
  /\ UNCHANGED <<offset, block, new_block_needed, eof, size, faults>>

\* mutant of BufferFull: the character that did not fit is consumed
BufferFullDrops(t) ==
  /\ InBlock(t) /\ NextChar(t) # Newline /\ Full(t)
  /\ Return(t, buff[t])
  /\ block_index' = [block_index EXCEPT ![t] = @ + 1]
  /\ UNCHANGED <<offset, block, new_block_needed, eof, size, buff, faults>>

BufferFull(t) ==
  /\ InBlock(t) /\ NextChar(t) # Newline /\ Full(t)
  /\ Return(t, buff[t])
  /\ UNCHANGED <<offset, statics, size, buff, faults>>

TakeChar(t) ==
  /\ InBlock(t) /\ NextChar(t) # Newline /\ ~Full(t)
  /\ buff' = [buff EXCEPT ![t] = Append(@, NextChar(t))]
  /\ block_index' = [block_index EXCEPT ![t] = @ + 1]
  /\ UNCHANGED <<offset, block, new_block_needed, eof, fd, size, got, last, faults>>

Turn(t) ==
  \/ ReturnNull(t)
  \/ Fetch(t)
  \/ FetchNothing(t)
  \/ EndOfBlock(t)
  \/ EndOfLine(t)
  \/ BufferFull(t)
  \/ TakeChar(t)

Next ==
  \E t \in Threads : Turn(t) \/ \E f \in Fds, n \in Sizes : Call(t, f, n)

Spec == Init /\ [][Next]_vars

\* the scheduler runs every thread; read(2) on a regular file returns
FairSpec == Spec /\ \A t \in Threads : WF_vars(Turn(t))
-------------------------------------------------------------------------------
TypeOK ==
  /\ \A f \in Fds : offset[f] \in 0 .. Len(Content[f])
  /\ \A t \in Threads : /\ Len(block[t]) <= BlockSize
                        /\ block_index[t] \in 0 .. BlockSize
                        /\ fd[t] \in Owner[t] \cup {NoFd}
                        /\ Len(buff[t]) <= size[t] + 1
  /\ new_block_needed \in [Threads -> BOOLEAN]
  /\ eof \in [Threads -> BOOLEAN]
  /\ faults \in 0 .. MaxFaults

InHand(t) == IF Idle(t) THEN <<>> ELSE buff[t]
InStatics(t) == IF new_block_needed[t] THEN <<>>
                ELSE SubSeq(block[t], block_index[t] + 1, Len(block[t]))
Unread(f) == SubSeq(Content[f], offset[f] + 1, Len(Content[f]))

\* When every thread keeps to one descriptor, no byte is lost, repeated or
\* reordered between the lines returned, the line being built, the rest of the
\* block and the file, wherever read(2) cuts the blocks (readline.c 22-65).
NoByteLost ==
  \A t \in Threads : \A f \in Owner[t] :
    got[f] \o InHand(t) \o InStatics(t) \o Unread(f) = Content[f]

\* A line holds at most one newline, at its end, and is cut short of a newline
\* only by its size or by the end of the file (readline.c 45-64).
LineShape ==
  \A t \in Threads : LET n == last[t][1]  line == last[t][2] IN
    /\ \A i \in 1 .. Len(line) - 1 : line[i] # Newline
    /\ n > 0 /\ Len(line) < n - 1 => eof[t] \/ (line # <<>> /\ Last(line) = Newline)

\* Every call returns: no boundary between blocks makes the loop spin.
CallReturns == \A t \in Threads : ~Idle(t) ~> Idle(t)
===============================================================================
