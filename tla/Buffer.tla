------------------------------- MODULE Buffer -------------------------------
(***************************************************************************)
(* Buffer of Reactor_http/source/server.hpp: the vector with a read and a  *)
(* write offset that Connection reads sockets into and writes them from.   *)
(* Byte n is the n-th byte ever written; every LineLength-th is a '\n'.    *)
(***************************************************************************)
EXTENDS Naturals, Sequences

CONSTANTS Capacity,    \* size of _buffer at first, 1024 in the code
          MaxLen,      \* longest write
          MaxBytes,    \* bound on the bytes written
          LineLength

VARIABLES buffer,      \* _buffer, positions 0 .. size - 1
          reader_idx, writer_idx,
          written,     \* bytes written so far
          taken        \* bytes read or cleared so far

vars == <<buffer, reader_idx, writer_idx, written, taken>>

Size == Len(buffer)
At(i) == buffer[i + 1]

TailIdleSize == Size - writer_idx
HeadIdleSize == reader_idx
ReadAbleSize == writer_idx - reader_idx

Init ==
  /\ buffer = [i \in 1 .. Capacity |-> 0]
  /\ reader_idx = 0 /\ writer_idx = 0
  /\ written = 0 /\ taken = 0

\* Room for len bytes after the write offset: there already, by moving the
\* data to the front, or by making the vector longer.
EnsureWriteSpace(len) ==
  IF len <= TailIdleSize THEN [buf |-> buffer, r |-> reader_idx, w |-> writer_idx]
  ELSE IF len <= HeadIdleSize + TailIdleSize
    THEN [buf |-> [i \in 1 .. Size |-> IF i <= ReadAbleSize
                                         THEN At(reader_idx + i - 1) ELSE buffer[i]],
          r |-> 0, w |-> ReadAbleSize]
  ELSE [buf |-> buffer \o [i \in 1 .. (len - TailIdleSize) |-> 0],
        r |-> reader_idx, w |-> writer_idx]

\* WriteAndPush, WriteStringAndPop and WriteBufferAndPush
WriteAndPush(len) ==
  LET room == EnsureWriteSpace(len) IN
    /\ written + len <= MaxBytes
    /\ buffer' = [i \in DOMAIN room.buf |->
                    IF i \in (room.w + 1) .. (room.w + len) THEN written + i - room.w
                                                            ELSE room.buf[i]]
    /\ reader_idx' = room.r
    /\ writer_idx' = room.w + len
    /\ written' = written + len
    /\ UNCHANGED taken

MoveReadOffset(len) ==
  /\ reader_idx' = reader_idx + len
  /\ taken' = taken + len
  /\ UNCHANGED <<buffer, writer_idx, written>>

\* ReadAndPop and ReadStringAndPop, within what their assertion allows.
ReadAndPop(len) == len <= ReadAbleSize /\ MoveReadOffset(len)

\* FindCRLF: the distance to the next '\n', or 0.
FindCRLF ==
  LET found == {i \in 1 .. ReadAbleSize : At(reader_idx + i - 1) % LineLength = 0} IN
    IF found = {} THEN 0 ELSE CHOOSE i \in found : \A j \in found : i <= j

GetLineAndPop == FindCRLF # 0 /\ MoveReadOffset(FindCRLF)

Clear ==
  /\ reader_idx' = 0 /\ writer_idx' = 0
  /\ taken' = written
  /\ UNCHANGED <<buffer, written>>

Next ==
  \/ \E len \in 1 .. MaxLen : WriteAndPush(len) \/ ReadAndPop(len)
  \/ GetLineAndPop
  \/ Clear

Spec == Init /\ [][Next]_vars

-----------------------------------------------------------------------------
(* What can be read is what was written and not yet taken, in order,       *)
(* through every compaction and enlargement, and the offsets stay inside   *)
(* the vector (EnsureWriteSpace, MoveReadOffset, MoveWriteOffset).         *)
HoldsUnread ==
  /\ reader_idx <= writer_idx /\ writer_idx <= Size
  /\ ReadAbleSize = written - taken
  /\ \A i \in 0 .. (ReadAbleSize - 1) : At(reader_idx + i) = taken + i + 1
=============================================================================
