--------------------------------- MODULE FileIo ---------------------------------
(***************************************************************************)
(* oem/ibm/libpldmresponder/file_io.cpp, file_io.hpp and file_table.cpp:   *)
(* the host reads and writes files of the BMC piece by piece, within a     *)
(* message or by DMA, and goes on where an answer says the last piece      *)
(* ended.  The environment is a host that writes a buffer of its own to a  *)
(* file and one that reads a file into another buffer.                     *)
(***************************************************************************)
EXTENDS Integers, Sequences, SequencesExt, FiniteSetsExt

CONSTANTS
  Configured,  \* the regular files fileTable.json names, a sequence
  Sizes,       \* of each of them
  MinSize, MaxSize,  \* of a DMA operation (dma::minSize and maxSize)
  Lengths,     \* the host asks for
  MaxFile      \* bound on a file's length

VARIABLES
  file,    \* the content of each file, <<>> also when it does not exist
  exists,  \* files there are
  table,   \* FileTable: the files by handle, empty until first used
  acked,   \* of each file: bytes of its buffer the host believes written
  copy,    \* of each file: bytes the host believes read
  answer,  \* the last one: [command, cc, length]
  unnoticed  \* files a read or a write of which fell short without an error (history)

vars == <<file, exists, table, acked, copy, answer, unnoticed>>

Files == ToSet(Configured)
Old(i) == 100 + i   \* what a file holds at first
New(i) == i         \* what the host writes

Init ==
  /\ file = [f \in Files |-> [i \in 1..Sizes[f] |-> Old(i)]]
  /\ exists \in SUBSET Files
  /\ table = <<>>
  /\ acked = [f \in Files |-> 0] /\ copy = [f \in Files |-> <<>>]
  /\ answer = [command |-> "none", cc |-> "PLDM_SUCCESS", length |-> 0]
  /\ unnoticed = {}

\* FileTable::FileTable: the configured files that exist, numbered in order.
FileTable ==
  FoldLeft(LAMBDA t, f : IF f \in exists THEN Append(t, f) ELSE t, <<>>, Configured)

\* buildFileTable: built once, when first needed; an empty one is built again.
buildFileTable == IF table = <<>> THEN FileTable ELSE table

\* getFileTable
GetFileTable ==
  /\ table' = buildFileTable
  /\ answer' = [command |-> "GetFileTable", length |-> 0,
                cc |-> IF table' = <<>> THEN "PLDM_FILE_TABLE_UNAVAILABLE" ELSE "PLDM_SUCCESS"]
  /\ UNCHANGED <<file, exists, acked, copy, unnoticed>>

\* clearFileTable when the host is off: the next command builds the table of
\* the files there are then.  A host that starts has no data yet.
HostOff ==
  /\ table' = <<>>
  /\ acked' = [f \in Files |-> 0] /\ copy' = [f \in Files |-> <<>>]
  /\ UNCHANGED <<file, exists, answer, unnoticed>>

-----------------------------------------------------------------------------
\* transferAll and transferFileData: operations of at most MaxSize bytes
Operations(length) == (length - 1) \div MaxSize + 1

\* Mutant for TransfersExact: the host's address does not advance.
MutDmaOps(offset, length, address) ==
  [i \in 1..Operations(length) |->
     [offset |-> offset + (i - 1) * MaxSize, address |-> address,
      length |-> IF i < Operations(length) THEN MaxSize ELSE length - (i - 1) * MaxSize]]

DmaOps(offset, length, address) ==
  [i \in 1..Operations(length) |->
     [offset |-> offset + (i - 1) * MaxSize, address |-> address + (i - 1) * MaxSize,
      length |-> IF i < Operations(length) THEN MaxSize ELSE length - (i - 1) * MaxSize]]

\* lseek and write; a gap before the offset is read as zeros.
Overwrite(s, offset, data) ==
  [i \in 1..Max({Len(s), offset + Len(data)}) |->
     IF i \in (offset + 1)..(offset + Len(data)) THEN data[i - offset]
     ELSE IF i <= Len(s) THEN s[i] ELSE 0]

HostBuffer == [i \in 1..MaxFile |-> New(i)]
Piece(s, op) == SubSeq(s, op.offset + 1, op.offset + op.length)
AtHost(op) == SubSeq(HostBuffer, op.address + 1, op.address + op.length)

\* The operations when the write to the file of one of them fell short, which
\* is no error.
FellShort(ops) ==
  UNION {{[ops EXCEPT ![i].length = done] : done \in 0..(ops[i].length - 1)} :
           i \in DOMAIN ops}

\* transferDataHost: one operation from the host (to the file), or to it.
FromHost(s, ops) == FoldLeft(LAMBDA t, op : Overwrite(t, op.offset, AtHost(op)), s, ops)
ToHost(memory, s, ops) ==
  FoldLeft(LAMBDA m, op : Overwrite(m, op.address, Piece(s, op)), memory, ops)

-----------------------------------------------------------------------------
Clamped(f, offset, length) == Min({length, Len(file[f]) - offset})
Aligned(length) == length > 0 /\ length % MinSize = 0

Answered(command, cc, length) ==
  answer' = [command |-> command, cc |-> cc, length |-> length]

\* What was moved for f, when not all of it nobody notices (bound: once in the
\* life of a file).
Moved(f, whole) ==
  /\ whole \/ f \notin unnoticed
  /\ unnoticed' = IF whole THEN unnoticed ELSE unnoticed \cup {f}

\* The checks the four commands on handles share, in their order.  A ReadFile
\* of an empty file is answered by the code of another command, with its
\* number: the host has no request that this answers.
HandleRefused(command, h, offset) ==
  LET t == buildFileTable IN
  IF h \notin DOMAIN t \/ t[h] \notin exists
  THEN Answered(command, "PLDM_INVALID_FILE_HANDLE", 0)
  ELSE /\ offset >= Len(file[t[h]])
       /\ Answered(IF command = "ReadFile" /\ file[t[h]] = <<>>
                   THEN "ReadFileIntoMemory" ELSE command, "PLDM_DATA_OUT_OF_RANGE", 0)

Found(h, offset) ==
  LET t == buildFileTable IN
  h \in DOMAIN t /\ t[h] \in exists /\ offset < Len(file[t[h]])

Offset(command, h) ==
  LET t == buildFileTable IN
  IF h \notin DOMAIN t THEN 0
  ELSE IF command \in {"ReadFile", "ReadFileIntoMemory"} THEN Len(copy[t[h]])
  ELSE acked[t[h]]

Refused(command, h, length) ==
  /\ table' = buildFileTable
  /\ \/ HandleRefused(command, h, Offset(command, h))
     \/ /\ command = "ReadFileIntoMemory" /\ Found(h, Offset(command, h))
        /\ ~Aligned(Clamped(table'[h], Offset(command, h), length))
        /\ Answered(command, "PLDM_ERROR_INVALID_LENGTH", 0)
     \/ /\ command = "WriteFileFromMemory" /\ ~Aligned(length)
        /\ Answered(command, "PLDM_ERROR_INVALID_LENGTH", 0)
  /\ UNCHANGED <<file, exists, acked, copy, unnoticed>>

\* After k operations; all of them or the transfer is an error.
TransferAnswer(command, ops, k, length) ==
  Answered(command, IF k = Len(ops) THEN "PLDM_SUCCESS" ELSE "PLDM_ERROR",
           IF k = Len(ops) THEN length ELSE 0)

\* The part of the host's memory that it takes for the file after an answer
\* about length bytes; 0 is memory nothing was transferred to.
Believed(memory, f, length) ==
  [i \in 1..(Len(copy[f]) + length) |-> IF i \in DOMAIN memory THEN memory[i] ELSE 0]

ReadFileIntoMemory(h, length, k) ==
  LET f == table'[h]
      offset == Len(copy[f])
      moved == Clamped(f, offset, length)
      ops == DmaOps(offset, moved, offset)
  IN  /\ table' = buildFileTable
      /\ Found(h, Offset("ReadFileIntoMemory", h)) /\ Aligned(moved) /\ k <= Len(ops)
      /\ copy' = IF k < Len(ops) THEN copy
                 ELSE [copy EXCEPT ![f] = Believed(ToHost(@, file[f], ops), f, moved)]
      /\ TransferAnswer("ReadFileIntoMemory", ops, k, moved)
      /\ UNCHANGED <<file, exists, acked, unnoticed>>

WriteFileFromMemory(h, length, k) ==
  LET f == table'[h]
      offset == acked[f]
      ops == DmaOps(offset, length, offset)
      done == SubSeq(ops, 1, k)
  IN  /\ table' = buildFileTable
      /\ Aligned(length) /\ Found(h, Offset("WriteFileFromMemory", h)) /\ k <= Len(ops)
      /\ offset + length <= MaxFile
      /\ \E written \in {done} \cup FellShort(done) :
           /\ file' = [file EXCEPT ![f] = FromHost(@, written)]
           /\ Moved(f, written = done)
      /\ acked' = IF k < Len(ops) THEN acked ELSE [acked EXCEPT ![f] = @ + length]
      /\ TransferAnswer("WriteFileFromMemory", ops, k, length)
      /\ UNCHANGED <<exists, copy>>

\* The host's copy of f after an answer with moved bytes, of which got were read
\* from the file; the others are the zeros the answer was made of.
Read(f, moved, got) ==
  copy[f] \o SubSeq(file[f], Len(copy[f]) + 1, Len(copy[f]) + got)
          \o [i \in 1..(moved - got) |-> 0]

\* Neither command looks at whether its stream opened, read or wrote.
ReadFile(h, length) ==
  LET f == table'[h]
      moved == Clamped(f, Len(copy[f]), length)
  IN  /\ table' = buildFileTable
      /\ Found(h, Offset("ReadFile", h))
      /\ \E got \in 0..moved :
           /\ copy' = [copy EXCEPT ![f] = Read(f, moved, got)]
           /\ Moved(f, got = moved)
      /\ Answered("ReadFile", "PLDM_SUCCESS", moved)
      /\ UNCHANGED <<file, exists, acked>>

WriteFile(h, length) ==
  LET f == table'[h]
      offset == acked[f]
  IN  /\ table' = buildFileTable
      /\ Found(h, Offset("WriteFile", h)) /\ offset + length <= MaxFile
      /\ \E done \in 0..length :
           /\ file' = [file EXCEPT ![f] = Overwrite(@, offset,
                        SubSeq(HostBuffer, offset + 1, offset + done))]
           /\ Moved(f, done = length)
      /\ acked' = [acked EXCEPT ![f] = @ + length]
      /\ Answered("WriteFile", "PLDM_SUCCESS", length)
      /\ UNCHANGED <<exists, copy>>

-----------------------------------------------------------------------------
\* The file behind a type, which has no handle in the table
Refusal(f, offset) ==
  IF f \notin exists THEN "PLDM_INVALID_FILE_HANDLE" ELSE "PLDM_DATA_OUT_OF_RANGE"

\* readFileByType through FileHandler::readFile, which does look at whether the
\* file opens
ReadFileByType(f, length) ==
  LET offset == Len(copy[f])
      moved == Clamped(f, offset, length)
  IN  /\ IF f \notin exists \/ offset >= Len(file[f])
         THEN /\ Answered("ReadFileByType", Refusal(f, offset), length)
              /\ UNCHANGED <<copy, unnoticed>>
         ELSE \/ /\ Answered("ReadFileByType", "PLDM_ERROR", moved)
                 /\ UNCHANGED <<copy, unnoticed>>
              \/ \E got \in 0..moved :
                   /\ copy' = [copy EXCEPT ![f] = Read(f, moved, got)]
                   /\ Moved(f, got = moved)
                   /\ Answered("ReadFileByType", "PLDM_SUCCESS", moved)
      /\ UNCHANGED <<file, exists, table, acked>>

\* FileHandler::transferFileData takes the length by reference and counts it
\* down: the answer has what was left for the last operation.
LengthLeft(ops) == Last(ops).length

\* readFileByTypeIntoMemory
ReadFileByTypeIntoMemory(f, length, k) ==
  LET offset == Len(copy[f])
      moved == Clamped(f, offset, length)
      ops == DmaOps(offset, moved, offset)
  IN  /\ Aligned(length)
      /\ IF f \notin exists \/ offset >= Len(file[f])
         THEN /\ Answered("ReadFileByTypeIntoMemory", Refusal(f, offset), length)
              /\ UNCHANGED copy
         ELSE /\ k <= Len(ops)
              /\ Answered("ReadFileByTypeIntoMemory",
                          IF k = Len(ops) THEN "PLDM_SUCCESS" ELSE "PLDM_ERROR",
                          LengthLeft(ops))
              /\ copy' = IF k < Len(ops) THEN copy
                         ELSE [copy EXCEPT ![f] =
                                 Believed(ToHost(@, file[f], ops), f, LengthLeft(ops))]
      /\ UNCHANGED <<file, exists, table, acked, unnoticed>>

-----------------------------------------------------------------------------
\* Another process of the BMC makes or removes a file, and the host forgets
\* what it had of it.
Created(f) ==
  /\ f \notin exists
  /\ exists' = exists \cup {f}
  /\ file' = [file EXCEPT ![f] = [i \in 1..Sizes[f] |-> Old(i)]]
  /\ acked' = [acked EXCEPT ![f] = 0] /\ copy' = [copy EXCEPT ![f] = <<>>]
  /\ unnoticed' = unnoticed \ {f}
  /\ UNCHANGED <<table, answer>>

Removed(f) ==
  /\ f \in exists
  /\ exists' = exists \ {f}
  /\ UNCHANGED <<file, table, acked, copy, answer, unnoticed>>

Commands == {"ReadFile", "WriteFile", "ReadFileIntoMemory", "WriteFileFromMemory"}
Handles == 1..(Len(Configured) + 1)

Next ==
  \/ GetFileTable \/ HostOff
  \/ \E h \in Handles, length \in Lengths :
       \/ \E command \in Commands : Refused(command, h, length)
       \/ ReadFile(h, length)
       \/ WriteFile(h, length)
       \/ \E k \in 0..Operations(MaxFile) :
            ReadFileIntoMemory(h, length, k) \/ WriteFileFromMemory(h, length, k)
  \/ \E f \in Files, length \in Lengths :
       \/ ReadFileByType(f, length)
       \/ \E k \in 0..Operations(MaxFile) : ReadFileByTypeIntoMemory(f, length, k)
  \/ \E f \in Files : Created(f) \/ Removed(f)

Spec == Init /\ [][Next]_vars

(***************************************************************************)
(* What the host believes written is in the file at its place, and what it *)
(* believes read is what the file held or what was written over it while   *)
(* it read, whichever commands it mixes, wherever a transfer is cut and    *)
(* although a read by type may be answered with too small a length; unless *)
(* a read or a write of that file fell short where nothing looks at it:    *)
(* the code answers SUCCESS for the whole length then.                     *)
(***************************************************************************)
Exact(f) ==
  /\ SubSeq(file[f], 1, acked[f]) = SubSeq(HostBuffer, 1, acked[f])
  /\ \A i \in DOMAIN copy[f] : copy[f][i] \in {Old(i), New(i)}
  /\ \A i \in DOMAIN file[f] : file[f][i] \in {Old(i), New(i)}

TransfersExact == \A f \in Files \ unnoticed : Exact(f)

\* What SUCCESS tells the host, which the code does not keep: writeFile on a
\* full disk.
SuccessIsExact == \A f \in Files : Exact(f)

-----------------------------------------------------------------------------
\* Inductive: what the host believes written is no longer than its buffer and
\* than the file, so that no write leaves a gap.
FileIoTypes ==
  /\ file \in [Files -> Seq(Nat)] /\ copy \in [Files -> Seq(Nat)]
  /\ exists \in SUBSET Files /\ table \in Seq(Files)
  /\ acked \in [Files -> 0..MaxFile]

FileIoInv ==
  /\ FileIoTypes
  /\ \A f \in Files \ unnoticed : acked[f] <= Len(file[f])
  /\ TransfersExact
=============================================================================
