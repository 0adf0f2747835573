----------------------------- MODULE PdrRetrieval -----------------------------
(***************************************************************************)
(* What initTerminus of platform-mc/platform_manager.cpp reads from a      *)
(* terminus: getFRURecordTables, its FRU table part by part, and then      *)
(* getPDRs, its PDR repository record by record and part by part.  The     *)
(* record handles of the device are 1..NumRecords, a part is one unit of   *)
(* size, and numbers have the values 0..MaxUint, the last standing for the *)
(* largest uint32_t.                                                       *)
(***************************************************************************)
EXTENDS Naturals, Sequences

CONSTANTS
  FruParts, \* parts of the FRU record table of the device, 0 if it has none
  Parts,    \* Parts[r]: the parts of record r of the device
  MaxUint,
  DeviceMayErr \* may the device answer with an error completion code?

VARIABLES
  fru,        \* getFRURecordTables: [pc, handle, received], and fruData
  retrieval,  \* the locals of getPDRs that do not come from a response
  answer,     \* the out-parameters of getPDR, as the last response left them
  pdrs,       \* Terminus::pdrs
  faults      \* error completion codes received so far: none, info or pdr

vars == <<fru, retrieval, answer, pdrs, faults>>

NumRecords == Len(Parts)
Plus1(n) == (n + 1) % (MaxUint + 1)
Smaller(m, n) == IF m < n THEN m ELSE n
LargestRecord == CHOOSE n \in {Parts[r] : r \in 1..NumRecords} :
                   \A r \in 1..NumRecords : Parts[r] <= n

Init ==
  /\ fru = [pc |-> "metadata", handle |-> 0, received |-> <<>>, fruData |-> <<>>]
  /\ retrieval = [pc |-> "info", recordHndl |-> 0, recordCount |-> MaxUint,
                  largestRecordSize |-> MaxUint, received |-> 0, pdr |-> <<>>]
  /\ answer = [nextRecordHndl |-> 0, nextDataTransferHndl |-> 0,
               transferFlag |-> "start", data |-> <<>>]
  /\ pdrs = <<>>
  /\ faults = {}

-----------------------------------------------------------------------------
\* getFRURecordTableMetadata; a failure, an error completion code and a table
\* without records all go on to the PDRs.
FruMetadata ==
  /\ fru.pc = "metadata"
  /\ \/ fru' = [fru EXCEPT !.pc = "done"]
     \/ FruParts > 0 /\ fru' = [fru EXCEPT !.pc = "table"]
  /\ UNCHANGED <<retrieval, answer, pdrs, faults>>

\* The part of the FRU table (external) the request asks for: the first one,
\* then the one the last response named.
FruPart == IF fru.handle = 0 THEN 1 ELSE fru.handle
FruLast == FruPart = FruParts

Received == Append(fru.received, FruPart)

\* getFRURecordTable: a part is appended; a failure and an error completion
\* code end the retrieval without data.
GetFRURecordTable ==
  /\ fru.pc = "table"
  /\ fru' = CASE ~FruLast -> [fru EXCEPT !.handle = FruPart + 1, !.received = Received]
              [] FruLast -> [fru EXCEPT !.pc = "done", !.fruData = Received]
  /\ UNCHANGED <<retrieval, answer, pdrs, faults>>

GetFRURecordTableFails ==
  /\ fru.pc = "table"
  /\ fru' = [fru EXCEPT !.pc = "done"]
  /\ UNCHANGED <<retrieval, answer, pdrs, faults>>

-----------------------------------------------------------------------------
\* recordCount and largestRecordSize, one more than the device says
Limits(count, largest) ==
  retrieval' = [retrieval EXCEPT !.pc = "first",
                  !.recordCount = Smaller(Plus1(count), MaxUint),
                  !.largestRecordSize = Smaller(Plus1(largest), MaxUint)]

\* GetPDRRepositoryInfo.  An error completion code leaves the defaults and is
\* not reported: getPDRRepositoryInfo returns the result of decoding.
RepositoryInfo ==
  /\ fru.pc = "done" /\ retrieval.pc = "info"
  /\ \/ /\ retrieval' = [retrieval EXCEPT !.pc = "first"] \* failed, unsupported
        /\ UNCHANGED faults
     \/ /\ Limits(NumRecords, LargestRecord)
        /\ UNCHANGED faults
     \/ /\ retrieval' = [retrieval EXCEPT !.pc = "notReady"] \* being updated
        /\ UNCHANGED faults
     \/ /\ DeviceMayErr
        /\ Limits(MaxUint, MaxUint)
        /\ faults' = faults \cup {"info"}
  /\ UNCHANGED <<fru, answer, pdrs>>

\* The device (external) sends part k of the record the request names.
Record == IF retrieval.recordHndl = 0 THEN 1 ELSE retrieval.recordHndl
PartsOfRecord == IF Record \in DOMAIN Parts THEN Parts[Record] ELSE 0
Part(k) ==
  LET last == k = PartsOfRecord
  IN  [nextRecordHndl |-> IF Record = NumRecords THEN 0 ELSE Record + 1,
       nextDataTransferHndl |-> IF last THEN 0 ELSE k + 1,
       transferFlag |-> IF k = 1 THEN (IF last THEN "startAndEnd" ELSE "start")
                                 ELSE (IF last THEN "end" ELSE "middle"),
       data |-> <<Record, k>>]
Requested == IF retrieval.pc = "first" THEN 1 ELSE answer.nextDataTransferHndl

\* getPDR: the new out-parameters.  With an error completion code they keep
\* their values, and success is returned.
GetPDR(a) ==
  /\ retrieval.pc \in {"first", "next"}
  /\ \/ /\ Requested \in 1..PartsOfRecord
        /\ a = Part(Requested)
        /\ UNCHANGED faults
     \/ /\ DeviceMayErr \/ Requested \notin 1..PartsOfRecord
        /\ a = answer
        /\ faults' = faults \cup {"pdr"}
  /\ answer' = a

\* The request failed: what was read is dropped.
GetPDRFails ==
  /\ retrieval.pc \in {"first", "next"}
  /\ retrieval' = [retrieval EXCEPT !.pc = "failed"]
  /\ pdrs' = <<>>
  /\ UNCHANGED <<fru, answer, faults>>

MoreRecords(a, received) ==
  a.nextRecordHndl # 0 /\ received < retrieval.recordCount

\* Mutant for WholeRepositoryRead: the next handle is counted up.
MutNextRecord(a, h) ==
  LET received == Plus1(retrieval.received)
  IN  retrieval' = [retrieval EXCEPT
        !.pc = IF MoreRecords(a, received) THEN "first" ELSE "done",
        !.recordHndl = Plus1(@), !.received = received, !.pdr = <<>>]

\* The end of the outer loop's body, with record handle h for the next one
NextRecord(a, h) ==
  LET received == Plus1(retrieval.received)
  IN  retrieval' = [retrieval EXCEPT
        !.pc = IF MoreRecords(a, received) THEN "first" ELSE "done",
        !.recordHndl = h, !.received = received, !.pdr = <<>>]

FirstPart ==
  \E a \in {answer, Part(1)} :
    /\ retrieval.pc = "first" /\ GetPDR(a) /\ UNCHANGED fru
    /\ IF a.transferFlag = "startAndEnd"
         THEN /\ pdrs' = Append(pdrs, <<a.data>>)
              /\ NextRecord(a, a.nextRecordHndl)
         ELSE /\ retrieval' = [retrieval EXCEPT !.pc = "next", !.pdr = <<a.data>>]
              /\ UNCHANGED pdrs

NextPart ==
  \E a \in {answer} \cup {Part(k) : k \in 1..PartsOfRecord} :
    LET pdr == Append(retrieval.pdr, a.data)
        ended == a.transferFlag = "end"
    IN  /\ retrieval.pc = "next" /\ GetPDR(a) /\ UNCHANGED fru
        /\ pdrs' = IF ended THEN Append(pdrs, pdr) ELSE pdrs
        /\ IF a.nextDataTransferHndl # 0
              /\ Len(pdr) < retrieval.largestRecordSize
             THEN retrieval' = [retrieval EXCEPT !.pdr = pdr,
                    !.recordHndl = IF ended THEN a.nextRecordHndl ELSE @]
             ELSE NextRecord(a, IF ended THEN a.nextRecordHndl
                                         ELSE retrieval.recordHndl)

Next ==
  \/ FruMetadata \/ GetFRURecordTable \/ GetFRURecordTableFails
  \/ RepositoryInfo \/ FirstPart \/ NextPart \/ GetPDRFails

Spec == Init /\ [][Next]_vars /\ WF_vars(Next)

-----------------------------------------------------------------------------
Device == [r \in 1..NumRecords |-> [k \in 1..Parts[r] |-> <<r, k>>]]

\* A retrieval that ends without error has every record of the device once,
\* in order and with all its parts, and one that failed leaves none, provided
\* that no response carried an error completion code: the limits of one more
\* than the device's record count and largest size never cut a record off.
\* The FRU table is kept with all its parts in order or not at all.
WholeRepositoryRead ==
  /\ fru.fruData \in {<<>>, [k \in 1..FruParts |-> k]}
  /\ faults = {} =>
       /\ retrieval.pc = "done" => pdrs = Device
       /\ retrieval.pc = "failed" => pdrs = <<>>

\* platform_manager.hpp:42-46 "Fetch all PDRs from terminus": the same with
\* devices that answer an error completion code.
FetchesAllPDRs == retrieval.pc = "done" => pdrs = Device

-----------------------------------------------------------------------------
\* The inductive invariant that WholeRepositoryRead needs.
FetchTypes ==
  /\ retrieval \in [pc : {"info", "notReady", "first", "next", "done", "failed"},
                    recordHndl : Nat, recordCount : 0..MaxUint,
                    largestRecordSize : 0..MaxUint, received : Nat, pdr : Seq(Seq(Nat))]
  /\ answer \in [nextRecordHndl : Nat, nextDataTransferHndl : Nat,
                 transferFlag : {"start", "middle", "end", "startAndEnd"}, data : Seq(Nat)]
  /\ fru \in [pc : {"metadata", "table", "done"}, handle : 0..FruParts,
              received : Seq(Nat), fruData : {<<>>, [k \in 1..FruParts |-> k]}]
  /\ fru.pc = "metadata" => fru.handle = 0 /\ fru.received = <<>>

\* The next part of the FRU table is the one asked for.
FruInOrder ==
  fru.pc = "table" =>
    FruPart <= FruParts /\ fru.received = [k \in 1..FruPart - 1 |-> k]

\* The limits are beyond what the device has.
LimitsSuffice ==
  /\ NumRecords < retrieval.recordCount
  /\ \A r \in 1..NumRecords : Parts[r] < retrieval.largestRecordSize

\* The records before the present one are whole, and of it the first parts.
RecordsInOrder ==
  /\ retrieval.pc \in {"info", "notReady", "failed"} => pdrs = <<>>
  /\ retrieval.pc = "info" => retrieval.recordHndl = 0 /\ retrieval.received = 0
  /\ retrieval.pc \in {"first", "next"} =>
       /\ Record <= NumRecords /\ retrieval.received = Record - 1
       /\ pdrs = [r \in 1..Record - 1 |-> Device[r]]
  /\ retrieval.pc = "next" =>
       \E n \in 1..PartsOfRecord - 1 :
         /\ retrieval.pdr = [k \in 1..n |-> <<Record, k>>]
         /\ answer.nextDataTransferHndl = n + 1
  /\ retrieval.pc = "done" => pdrs = Device

FetchInv ==
  /\ FetchTypes /\ FruInOrder
  /\ faults = {} =>
       /\ retrieval.pc \in {"info", "first", "next"} => LimitsSuffice
       /\ RecordsInOrder
=============================================================================
