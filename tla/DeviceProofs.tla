---------------------------- MODULE DeviceProofs -----------------------------
(***************************************************************************)
(* What the runs of MCComponents check of the components of                *)
(* DeviceComponents, proved for every value of their constants.  Each      *)
(* component has an inductive invariant in its own module (FetchInv,       *)
(* PollInv, ...), which the lemmas <component>Init and <component>Next     *)
(* establish and keep.  What folds over alarms, PDRs and lengths compute   *)
(* is derived from FoldInduction, with their step as its operator.         *)
(***************************************************************************)
EXTENDS DeviceComponents, FiniteSetTheorems, SequenceTheorems, TLAPS

\* Of the intervals below the elements of T one is least.
LEMMA LeastNat ==
  ASSUME NEW T, T \subseteq Nat, T # {}
  PROVE  \E x \in T : \A y \in T : x <= y
<1>1. PICK n \in T : TRUE
  OBVIOUS
<1> DEFINE F == {0..m : m \in {k \in T : k <= n}}
           R == StrictSubsetOrdering(0..n)
<1>2. F # {} /\ F \subseteq SUBSET (0..n)
  OBVIOUS
<1>3. IsWellFoundedOn(R, SUBSET (0..n))
  <2>1. IsFiniteSet(0..n)
    BY n \in Int, 0 \in Int, FS_Interval
  <2>2. FiniteSubsetsOf(0..n) = SUBSET (0..n)
    BY <2>1, FS_FiniteSubsetsOfFinite
  <2> QED
    BY <2>2, FS_StrictSubsetOrderingWellFounded
<1>4. PICK I \in F : \A J \in F : ~(<<J, I>> \in R)
  <2> HIDE DEF F, R
  <2> QED
    BY <1>2, <1>3, WFMin
<1>5. PICK x \in T : x <= n /\ I = 0..x
  OBVIOUS
<1>6. ASSUME NEW y \in T, y < x
      PROVE  FALSE
  <2>1. 0..y \in F /\ 0..y \subseteq I /\ x \in I /\ x \notin 0..y
    BY <1>5, <1>6
  <2>2. <<0..y, I>> \in R
    BY <1>2, <1>5, <2>1 DEF StrictSubsetOrdering
  <2> QED
    BY <1>4, <2>1, <2>2
<1> QED
  BY <1>5, <1>6

\* Max and Min of FiniteSetsExt are these choices.
LEMMA LargestOf ==
  ASSUME NEW n \in Nat, NEW S \in SUBSET (0..n), S # {}
  PROVE  (CHOOSE x \in S : \A y \in S : x >= y) \in S
<1> DEFINE T == {k \in Nat : n - k \in S}
<1>1. T # {}
  <2>1. PICK s \in S : TRUE
    OBVIOUS
  <2>2. n - s \in Nat /\ n - (n - s) = s
    OBVIOUS
  <2> QED
    BY <2>1, <2>2
<1>2. PICK k \in T : \A m \in T : k <= m
  BY <1>1, LeastNat
<1>3. \A s \in S : n - k >= s
  <2> SUFFICES ASSUME NEW s \in S
               PROVE  n - k >= s
    OBVIOUS
  <2>1. n - s \in Nat /\ n - (n - s) = s
    OBVIOUS
  <2> QED
    BY <1>2, <2>1
<1> QED
  BY <1>2, <1>3

LEMMA SmallestOf ==
  ASSUME NEW S \in SUBSET Nat, S # {}
  PROVE  /\ (CHOOSE x \in S : \A y \in S : x =< y) \in S
         /\ \A z \in S : (CHOOSE x \in S : \A y \in S : x =< y) <= z
  BY LeastNat

\* Each step is one of the component that runs.
LEMMA StepsOfOne ==
  /\ FetchStep => Only("fetch")
  /\ PollStep => Only("poll")
  /\ NumericStep => Only("numeric")
  /\ SensorPdrsStep => Only("sensors")
  /\ FollowStep => Only("follow")
  /\ ItemsStep => Only("item")
  /\ PackageStep => Only("package")
  BY DEF FetchStep, PollStep, NumericStep, SensorPdrsStep, FollowStep,
    ItemsStep, PackageStep

\* Only its own steps and steps that stutter concern a component.
LEMMA OthersElsewhere ==
  ASSUME [DeviceNext]_vars
  PROVE  /\ component' = "fetch" => component = "fetch" /\ (FetchStep \/ UNCHANGED vars)
         /\ component' = "poll" => component = "poll" /\ (PollStep \/ UNCHANGED vars)
         /\ component' = "numeric" => component = "numeric" /\ (NumericStep \/ UNCHANGED vars)
         /\ component' = "sensors" => component = "sensors" /\ (SensorPdrsStep \/ UNCHANGED vars)
         /\ component' = "follow" => component = "follow" /\ (FollowStep \/ UNCHANGED vars)
         /\ component' = "item" => component = "item" /\ (ItemsStep \/ UNCHANGED vars)
         /\ component' = "package" => component = "package" /\ (PackageStep \/ UNCHANGED vars)
  BY StepsOfOne DEF DeviceNext, vars, Only

-----------------------------------------------------------------------------
\* PdrRetrieval: v1 is fru, v2 is retrieval, v3 is answer, v4 is pdrs, v5
\* is faults.

LEMMA PartsKnown ==
  /\ Fetch!NumRecords \in Nat \ {0} /\ MaxUint \in Nat /\ Fetch!NumRecords < MaxUint
       /\ FruParts \in Nat
  /\ DOMAIN PdrParts = 1..Fetch!NumRecords
  /\ \A r \in 1..Fetch!NumRecords : PdrParts[r] \in Nat \ {0} /\ PdrParts[r] < MaxUint
<1>1. PdrParts \in Seq(Nat \ {0}) /\ PdrParts # <<>> /\ Fetch!NumRecords = Len(PdrParts)
  BY FetchAssumption DEF Fetch!NumRecords
<1> QED
  BY <1>1, FetchAssumption

\* Counting wraps around at MaxUint only.
LEMMA Counted ==
  ASSUME NEW n \in Nat
  PROVE  Fetch!Plus1(n) \in 0..MaxUint /\ (n < MaxUint => Fetch!Plus1(n) = n + 1)
<1>1. n + 1 \in Nat /\ MaxUint + 1 \in Nat \ {0} /\ MaxUint \in Nat
  BY PartsKnown
<1>2. \A a \in Nat, b \in Nat \ {0} : a % b \in 0..b - 1 /\ (a < b => a % b = a)
  OBVIOUS
<1>3. Fetch!Plus1(n) \in 0..(MaxUint + 1) - 1 /\ (n + 1 < MaxUint + 1 => Fetch!Plus1(n) = n + 1)
  BY <1>1, <1>2 DEF Fetch!Plus1
<1> QED
  BY <1>1, <1>3

\* The largest record of the device is known and fits.
LEMMA LargestKnown ==
  Fetch!LargestRecord \in Nat /\ Fetch!LargestRecord < MaxUint
    /\ \A r \in 1..Fetch!NumRecords : PdrParts[r] <= Fetch!LargestRecord
<1> DEFINE S == {PdrParts[r] : r \in 1..Fetch!NumRecords}
           U == {m \in Nat : \A r \in 1..Fetch!NumRecords : PdrParts[r] <= m}
<1>1. MaxUint \in U
  BY PartsKnown
<1>2. PICK u \in U : \A m \in U : u <= m
  <2> HIDE DEF U
  <2>1. U \subseteq Nat
    BY DEF U
  <2> QED
    BY <1>1, <2>1, LeastNat
<1>3. u \in S
  <2> SUFFICES ASSUME u \notin S
               PROVE  FALSE
    OBVIOUS
  <2>1. u - 1 \in Nat
    <3>1. 1 \in 1..Fetch!NumRecords /\ PdrParts[1] \in Nat \ {0} /\ PdrParts[1] <= u
      BY <1>2, PartsKnown
    <3> QED
      BY <1>2, <3>1
  <2>2. \A r \in 1..Fetch!NumRecords : PdrParts[r] <= u - 1
    BY <1>2, <2>1, PartsKnown
  <2> QED
    BY <1>2, <2>1, <2>2
<1>4. \E n \in S : \A r \in 1..Fetch!NumRecords : PdrParts[r] <= n
  BY <1>2, <1>3
<1>5. Fetch!LargestRecord \in S /\ \A r \in 1..Fetch!NumRecords : PdrParts[r] <= Fetch!LargestRecord
  <2> HIDE DEF S
  <2>1. Fetch!LargestRecord = CHOOSE n \in S : \A r \in 1..Fetch!NumRecords : PdrParts[r] <= n
    BY DEF Fetch!LargestRecord, S
  <2> QED
    BY <1>4, <2>1
<1> QED
  BY <1>5, PartsKnown

LEMMA FetchInit == Fetch!Init => Fetch!FetchInv
<1> SUFFICES ASSUME Fetch!Init
             PROVE  Fetch!FetchInv
  OBVIOUS
<1>1. v2 \in [pc : {"info", "notReady", "first", "next", "done", "failed"},
                    recordHndl : Nat, recordCount : 0..MaxUint,
                    largestRecordSize : 0..MaxUint, received : Nat, pdr : Seq(Seq(Nat))]
  BY PartsKnown DEF Fetch!Init
<1>2. v3 \in [nextRecordHndl : Nat, nextDataTransferHndl : Nat,
                 transferFlag : {"start", "middle", "end", "startAndEnd"}, data : Seq(Nat)]
  BY DEF Fetch!Init
<1>3. v1 \in [pc : {"metadata", "table", "done"}, handle : 0..FruParts,
               received : Seq(Nat), fruData : {<<>>, [k \in 1..FruParts |-> k]}]
  BY PartsKnown DEF Fetch!Init
<1>4. Fetch!FetchTypes /\ Fetch!FruInOrder
  BY <1>1, <1>2, <1>3 DEF Fetch!Init, Fetch!FetchTypes, Fetch!FruInOrder
<1>5. Fetch!LimitsSuffice /\ Fetch!RecordsInOrder
  BY PartsKnown DEF Fetch!Init, Fetch!LimitsSuffice, Fetch!RecordsInOrder
<1> QED
  BY <1>4, <1>5 DEF Fetch!FetchInv

\* The FRU table and the limits are read before the records.
LEMMA FruStays ==
  ASSUME Fetch!FetchInv,
           Fetch!FruMetadata \/ Fetch!GetFRURecordTable \/ Fetch!GetFRURecordTableFails
  PROVE  Fetch!FetchInv'
<1>0. Fetch!FetchTypes /\ Fetch!FruInOrder
  BY DEF Fetch!FetchInv
<1>1. UNCHANGED <<v2, v3, v4, v5>>
  BY DEF Fetch!FruMetadata, Fetch!GetFRURecordTable,
    Fetch!GetFRURecordTableFails
<1> DEFINE Frus == [pc : {"metadata", "table", "done"}, handle : 0..FruParts,
                    received : Seq(Nat), fruData : {<<>>, [k \in 1..FruParts |-> k]}]
<1>2. v1' \in Frus /\ (v1'.pc = "metadata" => v1'.handle = 0 /\ v1'.received = <<>>)
      /\ Fetch!FruInOrder'
  <2>0. v1 \in Frus
    BY <1>0 DEF Fetch!FetchTypes
  <2>1. CASE v1' = [v1 EXCEPT !.pc = "done"]
    BY <2>0, <2>1 DEF Fetch!FruInOrder
  <2>2. CASE v1.pc = "metadata" /\ FruParts > 0 /\ v1' = [v1 EXCEPT !.pc = "table"]
    <3>1. v1'.handle = 0 /\ v1'.received = <<>> /\ v1'.pc = "table"
      BY <1>0, <2>0, <2>2 DEF Fetch!FetchTypes
    <3>2. Fetch!FruInOrder'
      BY <2>2, <3>1, PartsKnown DEF Fetch!FruInOrder, Fetch!FruPart
    <3> QED
      BY <2>0, <2>2, <3>1, <3>2
  <2>3. CASE Fetch!GetFRURecordTable
    <3> DEFINE p == Fetch!FruPart
    <3>1. p \in 1..FruParts /\ v1.received = [k \in 1..p - 1 |-> k]
      <4>1. v1.handle \in 0..FruParts
        BY <2>0
      <4> QED
        BY <1>0, <2>3, <4>1, PartsKnown DEF Fetch!GetFRURecordTable,
          Fetch!FruInOrder, Fetch!FruPart
    <3>2. Fetch!Received = [k \in 1..p |-> k] /\ Fetch!Received \in Seq(Nat)
      BY <3>1, PartsKnown DEF Fetch!Received
    <3>3. CASE p = FruParts
      <4>1. v1' = [v1 EXCEPT !.pc = "done", !.fruData = Fetch!Received]
        BY <2>3, <3>3 DEF Fetch!GetFRURecordTable, Fetch!FruLast
      <4>2. Fetch!Received \in {<<>>, [k \in 1..FruParts |-> k]}
        BY <3>2, <3>3
      <4>3. v1' \in Frus /\ v1'.pc = "done"
        BY <2>0, <4>1, <4>2
      <4> QED
        BY <4>3 DEF Fetch!FruInOrder
    <3>4. CASE p # FruParts
      <4>1. v1' = [v1 EXCEPT !.handle = p + 1, !.received = Fetch!Received]
        BY <2>3, <3>4 DEF Fetch!GetFRURecordTable, Fetch!FruLast
      <4>2. p + 1 \in 1..FruParts
        BY <3>1, <3>4, PartsKnown
      <4>3. v1' \in Frus /\ v1'.pc = "table" /\ v1'.handle = p + 1 /\ v1'.received = Fetch!Received
        <5>1. p + 1 \in 0..FruParts
          BY <4>2, PartsKnown
        <5>2. v1.pc = "table"
          BY <2>3 DEF Fetch!GetFRURecordTable
        <5> HIDE DEF p
        <5> QED
          BY <2>0, <3>2, <4>1, <5>1, <5>2
      <4>4. Fetch!FruPart' = p + 1 /\ (p + 1) - 1 = p /\ p + 1 <= FruParts
        BY <3>1, <4>2, <4>3, PartsKnown DEF Fetch!FruPart
      <4>5. Fetch!FruInOrder'
        BY <3>2, <4>3, <4>4 DEF Fetch!FruInOrder
      <4> QED
        BY <4>3, <4>5
    <3> QED
      BY <3>3, <3>4
  <2> QED
    BY <2>1, <2>2, <2>3 DEF Fetch!FruMetadata, Fetch!GetFRURecordTableFails
<1>3. Fetch!FetchTypes'
  BY <1>0, <1>1, <1>2 DEF Fetch!FetchTypes
<1>4. (Fetch!LimitsSuffice => Fetch!LimitsSuffice') /\ (Fetch!RecordsInOrder
        => Fetch!RecordsInOrder')
  BY <1>1 DEF Fetch!LimitsSuffice, Fetch!RecordsInOrder, Fetch!Record,
    Fetch!PartsOfRecord
<1> QED
  BY <1>1, <1>2, <1>3, <1>4 DEF Fetch!FetchInv

LEMMA LimitsStay ==
  ASSUME Fetch!FetchInv, Fetch!RepositoryInfo
  PROVE  Fetch!FetchInv'
<1>0. Fetch!FetchTypes /\ Fetch!FruInOrder
  BY DEF Fetch!FetchInv
<1>1. v2.pc = "info" /\ UNCHANGED <<v1, v3, v4>>
  BY DEF Fetch!RepositoryInfo
<1> DEFINE Retrievals ==
      [pc : {"info", "notReady", "first", "next", "done", "failed"},
       recordHndl : Nat, recordCount : 0..MaxUint,
       largestRecordSize : 0..MaxUint, received : Nat, pdr : Seq(Seq(Nat))]
<1>2. ASSUME v2' \in Retrievals, v2'.pc \in {"first", "notReady"},
             v2'.recordHndl = v2.recordHndl,
             v2'.received = v2.received,
             v5' = {} => v5 = {},
             v5' = {} /\ v2'.pc = "first" => Fetch!LimitsSuffice'
      PROVE  Fetch!FetchInv'
  <2>1. Fetch!FetchTypes' /\ Fetch!FruInOrder'
    BY <1>0, <1>1, <1>2 DEF Fetch!FetchTypes, Fetch!FruInOrder, Fetch!FruPart
  <2>2. ASSUME v5' = {}
        PROVE  Fetch!RecordsInOrder'
    <3>0. Fetch!RecordsInOrder
      BY <1>2, <2>2 DEF Fetch!FetchInv
    <3>1. v4' = <<>> /\ v2'.recordHndl = 0 /\ v2'.received = 0
      BY <1>1, <1>2, <3>0 DEF Fetch!RecordsInOrder
    <3>2. Fetch!Record' = 1 /\ 1 <= Fetch!NumRecords /\ 1 - 1 = 0
      BY <3>1, PartsKnown DEF Fetch!Record
    <3>3. [r \in 1..1 - 1 |-> Fetch!Device[r]] = <<>>
      OBVIOUS
    <3>4. [r \in 1..Fetch!Record' - 1 |-> Fetch!Device'[r]] = <<>>
      BY <3>2, <3>3 DEF Fetch!Device
    <3> QED
      BY <1>2, <3>1, <3>2, <3>4 DEF Fetch!RecordsInOrder
  <2>3. v5' = {} => (v2'.pc \in {"info", "first", "next"} => Fetch!LimitsSuffice')
    <3>1. v2'.pc \in {"info", "first", "next"} => v2'.pc = "first"
      BY <1>2
    <3> QED
      BY <1>2, <3>1
  <2> QED
    BY <2>1, <2>2, <2>3 DEF Fetch!FetchInv
<1>3. v2 \in Retrievals
  BY <1>0 DEF Fetch!FetchTypes
<1>4. ASSUME NEW count \in 0..MaxUint, NEW largest \in 0..MaxUint, Fetch!Limits(count, largest)
      PROVE  /\ v2' \in Retrievals /\ v2'.pc = "first"
             /\ v2'.recordHndl = v2.recordHndl
             /\ v2'.received = v2.received
             /\ v2'.recordCount = Fetch!Smaller(Fetch!Plus1(count), MaxUint)
             /\ v2'.largestRecordSize = Fetch!Smaller(Fetch!Plus1(largest), MaxUint)
  <2> DEFINE c == Fetch!Smaller(Fetch!Plus1(count), MaxUint)
             l == Fetch!Smaller(Fetch!Plus1(largest), MaxUint)
  <2>1. c \in 0..MaxUint /\ l \in 0..MaxUint
    <3>1. count \in Nat /\ largest \in Nat
      BY PartsKnown
    <3>2. Fetch!Plus1(count) \in 0..MaxUint /\ Fetch!Plus1(largest) \in 0..MaxUint
      BY <3>1, Counted
    <3> QED
      BY <3>2, PartsKnown DEF Fetch!Smaller
  <2>2. v2' = [v2 EXCEPT !.pc = "first", !.recordCount = c, !.largestRecordSize = l]
    BY <1>4 DEF Fetch!Limits
  <2> HIDE DEF c, l
  <2>3. /\ v2' \in Retrievals /\ v2'.pc = "first"
        /\ v2'.recordHndl = v2.recordHndl
        /\ v2'.received = v2.received
        /\ v2'.recordCount = c /\ v2'.largestRecordSize = l
    BY <1>3, <2>1, <2>2
  <2> QED
    BY <2>3 DEF c, l
<1>5. CASE v2' = [v2 EXCEPT !.pc = "first"] /\ UNCHANGED v5
  <2>1. /\ v2' \in Retrievals /\ v2'.pc = "first"
        /\ v2'.recordHndl = v2.recordHndl
        /\ v2'.received = v2.received
        /\ v2'.recordCount = v2.recordCount
        /\ v2'.largestRecordSize = v2.largestRecordSize
    BY <1>3, <1>5
  <2> QED
    BY <1>1, <1>2, <1>5, <2>1 DEF Fetch!FetchInv, Fetch!LimitsSuffice
<1>6. CASE Fetch!Limits(Fetch!NumRecords, Fetch!LargestRecord) /\ UNCHANGED v5
  <2>1. Fetch!NumRecords \in 0..MaxUint /\ Fetch!LargestRecord \in 0..MaxUint
    BY PartsKnown, LargestKnown
  <2>2. /\ Fetch!Smaller(Fetch!Plus1(Fetch!NumRecords), MaxUint) = Fetch!NumRecords + 1
        /\ Fetch!Smaller(Fetch!Plus1(Fetch!LargestRecord), MaxUint) = Fetch!LargestRecord + 1
    <3>1. Fetch!Plus1(Fetch!NumRecords) = Fetch!NumRecords + 1
            /\ Fetch!Plus1(Fetch!LargestRecord) = Fetch!LargestRecord + 1
      BY PartsKnown, LargestKnown, Counted
    <3> QED
      BY <3>1, PartsKnown, LargestKnown DEF Fetch!Smaller
  <2>3. /\ v2' \in Retrievals /\ v2'.pc = "first"
        /\ v2'.recordHndl = v2.recordHndl
        /\ v2'.received = v2.received
        /\ v2'.recordCount = Fetch!NumRecords + 1
        /\ v2'.largestRecordSize = Fetch!LargestRecord + 1
    BY <1>4, <1>6, <2>1, <2>2
  <2>4. Fetch!NumRecords < Fetch!NumRecords + 1
          /\ \A r \in 1..Fetch!NumRecords : PdrParts[r] < Fetch!LargestRecord + 1
    BY PartsKnown, LargestKnown
  <2>5. Fetch!LimitsSuffice'
    BY <2>3, <2>4 DEF Fetch!LimitsSuffice
  <2> QED
    BY <1>2, <1>6, <2>3, <2>5
<1>7. CASE v2' = [v2 EXCEPT !.pc = "notReady"] /\ UNCHANGED v5
  <2>1. /\ v2' \in Retrievals /\ v2'.pc = "notReady"
        /\ v2'.recordHndl = v2.recordHndl
        /\ v2'.received = v2.received
    BY <1>3, <1>7
  <2> QED
    BY <1>2, <1>7, <2>1
<1>8. CASE Fetch!Limits(MaxUint, MaxUint) /\ v5' = v5 \cup {"info"}
  <2>1. MaxUint \in 0..MaxUint
    BY PartsKnown
  <2> QED
    BY <1>2, <1>4, <1>8, <2>1
<1> QED
  BY <1>5, <1>6, <1>7, <1>8 DEF Fetch!RepositoryInfo

\* What a response carries, whichever part it is of
LEMMA PartTyped ==
  ASSUME Fetch!FetchTypes, NEW k \in Nat
  PROVE  /\ Fetch!Record \in Nat \ {0}
         /\ Fetch!Part(k) \in [nextRecordHndl : Nat, nextDataTransferHndl : Nat,
                         transferFlag : {"start", "middle", "end", "startAndEnd"}, data : Seq(Nat)]
         /\ Fetch!Part(k).nextRecordHndl = IF Fetch!Record = Fetch!NumRecords
              THEN 0 ELSE Fetch!Record + 1
         /\ Fetch!Part(k).nextDataTransferHndl = IF k = Fetch!PartsOfRecord THEN 0 ELSE k + 1
         /\ Fetch!Part(k).data = <<Fetch!Record, k>>
         /\ Fetch!Part(k).transferFlag = "startAndEnd" <=> k = 1 /\ k = Fetch!PartsOfRecord
         /\ Fetch!Part(k).transferFlag = "end" <=> k # 1 /\ k = Fetch!PartsOfRecord
<1>1. Fetch!Record \in Nat \ {0}
  BY DEF Fetch!FetchTypes, Fetch!Record
<1>2. <<Fetch!Record, k>> \in Seq(Nat)
  BY <1>1
<1> DEFINE last == k = Fetch!PartsOfRecord
           flag == IF k = 1 THEN (IF last THEN "startAndEnd" ELSE "start")
                   ELSE (IF last THEN "end" ELSE "middle")
<1>3. Fetch!Part(k) = [nextRecordHndl |-> IF Fetch!Record = Fetch!NumRecords
        THEN 0 ELSE Fetch!Record + 1,
                 nextDataTransferHndl |-> IF last THEN 0 ELSE k + 1,
                 transferFlag |-> flag, data |-> <<Fetch!Record, k>>]
  BY DEF Fetch!Part
<1>4. flag \in {"start", "middle", "end", "startAndEnd"}
  OBVIOUS
<1> QED
  BY <1>1, <1>2, <1>3, <1>4

\* Without an error completion code the part that was asked for comes.
LEMMA Given ==
  ASSUME NEW a, Fetch!GetPDR(a)
  PROVE  /\ v3' = a
         /\ v5' = {} => v5 = {} /\ Fetch!Requested \in 1..Fetch!PartsOfRecord
              /\ a = Fetch!Part(Fetch!Requested)
  BY DEF Fetch!GetPDR

\* The next record, or the end, after a record that is whole
LEMMA RecordDone ==
  ASSUME Fetch!FetchTypes, Fetch!RecordsInOrder, Fetch!LimitsSuffice, v2.pc \in {"first", "next"},
         NEW a, NEW h, Fetch!NextRecord(a, h),
         a.nextRecordHndl = (IF Fetch!Record = Fetch!NumRecords THEN 0 ELSE Fetch!Record + 1),
         h = a.nextRecordHndl,
         v4' = Append(v4, [k \in 1..Fetch!PartsOfRecord |-> <<Fetch!Record, k>>])
  PROVE  Fetch!RecordsInOrder' /\ Fetch!LimitsSuffice'
<1>1. /\ Fetch!Record \in Nat \ {0} /\ Fetch!Record <= Fetch!NumRecords
           /\ v2.received = Fetch!Record - 1
      /\ v4 = [r \in 1..Fetch!Record - 1 |-> Fetch!Device[r]]
  BY DEF Fetch!RecordsInOrder, Fetch!FetchTypes, Fetch!Record
<1>2. Fetch!PartsOfRecord = PdrParts[Fetch!Record]
        /\ Fetch!Device[Fetch!Record] = [k \in 1..Fetch!PartsOfRecord |-> <<Fetch!Record, k>>]
  <2>1. Fetch!Record \in 1..Fetch!NumRecords
    BY <1>1, PartsKnown
  <2>2. Fetch!PartsOfRecord = PdrParts[Fetch!Record]
    BY <2>1, PartsKnown DEF Fetch!PartsOfRecord
  <2>3. Fetch!Device[Fetch!Record] = [k \in 1..PdrParts[Fetch!Record] |-> <<Fetch!Record, k>>]
    BY <2>1, PartsKnown DEF Fetch!Device
  <2> QED
    BY <2>2, <2>3
<1>3. Fetch!Plus1(v2.received) = Fetch!Record
  <2>1. Fetch!Record - 1 \in Nat /\ Fetch!Record - 1 < MaxUint
    BY <1>1, PartsKnown
  <2> QED
    BY <1>1, <2>1, Counted
<1>4. v4' = [r \in 1..Fetch!Record |-> Fetch!Device[r]]
  <2>1. v4' = Append([r \in 1..Fetch!Record - 1 |-> Fetch!Device[r]], Fetch!Device[Fetch!Record])
    BY <1>1, <1>2
  <2> QED
    BY <1>1, <2>1
<1>5. Fetch!NumRecords < v2.recordCount /\ Fetch!Record < v2.recordCount
  BY <1>1, PartsKnown DEF Fetch!LimitsSuffice, Fetch!FetchTypes
<1>6. Fetch!MoreRecords(a, Fetch!Record) <=> Fetch!Record # Fetch!NumRecords
  BY <1>1, <1>5, PartsKnown DEF Fetch!MoreRecords
<1>7. v2' = [v2 EXCEPT !.pc = IF Fetch!Record # Fetch!NumRecords THEN "first" ELSE "done",
                                    !.recordHndl = h, !.received = Fetch!Record, !.pdr = <<>>]
  BY <1>3, <1>6 DEF Fetch!NextRecord
<1>8. /\ v2'.pc = IF Fetch!Record # Fetch!NumRecords THEN "first" ELSE "done"
      /\ v2'.recordHndl = h /\ v2'.received = Fetch!Record
      /\ v2'.recordCount = v2.recordCount
      /\ v2'.largestRecordSize = v2.largestRecordSize
  BY <1>7 DEF Fetch!FetchTypes
<1>9. Fetch!LimitsSuffice'
  BY <1>8 DEF Fetch!LimitsSuffice
<1>10. CASE Fetch!Record # Fetch!NumRecords
  <2>1. v2'.pc = "first" /\ Fetch!Record' = Fetch!Record + 1 /\ Fetch!Record + 1 <= Fetch!NumRecords
    BY <1>1, <1>8, <1>10, PartsKnown DEF Fetch!Record
  <2>2. (Fetch!Record + 1) - 1 = Fetch!Record
    BY <1>1
  <2>3. v4' = [r \in 1..Fetch!Record' - 1 |-> Fetch!Device'[r]]
    BY <1>4, <2>1, <2>2 DEF Fetch!Device
  <2> QED
    BY <1>8, <1>9, <2>1, <2>2, <2>3 DEF Fetch!RecordsInOrder
<1>11. CASE Fetch!Record = Fetch!NumRecords
  <2>1. v2'.pc = "done"
    BY <1>8, <1>11
  <2>2. v4' = Fetch!Device'
    BY <1>4, <1>11 DEF Fetch!Device
  <2> QED
    BY <1>9, <2>1, <2>2 DEF Fetch!RecordsInOrder
<1> QED
  BY <1>10, <1>11

\* NextRecord keeps the types whatever the device answered.
LEMMA NextRecordTyped ==
  ASSUME Fetch!FetchTypes, NEW a, NEW h \in Nat, Fetch!NextRecord(a, h)
  PROVE  v2' \in [pc : {"info", "notReady", "first", "next", "done", "failed"},
                         recordHndl : Nat, recordCount : 0..MaxUint,
                         largestRecordSize : 0..MaxUint, received : Nat, pdr : Seq(Seq(Nat))]
<1> DEFINE n == Fetch!Plus1(v2.received)
           pc == IF Fetch!MoreRecords(a, n) THEN "first" ELSE "done"
<1>1. n \in Nat
  <2>1. Fetch!Plus1(v2.received) \in 0..MaxUint
    BY Counted DEF Fetch!FetchTypes
  <2> QED
    BY <2>1, PartsKnown
<1>2. v2' = [v2 EXCEPT !.pc = pc, !.recordHndl = h, !.received = n, !.pdr = <<>>]
  BY DEF Fetch!NextRecord
<1>3. pc \in {"first", "done"} /\ <<>> \in Seq(Seq(Nat))
  OBVIOUS
<1> HIDE DEF n, pc
<1> QED
  BY <1>1, <1>2, <1>3 DEF Fetch!FetchTypes

LEMMA FirstPartStays ==
  ASSUME Fetch!FetchInv, Fetch!FirstPart
  PROVE  Fetch!FetchInv'
<1>0. Fetch!FetchTypes /\ Fetch!FruInOrder
  BY DEF Fetch!FetchInv
<1>1. PICK a \in {v3, Fetch!Part(1)} :
        /\ v2.pc = "first" /\ Fetch!GetPDR(a) /\ UNCHANGED v1
        /\ IF a.transferFlag = "startAndEnd"
             THEN /\ v4' = Append(v4, <<a.data>>)
                  /\ Fetch!NextRecord(a, a.nextRecordHndl)
             ELSE /\ v2' = [v2 EXCEPT !.pc = "next", !.pdr = <<a.data>>]
                  /\ UNCHANGED v4
  BY DEF Fetch!FirstPart
<1>2. a \in [nextRecordHndl : Nat, nextDataTransferHndl : Nat,
             transferFlag : {"start", "middle", "end", "startAndEnd"}, data : Seq(Nat)]
  <2>1. CASE a = v3
    BY <1>0, <2>1 DEF Fetch!FetchTypes
  <2>2. CASE a = Fetch!Part(1)
    BY <1>0, <2>2, PartTyped DEF Fetch!FetchTypes
  <2> QED
    BY <1>1, <2>1, <2>2
<1>3. v3' = a
  BY <1>1, Given
<1>4. v2' \in [pc : {"info", "notReady", "first", "next", "done", "failed"},
                      recordHndl : Nat, recordCount : 0..MaxUint,
                      largestRecordSize : 0..MaxUint, received : Nat, pdr : Seq(Seq(Nat))]
  <2>1. CASE a.transferFlag = "startAndEnd"
    BY <1>0, <1>1, <1>2, <2>1, NextRecordTyped
  <2>2. CASE a.transferFlag # "startAndEnd"
    <3>1. <<a.data>> \in Seq(Seq(Nat))
      BY <1>2
    <3> QED
      BY <1>0, <1>1, <2>2, <3>1 DEF Fetch!FetchTypes
  <2> QED
    BY <2>1, <2>2
<1>5. Fetch!FetchTypes' /\ Fetch!FruInOrder'
  BY <1>0, <1>1, <1>2, <1>3, <1>4 DEF Fetch!FetchTypes, Fetch!FruInOrder,
    Fetch!FruPart
<1>6. ASSUME v5' = {}
      PROVE  Fetch!RecordsInOrder' /\ Fetch!LimitsSuffice'
  <2>1. /\ v5 = {} /\ 1 \in 1..Fetch!PartsOfRecord /\ a = Fetch!Part(1)
    BY <1>1, <1>6, Given DEF Fetch!Requested
  <2>2. Fetch!RecordsInOrder /\ Fetch!LimitsSuffice
    BY <1>1, <2>1 DEF Fetch!FetchInv
  <2>3. /\ Fetch!Record \in Nat \ {0} /\ Fetch!Record <= Fetch!NumRecords
        /\ a.nextRecordHndl = IF Fetch!Record = Fetch!NumRecords THEN 0 ELSE Fetch!Record + 1
        /\ a.nextDataTransferHndl = IF 1 = Fetch!PartsOfRecord THEN 0 ELSE 1 + 1
        /\ a.data = <<Fetch!Record, 1>>
        /\ a.transferFlag = "startAndEnd" <=> 1 = Fetch!PartsOfRecord
    BY <1>0, <1>1, <2>1, <2>2, PartTyped DEF Fetch!RecordsInOrder
  <2>4. CASE 1 = Fetch!PartsOfRecord
    <3>1. <<a.data>> = [k \in 1..Fetch!PartsOfRecord |-> <<Fetch!Record, k>>]
      BY <2>3, <2>4
    <3> QED
      BY <1>0, <1>1, <2>2, <2>3, <2>4, <3>1, RecordDone
  <2>5. CASE 1 # Fetch!PartsOfRecord
    <3>1. v2' = [v2 EXCEPT !.pc = "next", !.pdr = <<a.data>>] /\ UNCHANGED v4
      BY <1>1, <2>3, <2>5
    <3>2. /\ v2'.pc = "next" /\ v2'.pdr = <<a.data>>
          /\ v2'.recordHndl = v2.recordHndl
          /\ v2'.received = v2.received
          /\ v2'.recordCount = v2.recordCount
          /\ v2'.largestRecordSize = v2.largestRecordSize
      BY <1>0, <3>1 DEF Fetch!FetchTypes
    <3>3. UNCHANGED <<Fetch!Record, Fetch!PartsOfRecord>>
      BY <3>2 DEF Fetch!Record, Fetch!PartsOfRecord
    <3>4. 1 \in 1..Fetch!PartsOfRecord - 1
      <4>1. Fetch!PartsOfRecord \in Nat
        BY <2>3, PartsKnown DEF Fetch!PartsOfRecord
      <4> QED
        BY <2>1, <2>5, <4>1
    <3>5. <<a.data>> = [k \in 1..1 |-> <<Fetch!Record, k>>]
      BY <2>3
    <3>6. \E n \in 1..Fetch!PartsOfRecord' - 1 :
            /\ v2'.pdr = [k \in 1..n |-> <<Fetch!Record', k>>]
            /\ v3'.nextDataTransferHndl = n + 1
      BY <1>3, <2>3, <2>5, <3>2, <3>3, <3>4, <3>5
    <3>7. /\ Fetch!Record' <= Fetch!NumRecords /\ v2'.received = Fetch!Record' - 1
          /\ v4' = [r \in 1..Fetch!Record' - 1 |-> Fetch!Device'[r]]
      BY <1>1, <2>2, <3>1, <3>2, <3>3 DEF Fetch!RecordsInOrder, Fetch!Device
    <3> QED
      BY <2>2, <3>2, <3>6, <3>7 DEF Fetch!RecordsInOrder, Fetch!LimitsSuffice
  <2> QED
    BY <2>4, <2>5
<1> QED
  BY <1>5, <1>6 DEF Fetch!FetchInv

LEMMA NextPartStays ==
  ASSUME Fetch!FetchInv, Fetch!NextPart
  PROVE  Fetch!FetchInv'
<1>0. Fetch!FetchTypes /\ Fetch!FruInOrder
  BY DEF Fetch!FetchInv
<1>1. PICK a \in {v3} \cup {Fetch!Part(k) : k \in 1..Fetch!PartsOfRecord} :
        LET pdr == Append(v2.pdr, a.data)
            ended == a.transferFlag = "end"
        IN  /\ v2.pc = "next" /\ Fetch!GetPDR(a) /\ UNCHANGED v1
            /\ v4' = IF ended THEN Append(v4, pdr) ELSE v4
            /\ IF a.nextDataTransferHndl # 0
                  /\ Len(pdr) < v2.largestRecordSize
                 THEN v2' = [v2 EXCEPT !.pdr = pdr,
                        !.recordHndl = IF ended THEN a.nextRecordHndl ELSE @]
                 ELSE Fetch!NextRecord(a, IF ended THEN a.nextRecordHndl
                                             ELSE v2.recordHndl)
  BY DEF Fetch!NextPart
<1> DEFINE pdr == Append(v2.pdr, a.data)
           ended == a.transferFlag = "end"
           h == IF ended THEN a.nextRecordHndl ELSE v2.recordHndl
<1>2. a \in [nextRecordHndl : Nat, nextDataTransferHndl : Nat,
             transferFlag : {"start", "middle", "end", "startAndEnd"}, data : Seq(Nat)]
  <2>1. CASE a = v3
    BY <1>0, <2>1 DEF Fetch!FetchTypes
  <2>2. ASSUME NEW k \in 1..Fetch!PartsOfRecord, a = Fetch!Part(k)
        PROVE  a \in [nextRecordHndl : Nat, nextDataTransferHndl : Nat,
                      transferFlag : {"start", "middle", "end", "startAndEnd"}, data : Seq(Nat)]
    <3>1. k \in Nat
      BY <1>0, PartsKnown DEF Fetch!PartsOfRecord
    <3> QED
      BY <1>0, <2>2, <3>1, PartTyped
  <2> QED
    BY <2>1, <2>2
<1>3. v3' = a /\ v2.pc = "next" /\ UNCHANGED v1
  BY <1>1, Given
<1>4. v2' \in [pc : {"info", "notReady", "first", "next", "done", "failed"},
                      recordHndl : Nat, recordCount : 0..MaxUint,
                      largestRecordSize : 0..MaxUint, received : Nat, pdr : Seq(Seq(Nat))]
  <2>1. pdr \in Seq(Seq(Nat)) /\ h \in Nat
    BY <1>0, <1>2 DEF Fetch!FetchTypes
  <2>2. v2' = [v2 EXCEPT !.pdr = pdr, !.recordHndl = h] \/ Fetch!NextRecord(a, h)
    BY <1>1
  <2> HIDE DEF pdr, h
  <2>3. CASE v2' = [v2 EXCEPT !.pdr = pdr, !.recordHndl = h]
    BY <1>0, <2>1, <2>3 DEF Fetch!FetchTypes
  <2> QED
    BY <1>0, <2>1, <2>2, <2>3, NextRecordTyped
<1>5. Fetch!FetchTypes' /\ Fetch!FruInOrder'
  BY <1>0, <1>2, <1>3, <1>4 DEF Fetch!FetchTypes, Fetch!FruInOrder,
    Fetch!FruPart
<1>6. ASSUME v5' = {}
      PROVE  Fetch!RecordsInOrder' /\ Fetch!LimitsSuffice'
  <2>1. v5 = {} /\ Fetch!Requested \in 1..Fetch!PartsOfRecord /\ a = Fetch!Part(Fetch!Requested)
    BY <1>1, <1>6, Given
  <2>2. Fetch!RecordsInOrder /\ Fetch!LimitsSuffice
    BY <1>3, <2>1 DEF Fetch!FetchInv
  <2>3. PICK n \in 1..Fetch!PartsOfRecord - 1 :
          /\ v2.pdr = [k \in 1..n |-> <<Fetch!Record, k>>]
          /\ v3.nextDataTransferHndl = n + 1
    BY <1>3, <2>2 DEF Fetch!RecordsInOrder
  <2>4. /\ Fetch!Record \in Nat \ {0} /\ Fetch!Record <= Fetch!NumRecords
             /\ Fetch!PartsOfRecord = PdrParts[Fetch!Record]
        /\ Fetch!PartsOfRecord \in Nat \ {0} /\ n \in Nat \ {0} /\ n + 1 <= Fetch!PartsOfRecord
    <3>1. Fetch!Record \in Nat \ {0} /\ Fetch!Record <= Fetch!NumRecords
      BY <1>0, <1>3, <2>2 DEF Fetch!RecordsInOrder, Fetch!FetchTypes,
        Fetch!Record
    <3> QED
      BY <2>3, <3>1, PartsKnown DEF Fetch!PartsOfRecord
  <2>5. Fetch!Requested = n + 1
    BY <1>3, <2>3 DEF Fetch!Requested
  <2>6. /\ a.nextRecordHndl = IF Fetch!Record = Fetch!NumRecords THEN 0 ELSE Fetch!Record + 1
        /\ a.nextDataTransferHndl = IF n + 1 = Fetch!PartsOfRecord THEN 0 ELSE n + 2
        /\ a.data = <<Fetch!Record, n + 1>>
        /\ a.transferFlag = "end" <=> n + 1 = Fetch!PartsOfRecord
    <3>1. n + 1 \in Nat /\ n + 1 # 1 /\ (n + 1) + 1 = n + 2
      BY <2>4
    <3> QED
      BY <1>0, <2>1, <2>5, <3>1, PartTyped
  <2>7. pdr = [k \in 1..n + 1 |-> <<Fetch!Record, k>>] /\ Len(pdr) = n + 1
    BY <2>3, <2>4, <2>6
  <2>8. CASE n + 1 = Fetch!PartsOfRecord
    <3>1. /\ v4' = Append(v4, [k \in 1..Fetch!PartsOfRecord |-> <<Fetch!Record, k>>])
          /\ Fetch!NextRecord(a, a.nextRecordHndl)
      BY <1>1, <2>6, <2>7, <2>8
    <3> QED
      BY <1>0, <1>3, <2>2, <2>6, <3>1, RecordDone
  <2>9. CASE n + 1 # Fetch!PartsOfRecord
    <3>1. n + 1 < v2.largestRecordSize
      <4>1. PdrParts[Fetch!Record] < v2.largestRecordSize
        BY <2>2, <2>4 DEF Fetch!LimitsSuffice
      <4> QED
        BY <1>0, <2>4, <4>1 DEF Fetch!FetchTypes
    <3>2. a.nextDataTransferHndl # 0 /\ ~ended
      BY <2>4, <2>6, <2>9
    <3>3. v2' = [v2 EXCEPT !.pdr = pdr, !.recordHndl = v2.recordHndl]
          /\ UNCHANGED v4
      BY <1>1, <2>7, <3>1, <3>2
    <3>4. /\ v2'.pc = "next" /\ v2'.pdr = pdr
          /\ v2'.recordHndl = v2.recordHndl
          /\ v2'.received = v2.received
          /\ v2'.recordCount = v2.recordCount
          /\ v2'.largestRecordSize = v2.largestRecordSize
      <4> HIDE DEF pdr
      <4> QED
        BY <1>0, <1>3, <3>3 DEF Fetch!FetchTypes
    <3>5. UNCHANGED <<Fetch!Record, Fetch!PartsOfRecord>>
      BY <3>4 DEF Fetch!Record, Fetch!PartsOfRecord
    <3>6. \E m \in 1..Fetch!PartsOfRecord' - 1 :
            /\ v2'.pdr = [k \in 1..m |-> <<Fetch!Record', k>>]
            /\ v3'.nextDataTransferHndl = m + 1
      <4>1. n + 1 \in 1..Fetch!PartsOfRecord - 1 /\ (n + 1) + 1 = n + 2
        BY <2>4, <2>9
      <4> QED
        BY <1>3, <2>6, <2>7, <2>9, <3>4, <3>5, <4>1
    <3>7. /\ Fetch!Record' <= Fetch!NumRecords /\ v2'.received = Fetch!Record' - 1
          /\ v4' = [r \in 1..Fetch!Record' - 1 |-> Fetch!Device'[r]]
      BY <1>3, <2>2, <3>3, <3>4, <3>5 DEF Fetch!RecordsInOrder, Fetch!Device
    <3> QED
      BY <2>2, <3>4, <3>6, <3>7 DEF Fetch!RecordsInOrder, Fetch!LimitsSuffice
  <2> QED
    BY <2>8, <2>9
<1> QED
  BY <1>5, <1>6 DEF Fetch!FetchInv

LEMMA FetchNext == Fetch!FetchInv /\ [Fetch!Next]_Fetch!vars => Fetch!FetchInv'
<1> SUFFICES ASSUME Fetch!FetchInv, [Fetch!Next]_Fetch!vars
             PROVE  Fetch!FetchInv'
  OBVIOUS
<1>1. CASE Fetch!GetPDRFails
  <2>1. /\ v2' = [v2 EXCEPT !.pc = "failed"] /\ v4' = <<>>
        /\ UNCHANGED <<v1, v3, v5>>
    BY <1>1 DEF Fetch!GetPDRFails
  <2>2. v2' \in [pc : {"info", "notReady", "first", "next", "done", "failed"},
                        recordHndl : Nat, recordCount : 0..MaxUint,
                        largestRecordSize : 0..MaxUint, received : Nat, pdr : Seq(Seq(Nat))]
        /\ v2'.pc = "failed"
    BY <2>1 DEF Fetch!FetchInv, Fetch!FetchTypes
  <2>3. Fetch!FetchTypes' /\ Fetch!FruInOrder'
    BY <2>1, <2>2 DEF Fetch!FetchInv, Fetch!FetchTypes, Fetch!FruInOrder,
      Fetch!FruPart
  <2> QED
    BY <2>1, <2>2, <2>3 DEF Fetch!FetchInv, Fetch!RecordsInOrder
<1>2. CASE UNCHANGED Fetch!vars
  BY <1>2 DEF Fetch!vars, Fetch!FetchInv, Fetch!FetchTypes, Fetch!FruInOrder,
    Fetch!FruPart, Fetch!LimitsSuffice, Fetch!RecordsInOrder, Fetch!Record,
    Fetch!PartsOfRecord
<1> QED
  BY <1>1, <1>2, FruStays, LimitsStay, FirstPartStays, NextPartStays DEF
    Fetch!Next

LEMMA FetchSafe == Fetch!FetchInv => Fetch!WholeRepositoryRead
  BY DEF Fetch!FetchInv, Fetch!FetchTypes, Fetch!RecordsInOrder,
    Fetch!WholeRepositoryRead

LEMMA FetchStays ==
  (component = "fetch" => Fetch!FetchInv) /\ [DeviceNext]_vars
    => (component = "fetch" => Fetch!FetchInv)'
<1> SUFFICES ASSUME component' = "fetch", [DeviceNext]_vars,
                    component = "fetch" => Fetch!FetchInv
             PROVE  Fetch!FetchInv'
  OBVIOUS
<1>1. CASE FetchStep
  BY <1>1, FetchNext DEF FetchStep, Only
<1>2. CASE UNCHANGED vars
  BY <1>2, FetchNext, OthersElsewhere DEF vars, Fetch!vars
<1> QED
  BY <1>1, <1>2, OthersElsewhere

-----------------------------------------------------------------------------
\* EventPolling: v1 is emitted, v2 is acked, v3 is poll, v4 is pollEvent,
\* v5 is handled.

\* A poll starts, or ends, without a message.
LEMMA Starting ==
  /\ \A op \in {"none", "getFirstPart"} :
       [Poll!NotPolling EXCEPT !.op = op] \in
         [op : {"none", "getFirstPart", "getNextPart", "ack"}, handle : Nat,
          ack : Int, message : Seq(Nat \X Nat), polled : Nat]
  /\ \A op \in {"none", "getFirstPart"} :
       /\ [Poll!NotPolling EXCEPT !.op = op].op = op
       /\ [Poll!NotPolling EXCEPT !.op = op].message = <<>>
  /\ [Poll!NotPolling EXCEPT !.op = "none"] = Poll!NotPolling
<1>1. <<>> \in Seq(Nat \X Nat)
  OBVIOUS
<1>2. \A op : [Poll!NotPolling EXCEPT !.op = op] =
               [op |-> op, handle |-> 0, ack |-> 0, message |-> <<>>, polled |-> 0]
  BY DEF Poll!NotPolling, Poll!NoEvent
<1>3. Poll!NotPolling = [op |-> "none", handle |-> 0, ack |-> 0, message |-> <<>>, polled |-> 0]
  BY DEF Poll!NotPolling, Poll!NoEvent
<1>4. ASSUME NEW op \in {"none", "getFirstPart"}
      PROVE  /\ [Poll!NotPolling EXCEPT !.op = op] \in
                  [op : {"none", "getFirstPart", "getNextPart", "ack"}, handle : Nat,
                   ack : Int, message : Seq(Nat \X Nat), polled : Nat]
             /\ [Poll!NotPolling EXCEPT !.op = op].op = op
             /\ [Poll!NotPolling EXCEPT !.op = op].message = <<>>
  <2> DEFINE p == [Poll!NotPolling EXCEPT !.op = op]
  <2>1. p = [op |-> op, handle |-> 0, ack |-> 0, message |-> <<>>, polled |-> 0]
    BY <1>2
  <2> HIDE DEF p
  <2>2. p.op = op /\ p.message = <<>>
    BY <2>1
  <2>3. p \in [op : {"none", "getFirstPart", "getNextPart", "ack"}, handle : Nat,
              ack : Int, message : Seq(Nat \X Nat), polled : Nat]
    BY <1>1, <2>1
  <2> QED
    BY <2>2, <2>3 DEF p
<1>5. [Poll!NotPolling EXCEPT !.op = "none"] = Poll!NotPolling
  BY <1>2, <1>3
<1> QED
  BY <1>4, <1>5

LEMMA PollInit == Poll!Init => Poll!PollInv
<1> SUFFICES ASSUME Poll!Init
             PROVE  Poll!PollInv
  OBVIOUS
<1>1. Poll!PollTypes
  <2>1. v3 \in [op : {"none", "getFirstPart", "getNextPart", "ack"}, handle : Nat,
                  ack : Int, message : Seq(Nat \X Nat), polled : Nat]
    BY Starting DEF Poll!Init
  <2>2. v5 \in Seq(Seq(Nat \X Nat))
    BY DEF Poll!Init
  <2> QED
    BY <2>1, <2>2, EventPartsAssumption DEF Poll!Init, Poll!PollTypes,
      Poll!NumEvents
<1>2. Poll!PartsInOrder
  BY DEF Poll!Init, Poll!PartsInOrder, Poll!NotPolling
<1>3. Poll!EventsHandledIntact
  <2>1. DOMAIN v5 = {} /\ [k \in (DOMAIN v5) |-> 1] \in [DOMAIN v5 -> 1..Poll!NumEvents]
    BY DEF Poll!Init
  <2> QED
    BY <2>1 DEF Poll!EventsHandledIntact
<1> QED
  BY <1>1, <1>2, <1>3 DEF Poll!PollInv

\* Whole events stay whole events while the terminus forgets more of them.
LEMMA HandledStay ==
  ASSUME Poll!EventsHandledIntact, v5' = v5, v2 \in Nat, v2' \in {v2, v2 + 1}
  PROVE  Poll!EventsHandledIntact'
<1>1. PICK n \in [DOMAIN v5 -> 1..Poll!NumEvents] :
        /\ \A k \in DOMAIN v5 : v5[k] = Poll!Message(n[k])
        /\ \A j, k \in DOMAIN v5 : j < k => n[j] < n[k]
        /\ \A k \in DOMAIN v5 : n[k] <= v2
  BY DEF Poll!EventsHandledIntact
<1>2. \A k \in DOMAIN v5 : n[k] <= v2'
  BY <1>1, EventPartsAssumption DEF Poll!NumEvents
<1> QED
  BY <1>1, <1>2 DEF Poll!EventsHandledIntact, Poll!Message, Poll!NumEvents

LEMMA PollNext == Poll!PollInv /\ [Poll!Next]_Poll!vars => Poll!PollInv'
<1> SUFFICES ASSUME Poll!PollInv, [Poll!Next]_Poll!vars
             PROVE  Poll!PollInv'
  OBVIOUS
<1>0. Poll!PollTypes /\ Poll!PartsInOrder /\ Poll!EventsHandledIntact
  BY DEF Poll!PollInv
<1>1. CASE Poll!EventArrives
  <2>1. /\ v1 < Poll!NumEvents /\ v1' = v1 + 1
        /\ UNCHANGED <<v2, v3, v5>>
    BY <1>1 DEF Poll!EventArrives
  <2>2. v2 \in Nat /\ v1 \in Nat /\ v2 <= v1 /\ Poll!NumEvents \in Nat
    BY <1>0, EventPartsAssumption DEF Poll!PollTypes, Poll!NumEvents
  <2>3. v1' \in 0..Poll!NumEvents' /\ v2' <= v1' /\ (v2 < v1 => v2' < v1')
    BY <2>1, <2>2 DEF Poll!NumEvents
  <2>4. Poll!PollTypes'
    BY <1>0, <2>1, <2>3 DEF Poll!PollTypes
  <2>5. Poll!PartsInOrder'
    BY <1>0, <2>1, <2>3 DEF Poll!PartsInOrder, Poll!Message
  <2>6. Poll!EventsHandledIntact'
    BY <1>0, <2>1, <2>2, HandledStay
  <2> QED
    BY <2>4, <2>5, <2>6 DEF Poll!PollInv
<1>2. CASE Poll!PollForPlatformEvent
  <2>1. v3' = [Poll!NotPolling EXCEPT !.op = "getFirstPart"]
    BY <1>2 DEF Poll!PollForPlatformEvent
  <2>2. /\ v3' \in [op : {"none", "getFirstPart", "getNextPart", "ack"}, handle : Nat,
                      ack : Int, message : Seq(Nat \X Nat), polled : Nat]
        /\ v3'.op = "getFirstPart" /\ v3'.message = <<>>
    BY <2>1, Starting
  <2> QED
    BY <1>0, <1>2, <2>2, HandledStay DEF Poll!PollForPlatformEvent,
      Poll!PollInv, Poll!PollTypes, Poll!PartsInOrder, Poll!NumEvents
<1>3. ASSUME v3' = Poll!NotPolling, v2' \in {v2, v2 + 1}, v2' # v2 => v3.op = "ack",
             UNCHANGED <<v1, v5>>
      PROVE  Poll!PollInv'
  <2>1. /\ v3' \in [op : {"none", "getFirstPart", "getNextPart", "ack"}, handle : Nat,
                      ack : Int, message : Seq(Nat \X Nat), polled : Nat]
        /\ v3'.op = "none"
    BY <1>3, Starting DEF Poll!NotPolling
  <2>2. v2' \in Nat /\ v1' \in 0..Poll!NumEvents /\ v2' <= v1'
    BY <1>0, <1>3, EventPartsAssumption DEF Poll!PollTypes, Poll!PartsInOrder,
      Poll!NumEvents
  <2>3. Poll!EventsHandledIntact'
    BY <1>0, <1>3, HandledStay DEF Poll!PollTypes
  <2>4. v5' \in Seq(Seq(Nat \X Nat))
    BY <1>0, <1>3 DEF Poll!PollTypes
  <2>5. Poll!PollTypes'
    BY <2>1, <2>2, <2>4 DEF Poll!PollTypes, Poll!NumEvents
  <2>6. Poll!PartsInOrder'
    BY <2>1 DEF Poll!PartsInOrder
  <2> QED
    BY <2>3, <2>5, <2>6 DEF Poll!PollInv
<1>4. CASE Poll!PollFails
  BY <1>3, <1>4 DEF Poll!PollFails, Poll!Ends
<1>5. CASE Poll!PollStopped
  BY <1>3, <1>5 DEF Poll!PollStopped
<1>6. CASE Poll!Answered
  <2> DEFINE e == v2 + 1
  <2>0. /\ EventParts \in Seq(Nat \ {0}) /\ Poll!NumEvents = Len(EventParts)
             /\ Poll!NumEvents \in Nat
        /\ v2 \in Nat /\ v1 \in 0..Poll!NumEvents /\ v2 <= v1
        /\ v3.op \in {"getFirstPart", "getNextPart", "ack"}
    BY <1>0, <1>6, EventPartsAssumption DEF Poll!Answered, Poll!PollTypes,
      Poll!NumEvents
  <2>1. CASE v3.op = "ack"
    <3>1. v2 < v1 /\ v3.message = Poll!Message(e)
      BY <1>0, <2>1 DEF Poll!PartsInOrder
    <3>2. v5' = Append(v5, Poll!Message(e)) /\ v2' = e /\ UNCHANGED v1
      BY <1>6, <2>1, <3>1 DEF Poll!Answered, Poll!callPolledEventHandlers
    <3>3. v3' = [Poll!NotPolling EXCEPT !.op = "getFirstPart"] \/ v3' = Poll!NotPolling
      BY <1>6, <2>1 DEF Poll!Answered, Poll!FirstPart, Poll!Ends
    <3>4. /\ v3' \in [op : {"none", "getFirstPart", "getNextPart", "ack"}, handle : Nat,
                        ack : Int, message : Seq(Nat \X Nat), polled : Nat]
          /\ v3'.op \in {"none", "getFirstPart"} /\ v3'.message = <<>>
      BY <3>3, Starting
    <3>5. Poll!PollTypes' /\ Poll!PartsInOrder'
      <4>1. EventParts[e] \in Nat /\ Poll!Message(e) \in Seq(Nat \X Nat)
        BY <2>0, <3>1 DEF Poll!Message
      <4>2. v5' \in Seq(Seq(Nat \X Nat))
        BY <1>0, <3>2, <4>1 DEF Poll!PollTypes
      <4>3. v2' \in Nat /\ v1' \in 0..Poll!NumEvents /\ v2' <= v1'
        BY <2>0, <3>1, <3>2
      <4>4. Poll!PollTypes'
        BY <3>4, <4>2, <4>3 DEF Poll!PollTypes, Poll!NumEvents
      <4>5. Poll!PartsInOrder'
        BY <3>4 DEF Poll!PartsInOrder
      <4> QED
        BY <4>4, <4>5
    <3>6. Poll!EventsHandledIntact'
      <4>1. PICK n \in [DOMAIN v5 -> 1..Poll!NumEvents] :
              /\ \A k \in DOMAIN v5 : v5[k] = Poll!Message(n[k])
              /\ \A j, k \in DOMAIN v5 : j < k => n[j] < n[k]
              /\ \A k \in DOMAIN v5 : n[k] <= v2
        BY <1>0 DEF Poll!EventsHandledIntact
      <4>2. /\ v5 \in Seq(Seq(Nat \X Nat)) /\ DOMAIN v5 = 1..Len(v5)
            /\ Len(v5) \in Nat /\ e \in 1..Poll!NumEvents
        BY <1>0, <2>0, <3>1 DEF Poll!PollTypes
      <4>3. /\ DOMAIN v5' = 1..(Len(v5) + 1)
            /\ \A k \in 1..(Len(v5) + 1) :
                 v5'[k] = IF k = Len(v5) + 1 THEN Poll!Message(e) ELSE v5[k]
        BY <3>2, <4>2
      <4> DEFINE m == [k \in DOMAIN v5' |-> IF k = Len(v5) + 1 THEN e ELSE n[k]]
      <4>4. m \in [DOMAIN v5' -> 1..Poll!NumEvents]
        BY <4>1, <4>2, <4>3
      <4>5. \A k \in DOMAIN v5' : v5'[k] = Poll!Message(m[k]) /\ m[k] <= e
        BY <2>0, <4>1, <4>2, <4>3
      <4>6. ASSUME NEW j \in DOMAIN v5', NEW k \in DOMAIN v5', j < k
            PROVE  m[j] < m[k]
        <5>1. j \in DOMAIN v5 /\ m[j] = n[j] /\ n[j] \in 1..Poll!NumEvents /\ n[j] <= v2
          BY <4>1, <4>2, <4>3, <4>6
        <5>2. CASE k = Len(v5) + 1
          BY <2>0, <4>3, <5>1, <5>2
        <5>3. CASE k # Len(v5) + 1
          <6>1. k \in DOMAIN v5 /\ m[k] = n[k]
            BY <4>2, <4>3, <5>3
          <6> QED
            BY <4>1, <4>6, <5>1, <6>1
        <5> QED
          BY <5>2, <5>3
      <4> HIDE DEF m
      <4> QED
        BY <3>2, <4>4, <4>5, <4>6 DEF Poll!EventsHandledIntact, Poll!Message,
          Poll!NumEvents
    <3> QED
      BY <3>5, <3>6 DEF Poll!PollInv
  <2>2. CASE v3.op = "getFirstPart" /\ e > v1
    <3>1. v3' = Poll!NotPolling /\ UNCHANGED <<v1, v2, v5>>
      BY <1>6, <2>0, <2>2 DEF Poll!Answered, Poll!Answer, Poll!Ends,
        Poll!NoEvent
    <3> QED
      BY <1>3, <3>1
  <2>3. ASSUME NEW part \in 1..EventParts[e], e <= v1, UNCHANGED <<v1, v2, v5>>,
               v3.message = [k \in 1..part - 1 |-> <<e, k>>],
               v3' = IF part < EventParts[e]
                         THEN [v3 EXCEPT !.op = "getNextPart", !.handle = part + 1,
                                           !.message = Append(@, <<e, part>>)]
                         ELSE [v3 EXCEPT !.op = "ack", !.ack = e,
                                           !.message = Append(@, <<e, part>>), !.polled = e]
        PROVE  Poll!PollInv'
    <3>1. EventParts[e] \in Nat \ {0} /\ e \in 1..Poll!NumEvents
      BY <2>0, <2>3
    <3>2. Append(v3.message, <<e, part>>) = [k \in 1..part |-> <<e, k>>]
      BY <2>0, <2>3, <3>1
    <3>3. [k \in 1..part |-> <<e, k>>] \in Seq(Nat \X Nat)
      BY <2>0, <3>1
    <3>4. CASE part < EventParts[e]
      <4>1. v3' = [v3 EXCEPT !.op = "getNextPart", !.handle = part + 1,
                                 !.message = [k \in 1..part |-> <<e, k>>]]
        BY <2>3, <3>2, <3>4
      <4>2. Poll!PollTypes'
        <5>1. part + 1 \in Nat
          BY <3>1
        <5>2. v3' \in [op : {"none", "getFirstPart", "getNextPart", "ack"}, handle : Nat,
                         ack : Int, message : Seq(Nat \X Nat), polled : Nat]
          BY <1>0, <3>3, <4>1, <5>1 DEF Poll!PollTypes
        <5> QED
          BY <1>0, <2>3, <5>2 DEF Poll!PollTypes, Poll!NumEvents
      <4>3. /\ v3'.op = "getNextPart" /\ v3'.handle = part + 1
            /\ v3'.message = [k \in 1..part |-> <<e, k>>]
        BY <1>0, <4>1 DEF Poll!PollTypes
      <4>4. Poll!PartsInOrder'
        <5>1. v2' + 1 = e /\ v2' < v1' /\ (part + 1) - 1 = part
          BY <2>0, <2>3
        <5>2. part + 1 \in 2..EventParts[e]
          BY <3>1, <3>4
        <5> QED
          BY <4>3, <5>1, <5>2 DEF Poll!PartsInOrder
      <4> QED
        BY <1>0, <2>3, <4>2, <4>4, HandledStay DEF Poll!PollInv, Poll!PollTypes
    <3>5. CASE ~(part < EventParts[e])
      <4>1. v3' = [v3 EXCEPT !.op = "ack", !.ack = e,
                                 !.message = [k \in 1..part |-> <<e, k>>], !.polled = e]
        BY <2>3, <3>2, <3>5
      <4>2. Poll!PollTypes'
        <5>1. e \in Nat /\ e \in Int
          BY <2>0
        <5>2. v3' \in [op : {"none", "getFirstPart", "getNextPart", "ack"}, handle : Nat,
                         ack : Int, message : Seq(Nat \X Nat), polled : Nat]
          BY <1>0, <3>3, <4>1, <5>1 DEF Poll!PollTypes
        <5> QED
          BY <1>0, <2>3, <5>2 DEF Poll!PollTypes, Poll!NumEvents
      <4>3. v3'.op = "ack" /\ v3'.message = [k \in 1..part |-> <<e, k>>] /\ part = EventParts[e]
        BY SMTT(30), <1>0, <2>3, <3>1, <3>5, <4>1 DEF Poll!PollTypes
      <4>4. Poll!PartsInOrder'
        BY <2>0, <2>3, <3>1, <4>3 DEF Poll!PartsInOrder, Poll!Message
      <4> QED
        BY <1>0, <2>3, <4>2, <4>4, HandledStay DEF Poll!PollInv, Poll!PollTypes
    <3> QED
      BY <3>4, <3>5
  <2>4. CASE v3.op = "getFirstPart" /\ ~(e > v1)
    <3>1. v3.message = <<>> /\ e <= v1 /\ EventParts[e] \in Nat \ {0}
      BY <1>0, <2>0, <2>4 DEF Poll!PartsInOrder
    <3>2. Poll!Answer = [event |-> e, part |-> 1,
                    flag |-> IF EventParts[e] = 1 THEN "startAndEnd" ELSE "start"]
      BY <2>0, <2>4, <3>1 DEF Poll!Answer
    <3>3. v3.message = [k \in 1..1 - 1 |-> <<e, k>>]
      BY <3>1
    <3>4. /\ UNCHANGED <<v1, v2, v5>>
          /\ v3' = Poll!NextRequest(Poll!Answer, Append(v3.message, <<e, 1>>))
      BY <1>6, <2>0, <2>4, <3>2 DEF Poll!Answered, Poll!NoEvent
    <3>5. v3' = IF 1 < EventParts[e]
                    THEN [v3 EXCEPT !.op = "getNextPart", !.handle = 1 + 1,
                                      !.message = Append(@, <<e, 1>>)]
                    ELSE [v3 EXCEPT !.op = "ack", !.ack = e,
                                      !.message = Append(@, <<e, 1>>), !.polled = e]
      BY <3>1, <3>2, <3>4 DEF Poll!NextRequest
    <3>6. 1 \in 1..EventParts[e]
      BY <3>1
    <3> QED
      BY <2>3, <3>1, <3>3, <3>4, <3>5, <3>6
  <2>5. CASE v3.op = "getNextPart"
    <3>1. /\ v2 < v1 /\ v3.handle \in 2..EventParts[e]
          /\ v3.message = [k \in 1..v3.handle - 1 |-> <<e, k>>]
      BY <1>0, <2>5 DEF Poll!PartsInOrder
    <3>2. e <= v1 /\ EventParts[e] \in Nat \ {0}
      BY <2>0, <3>1
    <3>3. Poll!Answer = [event |-> e, part |-> v3.handle,
                    flag |-> IF EventParts[e] = v3.handle THEN "end" ELSE "middle"]
      BY <2>0, <2>5, <3>2 DEF Poll!Answer
    <3>4. /\ UNCHANGED <<v1, v2, v5>>
          /\ v3' = Poll!NextRequest(Poll!Answer, Append(v3.message, <<e, v3.handle>>))
      BY <1>6, <2>0, <2>5, <3>1, <3>2, <3>3 DEF Poll!Answered, Poll!NoEvent
    <3>5. v3' = IF v3.handle < EventParts[e]
                    THEN [v3 EXCEPT !.op = "getNextPart", !.handle = v3.handle + 1,
                                      !.message = Append(@, <<e, v3.handle>>)]
                    ELSE [v3 EXCEPT !.op = "ack", !.ack = e,
                                      !.message = Append(@, <<e, v3.handle>>), !.polled = e]
      BY <3>1, <3>2, <3>3, <3>4 DEF Poll!NextRequest
    <3>6. v3.handle \in 1..EventParts[e]
      BY <3>1, <3>2
    <3> QED
      BY <2>3, <3>1, <3>2, <3>4, <3>5, <3>6
  <2> QED
    BY <2>0, <2>1, <2>2, <2>4, <2>5
<1>7. CASE UNCHANGED Poll!vars
  BY <1>0, <1>7, HandledStay DEF Poll!vars, Poll!PollInv, Poll!PollTypes,
    Poll!PartsInOrder, Poll!NumEvents, Poll!Message
<1> QED
  BY <1>1, <1>2, <1>4, <1>5, <1>6, <1>7 DEF Poll!Next

LEMMA PollStays ==
  (component = "poll" => Poll!PollInv) /\ [DeviceNext]_vars
    => (component = "poll" => Poll!PollInv)'
<1> SUFFICES ASSUME component' = "poll", [DeviceNext]_vars,
                    component = "poll" => Poll!PollInv
             PROVE  Poll!PollInv'
  OBVIOUS
<1>1. CASE PollStep
  BY <1>1, PollNext DEF PollStep, Only
<1>2. CASE UNCHANGED vars
  BY <1>2, PollNext, OthersElsewhere DEF vars, Poll!vars
<1> QED
  BY <1>1, <1>2, OthersElsewhere

-----------------------------------------------------------------------------
\* TerminusEffecters: v1 is dbus, v2 is propertyValue, v3 is hostOn, v4 is
\* pending, v5 is device, v6 is followed.

Keeps == INSTANCE FoldInduction WITH Op <- LAMBDA infos, e, none : Follow!Kept(infos, e)

LEMMA KeepsFold ==
  Follow!dbusInfo = Keeps!Fold(<<>>, StateEntries, 0)
  BY DEF Follow!dbusInfo, Follow!FoldLeft, Follow!MapThenFoldSet, Follow!Max,
    Keeps!Fold, Keeps!Iter, Keeps!Solves, Keeps!Step, Keeps!Largest

\* What parseEffecterJson keeps of the state entries
LEMMA StateEntriesKept ==
  /\ Follow!compEffecterCnt \in Nat
  /\ DOMAIN Follow!dbusInfo \subseteq 1..Follow!compEffecterCnt
  /\ \A i \in DOMAIN Follow!dbusInfo :
       /\ Follow!dbusInfo[i].states \in Seq(Nat)
       /\ Len(Follow!dbusInfo[i].states) = Len(Follow!dbusInfo[i].values)
<1> DEFINE E == [values : Seq(Int), states : Seq(Nat)]
           K == {e \in E : Len(e.values) = Len(e.states)}
           n == Len(StateEntries)
           I == [k \in 0..n |-> {z \in Seq(K) : Len(z) <= k}]
<1>1. StateEntries \in Seq(E)
  BY StateEntriesAssumption
<1>2. \A e \in E : e.states \in Seq(Nat)
  OBVIOUS
<1> HIDE DEF E
<1>3. /\ n \in Nat /\ DOMAIN StateEntries = 1..n /\ \A k \in 1..n : StateEntries[k] \in E
      /\ Follow!compEffecterCnt = n
  BY <1>1 DEF Follow!compEffecterCnt
<1>4. <<>> \in I[0]
  BY <1>3
<1>5. ASSUME NEW k \in 1..n, NEW z \in I[k-1] PROVE Follow!Kept(z, StateEntries[k]) \in I[k]
  <2> DEFINE e == StateEntries[k]
  <2>1. k - 1 \in 0..n /\ k \in 0..n /\ k \in Nat
    BY <1>3
  <2>2. z \in Seq(K) /\ Len(z) <= k - 1
    BY <2>1
  <2>3. CASE e \in K
    <3> HIDE DEF K, e, n
    <3>1. Append(z, e) \in Seq(K) /\ Len(Append(z, e)) = Len(z) + 1 /\ Len(z) \in Nat
      BY <2>2, <2>3
    <3>2. Follow!Kept(z, e) \in {z, Append(z, e)}
      BY DEF Follow!Kept
    <3> QED
      BY <2>1, <2>2, <3>1, <3>2 DEF e
  <2>4. CASE e \notin K
    <3>1. Follow!Kept(z, e) = z
      BY <1>3, <2>4 DEF Follow!Kept, Follow!WellFormed
    <3> QED
      BY <2>1, <2>2, <3>1
  <2> QED
    BY <2>3, <2>4
<1>6. Keeps!Fold(<<>>, StateEntries, 0) \in I[n]
  <2>1. \A k \in 1..n : \A z \in I[k-1] : Follow!Kept(z, StateEntries[k]) \in I[k]
    BY <1>5
  <2> HIDE DEF I, n
  <2> QED
    BY <1>3, <1>4, <2>1, Keeps!FoldInvariant
<1> DEFINE d == Follow!dbusInfo
<1>7. d \in Seq(K) /\ Len(d) <= n
  <2>1. n \in 0..n
    BY <1>3
  <2> QED
    BY <1>6, <2>1, KeepsFold
<1> HIDE DEF d, K
<1>8. Len(d) \in Nat /\ DOMAIN d = 1..Len(d) /\ \A i \in DOMAIN d : d[i] \in K
  BY <1>7
<1>9. DOMAIN d \subseteq 1..n
  BY <1>3, <1>7, <1>8
<1> QED
  BY <1>2, <1>3, <1>8, <1>9 DEF d, K

\* A value that an effecter has a state for names one of its states.
LEMMA StateNamed ==
  ASSUME NEW i \in DOMAIN Follow!dbusInfo, NEW v, Follow!HasState(i, v)
  PROVE  Follow!findNewStateValue(i, v) \in Nat
<1> DEFINE I == {k \in 1..Len(Follow!dbusInfo[i].values) : Follow!dbusInfo[i].values[k] = v}
           m == CHOOSE x \in I : \A y \in I : x =< y
<1>1. I # {} /\ I \in SUBSET Nat
  BY DEF Follow!HasState, Follow!Contains
<1>2. m \in I
  <2> HIDE DEF I
  <2> QED
    BY <1>1, SmallestOf
<1>3. Follow!findNewStateValue(i, v) = Follow!dbusInfo[i].states[m]
  BY <1>1 DEF Follow!findNewStateValue, Follow!SelectInSeq, Follow!Min
<1>4. m \in 1..Len(Follow!dbusInfo[i].states) /\ Follow!dbusInfo[i].states \in Seq(Nat)
  BY <1>2, StateEntriesKept
<1> QED
  BY <1>3, <1>4

\* What is under way after a request is registered
LEMMA Registered ==
  ASSUME v4 \in Seq(Follow!Request), NEW r \in Follow!Request, v4' = Append(v4, r)
  PROVE  /\ v4' \in Seq(Follow!Request)
         /\ \A k \in DOMAIN v4' :
              \/ k \in DOMAIN v4 /\ v4'[k] = v4[k]
              \/ v4'[k] = r
         /\ \A type, i :
              ~Follow!Outstanding(type, i)' => ~Follow!Outstanding(type, i)
                /\ ~(r.type = type /\ r.of = i)
         /\ \A type, i : \A k \in DOMAIN v4' :
              Follow!LastFor(type, i, k)' =>
                \/ v4'[k] = r /\ r.type = type /\ r.of = i
                \/ /\ k \in DOMAIN v4 /\ Follow!LastFor(type, i, k) /\ v4'[k] = v4[k]
                   /\ ~(r.type = type /\ r.of = i)
<1>1. /\ v4' \in Seq(Follow!Request) /\ Len(v4) \in Nat
      /\ DOMAIN v4 = 1..Len(v4) /\ DOMAIN v4' = 1..Len(v4) + 1
      /\ \A k \in DOMAIN v4 : k \in DOMAIN v4' /\ v4'[k] = v4[k]
      /\ Len(v4) + 1 \in DOMAIN v4' /\ v4'[Len(v4) + 1] = r
  OBVIOUS
<1>2. \A k \in DOMAIN v4' : k \in DOMAIN v4 \/ k = Len(v4) + 1
  BY <1>1
<1>3. ASSUME NEW type, NEW i, ~Follow!Outstanding(type, i)'
      PROVE  ~Follow!Outstanding(type, i) /\ ~(r.type = type /\ r.of = i)
  BY <1>1, <1>3 DEF Follow!Outstanding
<1>4. ASSUME NEW type, NEW i, NEW k \in DOMAIN v4', Follow!LastFor(type, i, k)'
      PROVE  \/ v4'[k] = r /\ r.type = type /\ r.of = i
             \/ /\ k \in DOMAIN v4 /\ Follow!LastFor(type, i, k) /\ v4'[k] = v4[k]
                /\ ~(r.type = type /\ r.of = i)
  <2>1. CASE k = Len(v4) + 1
    BY <1>1, <1>4, <2>1 DEF Follow!LastFor
  <2>2. CASE k \in DOMAIN v4
    <3>1. Len(v4) + 1 > k
      BY <1>1, <2>2
    <3>2. ~(r.type = type /\ r.of = i)
      BY <1>1, <1>4, <3>1 DEF Follow!LastFor
    <3>3. Follow!LastFor(type, i, k)
      BY <1>1, <1>4, <2>2 DEF Follow!LastFor
    <3> QED
      BY <1>1, <2>2, <3>2, <3>3
  <2> QED
    BY <1>2, <2>1, <2>2
<1> QED
  BY <1>1, <1>2, <1>3, <1>4

\* What is under way after the first request is answered
LEMMA HeadGone ==
  ASSUME v4 \in Seq(Follow!Request), v4 # <<>>, v4' = Tail(v4)
  PROVE  /\ v4' \in Seq(Follow!Request) /\ 1 \in DOMAIN v4 /\ Head(v4) = v4[1]
         /\ Head(v4) \in Follow!Request
         /\ \A k \in DOMAIN v4' :
              k + 1 \in DOMAIN v4 /\ v4'[k] = v4[k + 1]
         /\ \A type, i : Follow!Outstanding(type, i) /\ ~Follow!Outstanding(type, i)' =>
              Follow!LastFor(type, i, 1)
         /\ \A type, i : \A k \in DOMAIN v4' :
              Follow!LastFor(type, i, k)' => Follow!LastFor(type, i, k + 1)
<1>1. /\ v4' \in Seq(Follow!Request) /\ Len(v4) \in Nat \ {0}
      /\ DOMAIN v4 = 1..Len(v4) /\ DOMAIN v4' = 1..Len(v4) - 1
      /\ Head(v4) = v4[1] /\ Head(v4) \in Follow!Request
      /\ \A k \in 1..Len(v4) - 1 : v4'[k] = v4[k + 1]
  OBVIOUS
<1>2. \A j \in DOMAIN v4 : j = 1 \/ (j - 1 \in DOMAIN v4' /\ v4'[j - 1] = v4[j])
  BY <1>1
<1>3. \A k \in DOMAIN v4' : k + 1 \in DOMAIN v4 /\ v4'[k] = v4[k + 1]
  BY <1>1
<1>4. ASSUME NEW type, NEW i, Follow!Outstanding(type, i), ~Follow!Outstanding(type, i)'
      PROVE  Follow!LastFor(type, i, 1)
  <2>1. \A j \in DOMAIN v4 : j # 1 => ~(v4[j].type = type /\ v4[j].of = i)
    BY <1>2, <1>4 DEF Follow!Outstanding
  <2> QED
    BY <1>1, <1>4, <2>1 DEF Follow!Outstanding, Follow!LastFor
<1>5. ASSUME NEW type, NEW i, NEW k \in DOMAIN v4', Follow!LastFor(type, i, k)'
      PROVE  Follow!LastFor(type, i, k + 1)
  <2>1. v4'[k].type = type /\ v4'[k].of = i /\ k \in Nat
    BY <1>1, <1>5 DEF Follow!LastFor
  <2>2. ASSUME NEW j \in DOMAIN v4, j > k + 1
        PROVE  ~(v4[j].type = type /\ v4[j].of = i)
    <3>1. j - 1 \in DOMAIN v4' /\ j - 1 > k /\ v4'[j - 1] = v4[j]
      BY <1>1, <1>2, <2>1, <2>2
    <3> QED
      BY <1>5, <3>1 DEF Follow!LastFor
  <2> QED
    BY <1>3, <2>1, <2>2 DEF Follow!LastFor
<1> QED
  BY <1>1, <1>3, <1>4, <1>5

LEMMA FollowInit == Follow!Init => Follow!FollowInv
<1> SUFFICES ASSUME Follow!Init
             PROVE  Follow!FollowInv
  OBVIOUS
<1>1. DOMAIN v4 = {} /\ v4 \in Seq(Follow!Request)
  BY DEF Follow!Init
<1>2. Follow!FollowTypes
  BY <1>1, StateEntriesKept DEF Follow!Init, Follow!FollowTypes
<1> QED
  BY <1>1, <1>2 DEF Follow!Init, Follow!FollowInv, Follow!OneField,
    Follow!LastRequestIsPresent, Follow!LastFor, Follow!PositionFollows

\* The state effecters are left alone by what is about the numeric one.
LEMMA StatesStay ==
  ASSUME Follow!FollowInv, v1'.state = v1.state, v5'.state = v5.state,
         v6'.state = v6.state,
         \/ UNCHANGED v4
         \/ \E r \in Follow!Request : r.type = "numeric" /\ v4' = Append(v4, r)
  PROVE  /\ Follow!OneField'
         /\ \A i \in DOMAIN Follow!dbusInfo, k \in DOMAIN v4' :
              v6'.state[i] /\ Follow!LastFor("state", i, k)' =>
                /\ v4'[k].field[i] = Follow!findNewStateValue(i, v1'.state[i])
                /\ v4'[k].field[i] # Follow!NoChange
         /\ \A i \in DOMAIN Follow!dbusInfo :
              v6'.state[i] /\ ~Follow!Outstanding("state", i)' =>
                v5'.state[i] = Follow!findNewStateValue(i, v1'.state[i])
<1>1. CASE UNCHANGED v4
  BY <1>1 DEF Follow!FollowInv, Follow!OneField, Follow!LastRequestIsPresent,
    Follow!PositionFollows, Follow!LastFor, Follow!Outstanding
<1>2. CASE \E r \in Follow!Request : r.type = "numeric" /\ v4' = Append(v4, r)
  <2>1. PICK r \in Follow!Request : r.type = "numeric" /\ v4' = Append(v4, r)
    BY <1>2
  <2>2. /\ \A k \in DOMAIN v4' :
             (k \in DOMAIN v4 /\ v4'[k] = v4[k]) \/ v4'[k] = r
        /\ \A i : ~Follow!Outstanding("state", i)' => ~Follow!Outstanding("state", i)
        /\ \A i : \A k \in DOMAIN v4' : Follow!LastFor("state", i, k)' =>
             k \in DOMAIN v4 /\ Follow!LastFor("state", i, k) /\ v4'[k] = v4[k]
    BY <2>1, Registered DEF Follow!FollowInv, Follow!FollowTypes
  <2>3. Follow!OneField'
    BY <2>1, <2>2 DEF Follow!FollowInv, Follow!OneField
  <2> QED
    BY <2>2, <2>3 DEF Follow!FollowInv, Follow!LastRequestIsPresent,
      Follow!PositionFollows
<1> QED
  BY <1>1, <1>2

LEMMA StateChangedStays ==
  ASSUME Follow!FollowInv, NEW i \in DOMAIN Follow!dbusInfo, NEW v \in PropertyValues,
           Follow!StateChanged(i, v)
  PROVE  Follow!FollowInv'
<1>0. Follow!FollowTypes /\ Follow!OneField /\ Follow!LastRequestIsPresent /\ Follow!PositionFollows
  BY DEF Follow!FollowInv
<1>1. /\ v1' = [v1 EXCEPT !.state[i] = v]
      /\ UNCHANGED <<v2, v3, v5>>
  BY DEF Follow!StateChanged
<1>2. /\ v1'.state \in [DOMAIN Follow!dbusInfo -> PropertyValues \cup {Follow!Unset}]
           /\ v1'.state[i] = v
      /\ DOMAIN v1' = {"state", "numeric"}
      /\ \A j \in DOMAIN Follow!dbusInfo : j # i => v1'.state[j] = v1.state[j]
  BY <1>0, <1>1 DEF Follow!FollowTypes
<1>3. CASE Follow!Refused /\ v6' = [v6 EXCEPT !.state[i] = FALSE]
  <2>1. /\ v6' \in [state : [DOMAIN Follow!dbusInfo -> BOOLEAN], numeric : BOOLEAN]
        /\ ~v6'.state[i] /\ v6'.numeric = v6.numeric
        /\ \A j \in DOMAIN Follow!dbusInfo : j # i => v6'.state[j] = v6.state[j]
    BY <1>0, <1>3 DEF Follow!FollowTypes
  <2>2. UNCHANGED <<v4, v2, v5>>
    BY <1>1, <1>3 DEF Follow!Refused
  <2>3. Follow!FollowTypes' /\ Follow!OneField'
    BY SMTT(30), <1>0, <1>2, <2>1, <2>2 DEF Follow!FollowTypes, Follow!OneField
  <2>4. Follow!LastRequestIsPresent' /\ Follow!PositionFollows'
    BY <1>0, <1>2, <2>1, <2>2 DEF Follow!LastRequestIsPresent,
      Follow!PositionFollows, Follow!LastFor, Follow!Outstanding
  <2> QED
    BY <2>1, <2>2, <2>3, <2>4 DEF Follow!FollowInv
<1>4. CASE /\ Follow!HasState(i, v)
           /\ Follow!setHostStateEffecter(i, Follow!findNewStateValue(i, v))
           /\ v6' = [v6 EXCEPT !.state[i] = TRUE]
  <2> DEFINE s == Follow!findNewStateValue(i, v)
             r == [type |-> "state", of |-> i, field |-> Follow!StateField(i, s)]
  <2>1. /\ v6' \in [state : [DOMAIN Follow!dbusInfo -> BOOLEAN], numeric : BOOLEAN]
        /\ v6'.numeric = v6.numeric
        /\ \A j \in DOMAIN Follow!dbusInfo : j # i => v6'.state[j] = v6.state[j]
    BY <1>0, <1>4 DEF Follow!FollowTypes
  <2>2. s \in Nat /\ i \in 1..Follow!compEffecterCnt /\ Follow!compEffecterCnt \in Nat
    BY <1>4, StateNamed, StateEntriesKept
  <2>3. /\ Follow!StateField(i, s) \in Seq(Int) /\ Follow!StateField(i, s)[i] = s
             /\ s # Follow!NoChange
        /\ \A j \in 1..Follow!compEffecterCnt : j # i => Follow!StateField(i,
             s)[j] = Follow!NoChange
    <3> HIDE DEF s
    <3>1. Follow!StateField(i, s) \in [1..Follow!compEffecterCnt -> Int]
      BY <2>2 DEF Follow!StateField, Follow!NoChange
    <3> QED
      BY <2>2, <3>1 DEF Follow!StateField, Follow!NoChange
  <2> HIDE DEF s
  <2>4. r \in Follow!Request /\ r.type = "state" /\ r.of = i /\ r.field = Follow!StateField(i, s)
    BY <2>2, <2>3 DEF Follow!Request
  <2>5. v4' = Append(v4, r)
    BY <1>4 DEF Follow!setHostStateEffecter, Follow!registerRequest, s
  <2> HIDE DEF r
  <2>6. /\ v4' \in Seq(Follow!Request)
        /\ \A k \in DOMAIN v4' :
             (k \in DOMAIN v4 /\ v4'[k] = v4[k]) \/ v4'[k] = r
        /\ \A type, j :
             ~Follow!Outstanding(type, j)' => ~Follow!Outstanding(type, j)
               /\ ~(type = "state" /\ j = i)
        /\ \A type, j : \A k \in DOMAIN v4' :
             Follow!LastFor(type, j, k)' =>
               \/ v4'[k] = r /\ type = "state" /\ j = i
               \/ /\ k \in DOMAIN v4 /\ Follow!LastFor(type, j, k) /\ v4'[k] = v4[k]
                  /\ ~(type = "state" /\ j = i)
    BY <1>0, <2>4, <2>5, Registered DEF Follow!FollowTypes
  <2>7. Follow!FollowTypes'
    BY <1>0, <1>1, <1>2, <2>1, <2>6 DEF Follow!FollowTypes
  <2>8. Follow!OneField'
    BY <1>0, <2>3, <2>4, <2>6 DEF Follow!OneField
  <2>9. Follow!LastRequestIsPresent'
    <3>1. ASSUME NEW j \in DOMAIN Follow!dbusInfo, NEW k \in DOMAIN v4', v6'.state[j],
                 Follow!LastFor("state", j, k)'
          PROVE  /\ v4'[k].field[j] = Follow!findNewStateValue(j, v1'.state[j])
                 /\ v4'[k].field[j] # Follow!NoChange
      <4>1. CASE j = i
        BY <1>2, <2>3, <2>4, <2>6, <3>1, <4>1 DEF s
      <4>2. CASE j # i
        BY <1>0, <1>2, <2>1, <2>6, <3>1, <4>2 DEF Follow!LastRequestIsPresent
      <4> QED
        BY <4>1, <4>2
    <3>2. ASSUME NEW k \in DOMAIN v4', v6'.numeric, Follow!LastFor("numeric", 0, k)'
          PROVE  v4'[k].field[1] = Follow!adjustValue(v2)
      BY <1>0, <2>1, <2>6, <3>2 DEF Follow!LastRequestIsPresent
    <3> QED
      BY <1>1, <3>1, <3>2 DEF Follow!LastRequestIsPresent
  <2>10. Follow!PositionFollows'
    BY <1>0, <1>1, <1>2, <2>1, <2>6 DEF Follow!PositionFollows
  <2>11. \A k \in DOMAIN v4' : v4'[k].type = "numeric" => v4'[k].of = 0
    BY <2>4, <2>6 DEF Follow!FollowInv
  <2> QED
    BY <1>1, <2>1, <2>7, <2>8, <2>9, <2>10, <2>11 DEF Follow!FollowInv
<1> QED
  BY <1>3, <1>4 DEF Follow!StateChanged

LEMMA NumericChangedStays ==
  ASSUME Follow!FollowInv, NEW v \in PropertyValues \cup {NoNumber}, Follow!NumericChanged(v)
  PROVE  Follow!FollowInv'
<1>0. Follow!FollowTypes /\ Follow!OneField /\ Follow!LastRequestIsPresent /\ Follow!PositionFollows
  BY DEF Follow!FollowInv
<1>1. v1'.state = v1.state /\ DOMAIN v1' = {"state", "numeric"}
  BY <1>0 DEF Follow!NumericChanged, Follow!FollowTypes
<1>2. CASE /\ v2 = NoNumber \/ Follow!NumericUnchanged(v)
           /\ Follow!Refused
           /\ v2' = IF v = NoNumber THEN v2 ELSE v
           /\ v5' = IF v2 = NoNumber /\ v # NoNumber
                        THEN [v5 EXCEPT !.numeric = Follow!adjustValue(v)] ELSE v5
           /\ UNCHANGED v6
  <2>1. /\ v5'.state = v5.state /\ DOMAIN v5' = {"state", "numeric"}
        /\ UNCHANGED <<v4, v6>>
        /\ v2 # NoNumber => v2' = v2 /\ v5' = v5
    BY <1>0, <1>2 DEF Follow!FollowTypes, Follow!Refused,
      Follow!NumericUnchanged
  <2>2. Follow!FollowTypes'
    BY <1>0, <1>1, <2>1 DEF Follow!FollowTypes
  <2>3. /\ v6.numeric => v2 # NoNumber
        /\ v6'.numeric => v2' = v2 /\ v5' = v5
        /\ v2' = NoNumber => ~v6'.numeric
    BY <2>1 DEF Follow!FollowInv
  <2>4. Follow!OneField' /\ Follow!LastRequestIsPresent' /\ Follow!PositionFollows'
    BY <1>0, <1>1, <2>1, <2>3, StatesStay DEF Follow!LastRequestIsPresent,
      Follow!PositionFollows, Follow!LastFor, Follow!Outstanding
  <2> QED
    BY <2>1, <2>2, <2>3, <2>4 DEF Follow!FollowInv
<1>3. CASE /\ v2 # NoNumber /\ ~Follow!NumericUnchanged(v)
           /\ Follow!setTerminusNumericEffecter(v)
           /\ v2' = Follow!Cached(v, TRUE)
           /\ UNCHANGED v5
           /\ v6' = [v6 EXCEPT !.numeric = Follow!InRange(Follow!adjustValue(v))]
  <2>1. PICK raw \in Follow!Cast(Follow!adjustValue(v)) :
          v4' = Append(v4, [type |-> "numeric", of |-> 0, field |-> <<raw>>])
    BY <1>3 DEF Follow!setTerminusNumericEffecter, Follow!registerRequest
  <2> DEFINE r == [type |-> "numeric", of |-> 0, field |-> <<raw>>]
  <2>2. /\ raw \in Int
        /\ Follow!InRange(Follow!adjustValue(v)) => raw = Follow!adjustValue(v)
    <3> DEFINE top == 2^EffecterWidth
    <3>1. top \in Nat
      BY StateEntriesAssumption
    <3>2. IF Follow!adjustValue(v) \in 0..(top - 1)
            THEN raw = Follow!adjustValue(v) ELSE raw \in 0..(top - 1)
      BY <2>1 DEF Follow!Cast, Follow!InRange
    <3> HIDE DEF top
    <3>3. raw \in Int /\ (Follow!adjustValue(v) \in 0..(top - 1) => raw = Follow!adjustValue(v))
      BY <3>1, <3>2
    <3> QED
      BY <3>3 DEF Follow!InRange, top
  <2>3. r \in Follow!Request /\ r.type = "numeric" /\ r.of = 0 /\ r.field[1] = raw
    BY <2>2 DEF Follow!Request
  <2>4. v2' = v /\ v # NoNumber
    BY <1>3 DEF Follow!Cached, Follow!NumericUnchanged
  <2>5. /\ v6' \in [state : [DOMAIN Follow!dbusInfo -> BOOLEAN], numeric : BOOLEAN]
        /\ v6'.state = v6.state
        /\ v6'.numeric => Follow!InRange(Follow!adjustValue(v))
    <3> DEFINE in == Follow!InRange(Follow!adjustValue(v))
    <3>1. in \in BOOLEAN
      BY DEF Follow!InRange
    <3>2. v6' = [v6 EXCEPT !.numeric = in]
      BY <1>3
    <3> HIDE DEF in
    <3>3. /\ v6' \in [state : [DOMAIN Follow!dbusInfo -> BOOLEAN], numeric : BOOLEAN]
          /\ v6'.state = v6.state /\ (v6'.numeric => in)
      BY <1>0, <3>1, <3>2 DEF Follow!FollowTypes
    <3> QED
      BY <3>3 DEF in
  <2> HIDE DEF r
  <2>6. /\ v4' \in Seq(Follow!Request)
        /\ \A k \in DOMAIN v4' :
             (k \in DOMAIN v4 /\ v4'[k] = v4[k]) \/ v4'[k] = r
        /\ Follow!Outstanding("numeric", 0)'
        /\ \A k \in DOMAIN v4' : Follow!LastFor("numeric", 0, k)' => v4'[k] = r
    <3>1. v4' = Append(v4, r)
      BY <2>1 DEF r
    <3> QED
      BY <1>0, <2>3, <3>1, Registered DEF Follow!FollowTypes
  <2>7. Follow!FollowTypes'
    BY <1>0, <1>1, <1>3, <2>5, <2>6 DEF Follow!FollowTypes
  <2>8. \E q \in Follow!Request : q.type = "numeric" /\ v4' = Append(v4, q)
    BY <2>1, <2>3 DEF r
  <2>9. Follow!OneField' /\ Follow!LastRequestIsPresent' /\ Follow!PositionFollows'
    <3>1. ASSUME NEW k \in DOMAIN v4', v6'.numeric, Follow!LastFor("numeric", 0, k)'
          PROVE  v4'[k].field[1] = Follow!adjustValue(v2')
      BY <2>2, <2>3, <2>4, <2>5, <2>6, <3>1
    <3>2. /\ Follow!OneField'
          /\ \A i \in DOMAIN Follow!dbusInfo, k \in DOMAIN v4' :
               v6'.state[i] /\ Follow!LastFor("state", i, k)' =>
                 /\ v4'[k].field[i] = Follow!findNewStateValue(i, v1'.state[i])
                 /\ v4'[k].field[i] # Follow!NoChange
          /\ \A i \in DOMAIN Follow!dbusInfo :
               v6'.state[i] /\ ~Follow!Outstanding("state", i)' =>
                 v5'.state[i] = Follow!findNewStateValue(i, v1'.state[i])
      BY <1>1, <1>3, <2>5, <2>8, StatesStay
    <3>3. Follow!adjustValue(v2)' = Follow!adjustValue(v2')
      BY DEF Follow!adjustValue
    <3> QED
      BY <2>6, <3>1, <3>2, <3>3 DEF Follow!LastRequestIsPresent,
        Follow!PositionFollows
  <2>10. \A k \in DOMAIN v4' : v4'[k].type = "numeric" => v4'[k].of = 0
    BY <2>3, <2>6 DEF Follow!FollowInv
  <2> QED
    BY <2>4, <2>7, <2>9, <2>10 DEF Follow!FollowInv
<1>4. CASE /\ v2 # NoNumber
           /\ Follow!Refused
           /\ v2' = Follow!Cached(v, FALSE)
           /\ UNCHANGED <<v5, v6>>
  <2>1. UNCHANGED <<v2, v4, v5, v6>>
    BY <1>4 DEF Follow!Cached, Follow!Refused
  <2> QED
    BY <1>0, <1>1, <2>1, StatesStay DEF Follow!FollowInv, Follow!FollowTypes,
      Follow!LastRequestIsPresent, Follow!PositionFollows, Follow!LastFor,
      Follow!Outstanding
<1> QED
  BY <1>2, <1>3, <1>4 DEF Follow!NumericChanged

LEMMA AnsweredStays ==
  ASSUME Follow!FollowInv, NEW ok \in BOOLEAN, Follow!Answered(ok)
  PROVE  Follow!FollowInv'
<1>0. Follow!FollowTypes /\ Follow!OneField /\ Follow!LastRequestIsPresent /\ Follow!PositionFollows
  BY DEF Follow!FollowInv
<1> DEFINE r == Head(v4)
<1>1. /\ v4 # <<>> /\ v4' = Tail(v4)
      /\ v5' = IF ~ok THEN v5
                   ELSE IF r.type = "state"
                   THEN [v5 EXCEPT !.state = Follow!Merge(@, r.field)]
                   ELSE [v5 EXCEPT !.numeric = r.field[1]]
      /\ v6' = IF ok THEN v6
                     ELSE IF r.type = "state"
                     THEN [v6 EXCEPT !.state[r.of] = FALSE]
                     ELSE [v6 EXCEPT !.numeric = FALSE]
      /\ UNCHANGED <<v1, v2, v3>>
  BY DEF Follow!Answered
<1>2. /\ v4' \in Seq(Follow!Request) /\ 1 \in DOMAIN v4 /\ r = v4[1] /\ r \in Follow!Request
      /\ \A k \in DOMAIN v4' : k + 1 \in DOMAIN v4 /\ v4'[k] = v4[k + 1]
      /\ \A type, i : Follow!Outstanding(type, i) /\ ~Follow!Outstanding(type, i)'
           => Follow!LastFor(type, i, 1)
      /\ \A type, i : \A k \in DOMAIN v4' :
           Follow!LastFor(type, i, k)' => Follow!LastFor(type, i, k + 1)
  BY <1>0, <1>1, HeadGone DEF Follow!FollowTypes
<1> HIDE DEF r
<1>3. r.type \in {"state", "numeric"}
  BY <1>2 DEF Follow!Request
<1>4. /\ v6' \in [state : [DOMAIN Follow!dbusInfo -> BOOLEAN], numeric : BOOLEAN]
      /\ v6'.numeric => v6.numeric /\ (r.type = "numeric" => ok)
      /\ \A i \in DOMAIN Follow!dbusInfo :
           v6'.state[i] => v6.state[i] /\ (r.type = "state" /\ r.of = i => ok)
  BY <1>0, <1>1, <1>3 DEF Follow!FollowTypes
<1>5. /\ DOMAIN v5' = {"state", "numeric"} /\ DOMAIN v5'.state = 1..Follow!compEffecterCnt
      /\ ok /\ r.type = "state" =>
           \A i \in 1..Follow!compEffecterCnt : v5'.state[i] =
             IF r.field[i] = Follow!NoChange THEN v5.state[i] ELSE r.field[i]
      /\ ~(ok /\ r.type = "state") => v5'.state = v5.state
      /\ ok /\ r.type = "numeric" => v5'.numeric = r.field[1]
      /\ ~(ok /\ r.type = "numeric") => v5'.numeric = v5.numeric
  BY <1>0, <1>1, <1>3 DEF Follow!FollowTypes, Follow!Merge
<1>6. Follow!FollowTypes'
  BY <1>0, <1>1, <1>2, <1>4, <1>5 DEF Follow!FollowTypes
<1>7. Follow!OneField'
  BY <1>0, <1>2 DEF Follow!OneField
<1>8. Follow!LastRequestIsPresent'
  BY <1>0, <1>1, <1>2, <1>4 DEF Follow!LastRequestIsPresent
<1>9. ASSUME NEW i \in DOMAIN Follow!dbusInfo, v6'.state[i], ~Follow!Outstanding("state", i)'
      PROVE  v5'.state[i] = Follow!findNewStateValue(i, v1'.state[i])
  <2>0. v6.state[i] /\ i \in 1..Follow!compEffecterCnt
    BY <1>4, <1>9, StateEntriesKept
  <2>1. CASE r.type = "state" /\ r.of = i
    <3>1. ok /\ Follow!Outstanding("state", i)
      BY <1>2, <1>4, <1>9, <2>1 DEF Follow!Outstanding
    <3>2. Follow!LastFor("state", i, 1)
      BY <1>2, <1>9, <3>1
    <3>3. r.field[i] = Follow!findNewStateValue(i, v1.state[i]) /\ r.field[i] # Follow!NoChange
      BY <1>0, <1>2, <2>0, <3>2 DEF Follow!LastRequestIsPresent
    <3> QED
      BY <1>1, <1>5, <2>0, <2>1, <3>1, <3>3
  <2>2. CASE ~(r.type = "state" /\ r.of = i)
    <3>1. ~Follow!Outstanding("state", i)
      BY <1>2, <1>9, <2>2 DEF Follow!LastFor
    <3>2. v5.state[i] = Follow!findNewStateValue(i, v1.state[i])
      BY <1>0, <2>0, <3>1 DEF Follow!PositionFollows
    <3>3. r.type = "state" => r.field[i] = Follow!NoChange
      BY <1>0, <1>2, <2>0, <2>2 DEF Follow!OneField
    <3> QED
      BY <1>1, <1>5, <2>0, <3>2, <3>3
  <2> QED
    BY <2>1, <2>2
<1>10. ASSUME v6'.numeric, ~Follow!Outstanding("numeric", 0)'
       PROVE  v5'.numeric = Follow!adjustValue(v2')
  <2>1. CASE r.type = "numeric"
    <3>1. ok /\ r.of = 0 /\ Follow!Outstanding("numeric", 0)
      BY <1>2, <1>4, <1>10, <2>1 DEF Follow!FollowInv, Follow!Outstanding
    <3>2. Follow!LastFor("numeric", 0, 1)
      BY <1>2, <1>10, <3>1
    <3> QED
      BY <1>0, <1>1, <1>2, <1>4, <1>5, <1>10, <2>1, <3>1, <3>2 DEF
        Follow!LastRequestIsPresent
  <2>2. CASE r.type # "numeric"
    <3>1. ~Follow!Outstanding("numeric", 0)
      BY <1>2, <1>10, <2>2 DEF Follow!LastFor
    <3> QED
      BY <1>0, <1>1, <1>4, <1>5, <1>10, <2>2, <3>1 DEF Follow!PositionFollows
  <2> QED
    BY <2>1, <2>2
<1>11. Follow!PositionFollows'
  BY <1>9, <1>10 DEF Follow!PositionFollows, Follow!adjustValue
<1>12. \A k \in DOMAIN v4' : v4'[k].type = "numeric" => v4'[k].of = 0
  BY <1>2 DEF Follow!FollowInv
<1>13. v2' = NoNumber => ~v6'.numeric
  BY <1>1, <1>4 DEF Follow!FollowInv
<1> QED
  BY <1>6, <1>7, <1>8, <1>11, <1>12, <1>13 DEF Follow!FollowInv

LEMMA FollowNext == Follow!FollowInv /\ [Follow!Next]_Follow!vars => Follow!FollowInv'
<1> SUFFICES ASSUME Follow!FollowInv, [Follow!Next]_Follow!vars
             PROVE  Follow!FollowInv'
  OBVIOUS
<1>1. CASE Follow!HostSwitches \/ UNCHANGED Follow!vars
  <2>1. UNCHANGED <<v1, v2, v4, v5, v6>>
    BY <1>1 DEF Follow!HostSwitches, Follow!vars
  <2> QED
    BY <2>1, StatesStay DEF Follow!FollowInv, Follow!FollowTypes,
      Follow!LastRequestIsPresent, Follow!PositionFollows, Follow!LastFor,
      Follow!Outstanding
<1>2. ASSUME NEW i \in DOMAIN Follow!dbusInfo, NEW v \in PropertyValues, Follow!StateChanged(i, v)
      PROVE  Follow!FollowInv'
  BY <1>2, StateChangedStays
<1>3. ASSUME NEW v \in PropertyValues \cup {NoNumber}, Follow!NumericChanged(v)
      PROVE  Follow!FollowInv'
  BY <1>3, NumericChangedStays
<1>4. ASSUME NEW ok \in BOOLEAN, Follow!Answered(ok)
      PROVE  Follow!FollowInv'
  BY <1>4, AnsweredStays
<1> QED
  BY <1>1, <1>2, <1>3, <1>4 DEF Follow!Next

LEMMA FollowStays ==
  (component = "follow" => Follow!FollowInv) /\ [DeviceNext]_vars
    => (component = "follow" => Follow!FollowInv)'
<1> SUFFICES ASSUME component' = "follow", [DeviceNext]_vars,
                    component = "follow" => Follow!FollowInv
             PROVE  Follow!FollowInv'
  OBVIOUS
<1>1. CASE FollowStep
  BY <1>1, FollowNext DEF FollowStep, Only
<1>2. CASE UNCHANGED vars
  BY <1>2, FollowNext, OthersElsewhere DEF vars, Follow!vars
<1> QED
  BY <1>1, <1>2, OthersElsewhere

-----------------------------------------------------------------------------
\* NumericSensor: v1 is value, v2 is status, v3 is alarms, v4 is assertedLog, v5
\* is expected, v6 is pdr, v7 is normalRange, v8 is missed.

Alarms == INSTANCE FoldInduction WITH
  Op <- LAMBDA t, c, failed : Numeric!setThresholdAlarm(t, c[1], c[2], c \notin failed)

\* What the sensor and the logs say of its alarms
AlarmRecord == [alarms : SUBSET Numeric!Kinds, log : SUBSET Numeric!Kinds,
                normal : BOOLEAN, missed : BOOLEAN]
Says(t) == t.log \subseteq t.alarms /\ (t.missed \/ (t.normal <=> t.alarms = {}))
AlarmStates == {t \in AlarmRecord : Says(t)}

Asserted(A, k) == A \cup ({k} \cap Numeric!Kinds)

\* The entry of an asserted alarm, created or missed
LEMMA LoggedThreshold ==
  ASSUME NEW s \in AlarmRecord, NEW k \in Numeric!Kinds, k \in s.alarms, s.log \subseteq s.alarms,
         NEW logged
  PROVE  Numeric!createThresholdLog(s, k, logged) \in AlarmStates
<1> DEFINE r == Numeric!createThresholdLog(s, k, logged)
<1>1. CASE logged
  <2>1. r = [alarms |-> s.alarms, log |-> s.log \cup {k}, normal |-> FALSE, missed |-> FALSE]
    BY <1>1 DEF Numeric!createThresholdLog, AlarmRecord
  <2> HIDE DEF r
  <2>2. /\ r \in AlarmRecord /\ r.alarms = s.alarms /\ r.log = s.log \cup {k}
        /\ r.normal = FALSE
    BY <2>1 DEF AlarmRecord
  <2> QED
    BY <2>2 DEF Says, AlarmStates, r
<1>2. CASE ~logged
  <2>1. r = [alarms |-> s.alarms, log |-> s.log, normal |-> s.normal, missed |-> TRUE]
    BY <1>2 DEF Numeric!createThresholdLog, AlarmRecord
  <2> HIDE DEF r
  <2>2. r \in AlarmRecord /\ r.alarms = s.alarms /\ r.log = s.log /\ r.missed = TRUE
    BY <2>1 DEF AlarmRecord
  <2> QED
    BY <2>2 DEF Says, AlarmStates, r
<1> QED
  BY <1>1, <1>2

LEMMA AlarmSet ==
  ASSUME NEW t \in AlarmStates, NEW k, NEW newAlarm, NEW logged
  PROVE  Numeric!setThresholdAlarm(t, k, newAlarm, logged) \in AlarmStates
<1> DEFINE K == Numeric!Kinds
           r == Numeric!setThresholdAlarm(t, k, newAlarm, logged)
<1>1. t \in AlarmRecord /\ Says(t)
  BY DEF AlarmStates
<1>2. CASE k \notin K \/ (k \in t.alarms) = newAlarm
  <2>1. r = t
    BY <1>2 DEF Numeric!setThresholdAlarm
  <2> QED
    BY <2>1
<1>3. CASE ~(k \notin K \/ (k \in t.alarms) = newAlarm) /\ newAlarm
  <2> DEFINE s == [t EXCEPT !.alarms = @ \cup {k}]
  <2>1. r = Numeric!createThresholdLog(s, k, logged)
    BY <1>3 DEF Numeric!setThresholdAlarm, Numeric!Asserting
  <2>2. /\ s \in AlarmRecord /\ s.alarms = t.alarms \cup {k} /\ s.log \subseteq s.alarms
    BY <1>1, <1>3 DEF AlarmRecord, Says
  <2> HIDE DEF s
  <2> QED
    BY <1>3, <2>1, <2>2, LoggedThreshold
<1>4. CASE ~(k \notin K \/ (k \in t.alarms) = newAlarm) /\ ~newAlarm
  <2> DEFINE s == [t EXCEPT !.alarms = @ \ {k}, !.log = @ \ {k}]
  <2>1. r = IF Numeric!hasThresholdAlarm(s) THEN s ELSE Numeric!createNormalRangeLog(s, logged)
    BY <1>4 DEF Numeric!setThresholdAlarm, Numeric!Deasserting
  <2>2. /\ s \in AlarmRecord /\ s.alarms = t.alarms \ {k} /\ s.log \subseteq s.alarms
        /\ s.normal = t.normal /\ s.missed = t.missed
    BY <1>1 DEF AlarmRecord, Says
  <2> HIDE DEF s
  <2>3. r \in AlarmRecord /\ r.alarms = s.alarms /\ r.log \subseteq r.alarms
    BY <2>1, <2>2 DEF Numeric!createNormalRangeLog, AlarmRecord
  <2>4. ASSUME s.alarms # {} PROVE Says(r)
    <3>1. r = s
      BY <2>1, <2>4 DEF Numeric!hasThresholdAlarm
    <3>2. t.alarms # {}
      BY <2>2, <2>4
    <3> QED
      BY <1>1, <2>2, <2>3, <2>4, <3>1, <3>2 DEF Says
  <2>5. ASSUME s.alarms = {} PROVE Says(r)
    <3>1. r.missed = TRUE \/ (r.normal = TRUE /\ r.alarms = {})
      BY <2>1, <2>2, <2>5 DEF Numeric!hasThresholdAlarm, Numeric!createNormalRangeLog,
        AlarmRecord
    <3> QED
      BY <2>3, <3>1 DEF Says
  <2>6. Says(r)
    BY <2>4, <2>5
  <2> QED
    BY <1>4, <2>2, <2>3, <2>6 DEF AlarmStates
<1> QED
  BY <1>2, <1>3, <1>4

\* What the alarms are after one of them was asserted or deasserted
LEMMA AlarmOn ==
  ASSUME NEW t \in AlarmStates, NEW k, NEW logged
  PROVE  Numeric!setThresholdAlarm(t, k, TRUE, logged).alarms = Asserted(t.alarms, k)
<1> DEFINE r == Numeric!setThresholdAlarm(t, k, TRUE, logged)
           s == [t EXCEPT !.alarms = @ \cup {k}]
<1>1. t \in AlarmRecord
  BY DEF AlarmStates
<1>2. CASE k \notin Numeric!Kinds \/ k \in t.alarms
  <2>1. r = t
    BY <1>2 DEF Numeric!setThresholdAlarm
  <2> QED
    BY <1>1, <1>2, <2>1 DEF Asserted, AlarmRecord
<1>3. CASE k \in Numeric!Kinds /\ k \notin t.alarms
  <2>1. r = Numeric!createThresholdLog(s, k, logged)
    BY <1>3 DEF Numeric!setThresholdAlarm, Numeric!Asserting
  <2>2. s \in AlarmRecord /\ s.alarms = Asserted(t.alarms, k)
    BY <1>1, <1>3 DEF AlarmRecord, Asserted
  <2> HIDE DEF s
  <2> QED
    BY <2>1, <2>2 DEF Numeric!createThresholdLog, AlarmRecord
<1> QED
  BY <1>2, <1>3

LEMMA AlarmOff ==
  ASSUME NEW t \in AlarmStates, NEW k, NEW logged
  PROVE  Numeric!setThresholdAlarm(t, k, FALSE, logged).alarms = t.alarms \ {k}
<1> DEFINE r == Numeric!setThresholdAlarm(t, k, FALSE, logged)
           s == [t EXCEPT !.alarms = @ \ {k}, !.log = @ \ {k}]
<1>1. t \in AlarmRecord
  BY DEF AlarmStates
<1>2. CASE k \notin Numeric!Kinds \/ k \notin t.alarms
  <2>1. r = t
    BY <1>2 DEF Numeric!setThresholdAlarm
  <2> QED
    BY <1>1, <1>2, <2>1 DEF AlarmRecord
<1>3. CASE k \in Numeric!Kinds /\ k \in t.alarms
  <2>1. r = IF Numeric!hasThresholdAlarm(s) THEN s ELSE Numeric!createNormalRangeLog(s, logged)
    BY <1>3 DEF Numeric!setThresholdAlarm, Numeric!Deasserting
  <2>2. s \in AlarmRecord /\ s.alarms = t.alarms \ {k}
    BY <1>1 DEF AlarmRecord
  <2> HIDE DEF s
  <2> QED
    BY <2>1, <2>2 DEF Numeric!createNormalRangeLog, AlarmRecord
<1> QED
  BY <1>2, <1>3

\* Any changes of alarms, in any order, keep the logs true to the alarms.
LEMMA AlarmsSet ==
  ASSUME NEW t \in AlarmStates, NEW changes, NEW n \in Nat, DOMAIN changes = 1..n, NEW failed
  PROVE  Alarms!Fold(t, changes, failed) \in AlarmStates
<1> DEFINE I == [i \in 0..n |-> AlarmStates]
<1>1. t \in I[0]
  OBVIOUS
<1>2. ASSUME NEW i \in 1..n, NEW s \in I[i-1]
      PROVE  Numeric!setThresholdAlarm(s, changes[i][1], changes[i][2],
                                        changes[i] \notin failed) \in I[i]
  <2>1. s \in AlarmStates /\ I[i] = AlarmStates
    OBVIOUS
  <2> HIDE DEF I
  <2> QED
    BY <2>1, AlarmSet
<1>3. I[n] = AlarmStates
  OBVIOUS
<1> HIDE DEF I
<1> QED
  BY <1>1, <1>2, <1>3, Alarms!FoldInvariant

Changes == {<<Numeric!Kind(s), b>> : s \in Numeric!States, b \in BOOLEAN}

\* Changes that turn the alarms A into B
Settles(A, changes, B) ==
  /\ changes \in Seq(Changes)
  /\ \A failed : \A t \in AlarmStates :
       t.alarms = A => Alarms!Fold(t, changes, failed).alarms = B

LEMMA SettlesNone ==
  ASSUME NEW A
  PROVE  Settles(A, <<>>, A)
<1>1. <<>> \in Seq(Changes)
  OBVIOUS
<1>2. ASSUME NEW t, NEW failed PROVE Alarms!Fold(t, <<>>, failed) = t
  <2>1. DOMAIN <<>> = 1..0
    OBVIOUS
  <2> QED
    BY <2>1, Alarms!FoldOfNone
<1> QED
  BY <1>1, <1>2 DEF Settles

LEMMA SettlesOne ==
  ASSUME NEW A, NEW s \in Numeric!States
  PROVE  /\ Settles(A, <<<<Numeric!Kind(s), TRUE>>>>, Asserted(A, Numeric!Kind(s)))
         /\ Settles(A, <<<<Numeric!Kind(s), FALSE>>>>, A \ {Numeric!Kind(s)})
<1>1. ASSUME NEW t, NEW failed, NEW change
      PROVE  Alarms!Fold(t, <<change>>, failed) =
               Numeric!setThresholdAlarm(t, change[1], change[2], change \notin failed)
  <2>1. DOMAIN <<change>> = 1..1 /\ <<change>>[1] = change
    OBVIOUS
  <2> QED
    BY <2>1, Alarms!FoldOfOne
<1>2. ASSUME NEW b \in BOOLEAN PROVE <<<<Numeric!Kind(s), b>>>> \in Seq(Changes)
  <2>1. <<Numeric!Kind(s), b>> \in Changes
    BY DEF Changes
  <2> QED
    BY <2>1
<1>3. ASSUME NEW t, NEW failed, NEW b
      PROVE  Alarms!Fold(t, <<<<Numeric!Kind(s), b>>>>, failed) =
               Numeric!setThresholdAlarm(t, Numeric!Kind(s), b,
                                         <<Numeric!Kind(s), b>> \notin failed)
  BY <1>1
<1> DEFINE k == Numeric!Kind(s)
<1>6. ASSUME NEW t \in AlarmStates, NEW failed
      PROVE  /\ Alarms!Fold(t, <<<<k, TRUE>>>>, failed).alarms =
                  Asserted(t.alarms, k)
             /\ Alarms!Fold(t, <<<<k, FALSE>>>>, failed).alarms = t.alarms \ {k}
  <2> HIDE DEF k
  <2>1. Numeric!setThresholdAlarm(t, k, TRUE, <<k, TRUE>> \notin failed).alarms =
          Asserted(t.alarms, k)
    BY AlarmOn
  <2>2. Numeric!setThresholdAlarm(t, k, FALSE, <<k, FALSE>> \notin failed).alarms = t.alarms \ {k}
    BY AlarmOff
  <2>3. Alarms!Fold(t, <<<<k, TRUE>>>>, failed) =
          Numeric!setThresholdAlarm(t, k, TRUE, <<k, TRUE>> \notin failed)
    BY <1>3 DEF k
  <2>4. Alarms!Fold(t, <<<<k, FALSE>>>>, failed) =
          Numeric!setThresholdAlarm(t, k, FALSE, <<k, FALSE>> \notin failed)
    BY <1>3 DEF k
  <2>5. Alarms!Fold(t, <<<<k, TRUE>>>>, failed).alarms = Asserted(t.alarms, k)
    BY <2>1, <2>3
  <2>6. Alarms!Fold(t, <<<<k, FALSE>>>>, failed).alarms = t.alarms \ {k}
    BY <2>2, <2>4
  <2> QED
    BY <2>5, <2>6
<1>7. <<<<k, TRUE>>>> \in Seq(Changes) /\ <<<<k, FALSE>>>> \in Seq(Changes)
  BY <1>2
<1> HIDE DEF k
<1>4. Settles(A, <<<<k, TRUE>>>>, Asserted(A, k))
  BY <1>6, <1>7 DEF Settles
<1>5. Settles(A, <<<<k, FALSE>>>>, A \ {k})
  BY <1>6, <1>7 DEF Settles
<1> QED
  BY <1>4, <1>5 DEF k

LEMMA SettlesBoth ==
  ASSUME NEW A, NEW B, NEW C, NEW c, NEW d, Settles(A, c, B), Settles(B, d, C)
  PROVE  Settles(A, c \o d, C)
<1>1. c \in Seq(Changes) /\ d \in Seq(Changes)
  BY DEF Settles
<1>2. /\ c \o d \in Seq(Changes) /\ Len(c) \in Nat /\ Len(d) \in Nat
      /\ DOMAIN c = 1..Len(c) /\ DOMAIN d = 1..Len(d) /\ DOMAIN (c \o d) = 1..(Len(c) + Len(d))
      /\ \A i \in 1..Len(c) : (c \o d)[i] = c[i]
      /\ \A i \in 1..Len(d) : (c \o d)[Len(c) + i] = d[i]
  <2> HIDE DEF Changes
  <2> QED
    BY <1>1
<1> DEFINE cd == c \o d
           n == Len(c)
           m == Len(d)
<1>4. n \in Nat /\ m \in Nat
  BY <1>2
<1>5. /\ DOMAIN c = 1..n /\ DOMAIN d = 1..m /\ DOMAIN cd = 1..(n + m)
      /\ (\A i \in 1..n : cd[i] = c[i]) /\ (\A i \in 1..m : cd[n + i] = d[i])
  BY <1>2
<1>3. ASSUME NEW t \in AlarmStates, NEW failed, t.alarms = A
      PROVE  Alarms!Fold(t, c \o d, failed).alarms = C
  <2>1. Alarms!Fold(t, c \o d, failed) = Alarms!Fold(Alarms!Fold(t, c, failed), d, failed)
    <3> HIDE DEF n, m, cd
    <3>1. Alarms!Fold(t, cd, failed) = Alarms!Fold(Alarms!Fold(t, c, failed), d, failed)
      BY <1>4, <1>5, Alarms!FoldOfParts
    <3> QED
      BY <3>1 DEF cd
  <2>2. Alarms!Fold(t, c, failed) \in AlarmStates
    BY <1>2, AlarmsSet
  <2>3. Alarms!Fold(t, c, failed).alarms = B
    BY <1>3 DEF Settles
  <2> QED
    BY <2>1, <2>2, <2>3 DEF Settles
<1> QED
  BY <1>2, <1>3 DEF Settles

\* Pieces of which each turns the alarms into those the next one begins with
LEMMA SettlesFlat ==
  ASSUME NEW n \in 1..3, NEW ss, DOMAIN ss = 1..n, ss \in Seq(Seq(Changes)), NEW B,
         \A i \in 1..n : Settles(B[i-1], ss[i], B[i])
  PROVE  Settles(B[0], Numeric!FlattenSeq(ss), B[n])
<1> DEFINE Flat(f) == f = [i \in 1..n |-> IF i = 1 THEN ss[i] ELSE f[i-1] \o ss[i]]
           f0 == [i \in 1..n |-> IF i = 1 THEN ss[1] ELSE IF i = 2 THEN ss[1] \o ss[2]
                                 ELSE (ss[1] \o ss[2]) \o ss[3]]
           flat == CHOOSE f : Flat(f)
<1>1. Len(ss) = n
  <2> HIDE DEF Changes
  <2> QED
    OBVIOUS
<1>2. Flat(f0)
  <2> SUFFICES ASSUME NEW i \in 1..n
               PROVE  f0[i] = IF i = 1 THEN ss[i] ELSE f0[i-1] \o ss[i]
    OBVIOUS
  <2>1. i = 1 \/ (i = 2 /\ i - 1 = 1) \/ (i = 3 /\ i - 1 = 2)
    OBVIOUS
  <2>2. \A j \in 1..n : j = 1 => f0[j] = ss[1]
    OBVIOUS
  <2>3. \A j \in 1..n : j = 2 => f0[j] = ss[1] \o ss[2]
    OBVIOUS
  <2>4. ASSUME NEW j \in 1..n, j = 3 PROVE f0[j] = (ss[1] \o ss[2]) \o ss[3]
    <3>1. j # 1 /\ j # 2
      BY <2>4
    <3> DEFINE s3 == (ss[1] \o ss[2]) \o ss[3]
    <3> HIDE DEF s3
    <3>2. f0 = [k \in 1..n |-> IF k = 1 THEN ss[1] ELSE IF k = 2 THEN ss[1] \o ss[2] ELSE s3]
      BY DEF s3
    <3> HIDE DEF f0
    <3>3. f0[j] = s3
      BY <3>1, <3>2
    <3> QED
      BY <3>3 DEF s3
  <2> HIDE DEF f0
  <2>5. i - 1 \in 1..n \/ i = 1
    OBVIOUS
  <2> QED
    BY <2>1, <2>2, <2>3, <2>4, <2>5
<1>3. Numeric!FlattenSeq(ss) = flat[n]
  BY <1>1 DEF Numeric!FlattenSeq
<1> HIDE DEF f0
<1>4. Flat(flat)
  BY <1>2, Zenon
<1> HIDE DEF flat
<1>5. \A i \in 1..n : flat[i] = IF i = 1 THEN ss[i] ELSE flat[i-1] \o ss[i]
  BY <1>4
<1> HIDE DEF Flat
<1>6. 1 \in 1..n /\ flat[1] = ss[1] /\ Settles(B[0], ss[1], B[1])
  <2>1. 1 \in 1..n /\ 1 - 1 = 0
    OBVIOUS
  <2>2. Settles(B[1-1], ss[1], B[1])
    BY <2>1
  <2> QED
    BY <1>5, <2>1, <2>2
<1>7. n >= 2 => Settles(B[0], flat[2], B[2])
  <2> SUFFICES ASSUME n >= 2 PROVE Settles(B[0], flat[2], B[2])
    OBVIOUS
  <2>1. 2 \in 1..n /\ 2 - 1 = 1 /\ 2 # 1
    OBVIOUS
  <2>2. Settles(B[2-1], ss[2], B[2]) /\ flat[2] = flat[2-1] \o ss[2]
    BY <1>5, <2>1
  <2> QED
    BY <1>6, <2>1, <2>2, SettlesBoth
<1>8. n = 3 => Settles(B[0], flat[3], B[3])
  <2> SUFFICES ASSUME n = 3 PROVE Settles(B[0], flat[3], B[3])
    OBVIOUS
  <2>1. 3 \in 1..n /\ 3 - 1 = 2 /\ 3 # 1 /\ n >= 2
    OBVIOUS
  <2>2. Settles(B[3-1], ss[3], B[3]) /\ flat[3] = flat[3-1] \o ss[3]
    BY <1>5, <2>1
  <2> QED
    BY <1>7, <2>1, <2>2, SettlesBoth
<1>9. n = 1 \/ n = 2 \/ n = 3
  OBVIOUS
<1> QED
  BY <1>3, <1>6, <1>7, <1>8, <1>9

\* The state one nearer to the normal one
Toward(s) == IF s > 4 THEN s - 1 ELSE s + 1
Outside == Numeric!States \ {Numeric!Normal}

LEMMA AlarmsNested ==
  /\ Numeric!AlarmsOf(Numeric!Normal) = {}
  /\ \A s \in Outside :
       /\ Toward(s) \in Numeric!States
       /\ Numeric!AlarmsOf(s) \ {Numeric!Kind(s)} = Numeric!AlarmsOf(Toward(s))
       /\ Asserted(Numeric!AlarmsOf(Toward(s)), Numeric!Kind(s)) = Numeric!AlarmsOf(s)
       /\ Asserted(Numeric!AlarmsOf(s), Numeric!Kind(s)) = Numeric!AlarmsOf(s)
<1> DEFINE M(s) == {y \in Numeric!States : (Numeric!Normal < y /\ y <= s) \/ (s <= y /\ y < Numeric!Normal)}
           A(s) == Numeric!AlarmsOf(s)
           K(s) == Numeric!Kind(s)
<1>1. \A s : A(s) = {K(x) : x \in M(s)} \cap Numeric!Kinds
  BY DEF Numeric!AlarmsOf
<1>2. M(Numeric!Normal) = {}
  BY DEF Numeric!Normal, Numeric!States
<1>3. \A s \in Outside : /\ Toward(s) \in Numeric!States /\ s \notin M(Toward(s))
                         /\ M(s) = M(Toward(s)) \cup {s} /\ M(s) \subseteq Outside
  BY DEF Numeric!Normal, Numeric!States, Toward, Outside
<1>4. \A x, y \in Outside : K(x) = K(y) => x = y
  <2>1. /\ K(1) = <<"hardShutdown", "low">> /\ K(2) = <<"critical", "low">>
        /\ K(3) = <<"warning", "low">> /\ K(5) = <<"warning", "high">>
        /\ K(6) = <<"critical", "high">> /\ K(7) = <<"hardShutdown", "high">>
    <3>1. /\ Numeric!Levels[1] = "warning" /\ Numeric!Levels[2] = "critical"
          /\ Numeric!Levels[3] = "hardShutdown"
      BY DEF Numeric!Levels
    <3>2. /\ K(1) = <<Numeric!Levels[3], "low">> /\ K(2) = <<Numeric!Levels[2], "low">>
          /\ K(3) = <<Numeric!Levels[1], "low">> /\ K(5) = <<Numeric!Levels[1], "high">>
          /\ K(6) = <<Numeric!Levels[2], "high">> /\ K(7) = <<Numeric!Levels[3], "high">>
      BY DEF Numeric!Kind, Numeric!Normal
    <3> QED
      BY <3>1, <3>2
  <2>2. Outside = {1, 2, 3, 5, 6, 7}
    BY DEF Outside, Numeric!States, Numeric!Normal
  <2> HIDE DEF K
  <2> QED
    BY <2>1, <2>2
<1> HIDE DEF M, K
<1>5. A(Numeric!Normal) = {}
  BY <1>1, <1>2
<1>6. ASSUME NEW s \in Outside
      PROVE  /\ Toward(s) \in Numeric!States
             /\ A(s) \ {K(s)} = A(Toward(s))
             /\ Asserted(A(Toward(s)), K(s)) = A(s)
             /\ Asserted(A(s), K(s)) = A(s)
  <2>1. /\ A(s) = {K(x) : x \in M(s)} \cap Numeric!Kinds
        /\ A(Toward(s)) = {K(x) : x \in M(Toward(s))} \cap Numeric!Kinds
    BY <1>1
  <2> DEFINE T == M(Toward(s))
  <2>2. M(s) = T \cup {s} /\ s \notin T /\ T \subseteq Outside
    BY <1>3
  <2> HIDE DEF T, A
  <2>3. {K(x) : x \in M(s)} = {K(x) : x \in T} \cup {K(s)} /\ K(s) \notin {K(x) : x \in T}
    BY <1>4, <2>2
  <2> QED
    BY <1>3, <2>1, <2>3 DEF Asserted, T
<1> QED
  BY <1>5, <1>6 DEF K

\* Passing a state on the way to the normal one, and on the way out
LEMMA PassedSettles ==
  ASSUME NEW prev, NEW s \in Numeric!States
  PROVE  /\ s # Numeric!Normal =>
              /\ Settles(Numeric!AlarmsOf(s), Numeric!Passed(prev, s, TRUE), Numeric!AlarmsOf(Toward(s)))
              /\ Settles(Numeric!AlarmsOf(s), Numeric!Passed(prev, s, FALSE), Numeric!AlarmsOf(s))
              /\ Settles(Numeric!AlarmsOf(Toward(s)), Numeric!Passed(prev, s, FALSE), Numeric!AlarmsOf(s))
         /\ s = Numeric!Normal =>
              Settles(Numeric!AlarmsOf(s), Numeric!Passed(prev, s, FALSE), Numeric!AlarmsOf(s))
<1> DEFINE A == Numeric!AlarmsOf(s)
           B == Numeric!AlarmsOf(Toward(s))
           on == <<<<Numeric!Kind(s), TRUE>>>>
           off == <<<<Numeric!Kind(s), FALSE>>>>
<1>1. CASE s # Numeric!Normal
  <2>1. s \in Outside
    BY <1>1 DEF Outside
  <2>2. /\ A \ {Numeric!Kind(s)} = B /\ Asserted(B, Numeric!Kind(s)) = A
        /\ Asserted(A, Numeric!Kind(s)) = A
    BY <2>1, AlarmsNested
  <2>3. Settles(A, on, A) /\ Settles(B, on, A) /\ Settles(A, off, B)
    <3> HIDE DEF A, B
    <3>1. Settles(A, on, Asserted(A, Numeric!Kind(s))) /\ Settles(A, off, A \ {Numeric!Kind(s)})
      BY SettlesOne
    <3>2. Settles(B, on, Asserted(B, Numeric!Kind(s)))
      BY SettlesOne
    <3> QED
      BY <2>2, <3>1, <3>2
  <2>4. Numeric!Passed(prev, s, FALSE) = on
    BY <1>1 DEF Numeric!Passed
  <2>5. Numeric!Passed(prev, s, TRUE) = (IF s = prev THEN <<>> ELSE on) \o off
    BY <1>1 DEF Numeric!Passed
  <2> HIDE DEF A, B, on, off
  <2>6. Settles(A, (IF s = prev THEN <<>> ELSE on) \o off, B)
    <3>1. Settles(A, IF s = prev THEN <<>> ELSE on, A)
      BY <2>3, SettlesNone
    <3> QED
      BY <2>3, <3>1, SettlesBoth
  <2>7. s # Numeric!Normal => /\ Settles(A, Numeric!Passed(prev, s, TRUE), B)
                              /\ Settles(A, Numeric!Passed(prev, s, FALSE), A)
                              /\ Settles(B, Numeric!Passed(prev, s, FALSE), A)
    BY <2>3, <2>4, <2>5, <2>6
  <2> QED
    BY <1>1, <2>7 DEF A, B
<1>2. CASE s = Numeric!Normal
  <2>1. Numeric!Passed(prev, s, FALSE) = <<>>
    BY <1>2 DEF Numeric!Passed
  <2> QED
    BY <1>2, <2>1, SettlesNone
<1> QED
  BY <1>1, <1>2

\* From one state to another that is not across the normal one
LEMMA OneSideSettles ==
  ASSUME NEW prev \in Numeric!States, NEW next \in Numeric!States, prev # next,
         (prev <= 4 /\ next <= 4) \/ (prev >= 4 /\ next >= 4)
  PROVE  Settles(Numeric!AlarmsOf(prev), Numeric!OneSide(prev, next), Numeric!AlarmsOf(next))
<1> DEFINE up == prev < next
           n == IF up THEN next - prev ELSE prev - next
           better == (up /\ prev < 4) \/ (~up /\ prev > 4)
           at(i) == IF up THEN prev + i - 1 ELSE prev - i + 1
           ss == [i \in 1..n |-> Numeric!Passed(prev, at(i), better)]
           B == [i \in 0..n |-> IF better THEN Numeric!AlarmsOf(at(i+1))
                                ELSE IF i = 0 THEN Numeric!AlarmsOf(prev) ELSE Numeric!AlarmsOf(at(i))]
           tail == IF next = 4 THEN <<>> ELSE <<<<Numeric!Kind(next), TRUE>>>>
<1>0. Numeric!States = 1..7 /\ Numeric!Normal = 4
  BY DEF Numeric!States, Numeric!Normal
<1>1. Numeric!OneSide(prev, next) = Numeric!FlattenSeq(ss) \o tail
  BY <1>0 DEF Numeric!OneSide
<1>2. n \in 1..3 /\ at(1) = prev /\ at(n+1) = next
  BY <1>0
<1>3. \A i \in 1..n : at(i) \in 1..7
  BY <1>0
<1>4. better => \A i \in 1..n : at(i) # 4 /\ Toward(at(i)) = at(i+1)
  BY <1>0 DEF Toward
<1>5. ~better => /\ \A i \in 2..n : at(i) # 4 /\ Toward(at(i)) = at(i-1)
                 /\ next # 4 /\ Toward(next) = at(n)
  BY <1>0 DEF Toward
<1>6. better \in BOOLEAN
  OBVIOUS
<1> HIDE DEF better, at, n, tail
<1>7. ASSUME NEW i \in 1..n PROVE Settles(B[i-1], ss[i], B[i])
  <2>1. at(i) \in Numeric!States /\ i - 1 \in 0..n /\ i \in 0..n /\ (i - 1) + 1 = i
    BY <1>0, <1>2, <1>3
  <2>2. ss[i] = Numeric!Passed(prev, at(i), better)
    OBVIOUS
  <2>3. CASE better
    <3>1. ss[i] = Numeric!Passed(prev, at(i), TRUE)
      BY <1>6, <2>2, <2>3
    <3>2. B[i-1] = Numeric!AlarmsOf(at(i)) /\ B[i] = Numeric!AlarmsOf(at(i+1))
      BY <2>1, <2>3
    <3>3. at(i) # Numeric!Normal /\ Toward(at(i)) = at(i+1)
      BY <1>0, <1>4, <2>3
    <3> HIDE DEF B, ss
    <3> QED
      BY <2>1, <3>1, <3>2, <3>3, PassedSettles
  <2>4. CASE ~better
    <3>1. ss[i] = Numeric!Passed(prev, at(i), FALSE)
      BY <1>6, <2>2, <2>4
    <3>2. B[i] = Numeric!AlarmsOf(at(i))
      BY <2>1, <2>4
    <3>3. i = 1 => B[i-1] = Numeric!AlarmsOf(at(i))
      BY <1>2, <2>1, <2>4
    <3>4. i # 1 => B[i-1] = Numeric!AlarmsOf(Toward(at(i))) /\ at(i) # Numeric!Normal
      <4> SUFFICES ASSUME i # 1
                   PROVE  B[i-1] = Numeric!AlarmsOf(Toward(at(i))) /\ at(i) # Numeric!Normal
        OBVIOUS
      <4>1. i \in 2..n /\ i - 1 # 0
        BY <1>2
      <4>2. B[i-1] = Numeric!AlarmsOf(at(i-1))
        BY <2>1, <2>4, <4>1
      <4> QED
        BY <1>0, <1>5, <2>4, <4>1, <4>2
    <3> HIDE DEF B, ss
    <3>5. Settles(Numeric!AlarmsOf(at(i)), Numeric!Passed(prev, at(i), FALSE), Numeric!AlarmsOf(at(i)))
      BY <2>1, PassedSettles
    <3> QED
      BY <2>1, <3>1, <3>2, <3>3, <3>4, <3>5, PassedSettles
  <2> QED
    BY <2>3, <2>4
<1>8. ss \in Seq(Seq(Changes)) /\ DOMAIN ss = 1..n
  <2>1. \A i \in 1..n : ss[i] \in Seq(Changes)
    BY <1>7 DEF Settles
  <2>2. ss \in [1..n -> Seq(Changes)] /\ DOMAIN ss = 1..n
    BY <2>1
  <2> HIDE DEF ss
  <2> QED
    BY <1>2, <2>2
<1>9. B[0] = Numeric!AlarmsOf(prev)
  <2>1. 0 \in 0..n /\ 0 + 1 = 1
    BY <1>2
  <2> QED
    BY <1>2, <2>1
<1>10. B[n] = IF better THEN Numeric!AlarmsOf(next) ELSE Numeric!AlarmsOf(at(n))
  <2>1. n \in 0..n /\ n # 0
    BY <1>2
  <2> QED
    BY <1>2, <2>1
<1> HIDE DEF B, ss
<1>11. Settles(B[0], Numeric!FlattenSeq(ss), B[n])
  BY <1>2, <1>7, <1>8, SettlesFlat
<1>12. Settles(B[n], tail, Numeric!AlarmsOf(next))
  <2>1. CASE next = 4
    <3>1. tail = <<>> /\ better
      BY <1>5, <2>1 DEF tail
    <3> QED
      BY <1>10, <3>1, SettlesNone
  <2>2. CASE next # 4
    <3>1. tail = <<<<Numeric!Kind(next), TRUE>>>>
      BY <2>2 DEF tail
    <3>2. Settles(B[n], tail, Asserted(B[n], Numeric!Kind(next)))
      BY <3>1, SettlesOne
    <3>3. next \in Outside
      BY <1>0, <2>2 DEF Outside
    <3>4. Asserted(B[n], Numeric!Kind(next)) = Numeric!AlarmsOf(next)
      BY <1>5, <1>10, <3>3, AlarmsNested
    <3> QED
      BY <3>2, <3>4
  <2> QED
    BY <2>1, <2>2
<1> QED
  BY <1>1, <1>9, <1>11, <1>12, SettlesBoth

\* From any state to any other
LEMMA TriggeredSettles ==
  ASSUME NEW prev \in Numeric!States, NEW next \in Numeric!States
  PROVE  Settles(Numeric!AlarmsOf(prev), Numeric!Triggered(prev, next), Numeric!AlarmsOf(next))
<1>0. Numeric!States = 1..7 /\ Numeric!Normal = 4 /\ 4 \in Numeric!States
  BY DEF Numeric!States, Numeric!Normal
<1> DEFINE across == (prev < 4 /\ next > 4) \/ (prev > 4 /\ next < 4)
<1>1. CASE prev = next
  BY <1>1, SettlesNone DEF Numeric!Triggered
<1>2. CASE prev # next /\ across
  <2>1. Numeric!Triggered(prev, next) = Numeric!OneSide(prev, 4) \o Numeric!OneSide(4, next)
    BY <1>0, <1>2 DEF Numeric!Triggered
  <2>2. Settles(Numeric!AlarmsOf(prev), Numeric!OneSide(prev, 4), Numeric!AlarmsOf(4))
    <3>1. prev # 4 /\ (prev <= 4 \/ prev >= 4)
      BY <1>0, <1>2
    <3> QED
      BY <1>0, <3>1, OneSideSettles
  <2>3. Settles(Numeric!AlarmsOf(4), Numeric!OneSide(4, next), Numeric!AlarmsOf(next))
    <3>1. next # 4 /\ (next <= 4 \/ next >= 4)
      BY <1>0, <1>2
    <3> QED
      BY <1>0, <3>1, OneSideSettles
  <2> QED
    BY <2>1, <2>2, <2>3, SettlesBoth
<1>3. CASE prev # next /\ ~across
  <2>1. Numeric!Triggered(prev, next) = Numeric!OneSide(prev, next)
    BY <1>0, <1>3 DEF Numeric!Triggered
  <2>2. (prev <= 4 /\ next <= 4) \/ (prev >= 4 /\ next >= 4)
    BY <1>0, <1>3
  <2> QED
    BY <1>3, <2>1, <2>2, OneSideSettles
<1> QED
  BY <1>1, <1>2, <1>3

\* A step that applies changes to the alarms
LEMMA SetAlarmsStays ==
  ASSUME Numeric!NumericInv, NEW changes, NEW n \in Nat, DOMAIN changes = 1..n,
         Numeric!SetAlarms(changes)
  PROVE  /\ v3' \subseteq Numeric!Kinds /\ {v7', v8'} \subseteq BOOLEAN
         /\ v4' \subseteq v3' /\ (v8' \/ (v7' <=> v3' = {}))
         /\ \A B : Settles(v3, changes, B) => v3' = B
<1> DEFINE t == [alarms |-> v3, log |-> v4, normal |-> v7, missed |-> v8]
<1>1. t \in AlarmStates
  BY DEF AlarmStates, AlarmRecord, Says, Numeric!NumericInv, Numeric!LogsOfAlarmsOnly, Numeric!NormalRangeWhenNoAlarm
<1>2. PICK failed :
        LET s == Alarms!Fold(t, changes, failed) IN
        v3' = s.alarms /\ v4' = s.log /\ v7' = s.normal /\ v8' = s.missed
  BY DEF Numeric!SetAlarms, Numeric!FoldLeft, Numeric!MapThenFoldSet, Numeric!Max,
    Alarms!Fold, Alarms!Iter, Alarms!Solves, Alarms!Step, Alarms!Largest
<1> DEFINE s == Alarms!Fold(t, changes, failed)
<1>3. t.alarms = v3
  OBVIOUS
<1> HIDE DEF t
<1>4. s \in AlarmStates
  BY <1>1, AlarmsSet
<1>5. \A B : Settles(v3, changes, B) => s.alarms = B
  BY <1>1, <1>3 DEF Settles
<1>6. v3' = s.alarms /\ v4' = s.log /\ v7' = s.normal /\ v8' = s.missed
  BY <1>2
<1> HIDE DEF s
<1>7. /\ v3' \subseteq Numeric!Kinds /\ {v7', v8'} \subseteq BOOLEAN
      /\ v4' \subseteq v3' /\ (v8' \/ (v7' <=> v3' = {}))
  BY <1>4, <1>6 DEF AlarmStates, AlarmRecord, Says
<1> QED
  BY <1>5, <1>6, <1>7

LEMMA NumericInit == Numeric!Init => Numeric!NumericInv
  BY DEF Numeric!Init, Numeric!NumericInv, Numeric!LogsOfAlarmsOnly,
    Numeric!NormalRangeWhenNoAlarm, Numeric!EventsSettleAlarms

LEMMA NumericNext == Numeric!NumericInv /\ [Numeric!Next]_Numeric!vars => Numeric!NumericInv'
<1> SUFFICES ASSUME Numeric!NumericInv, [Numeric!Next]_Numeric!vars PROVE Numeric!NumericInv'
  OBVIOUS
<1> USE DEF Numeric!NumericInv, Numeric!LogsOfAlarmsOnly, Numeric!NormalRangeWhenNoAlarm,
  Numeric!EventsSettleAlarms
<1>0. UNCHANGED v6 => UNCHANGED Numeric!Kinds /\ \A s : UNCHANGED Numeric!AlarmsOf(s)
  BY DEF Numeric!Kinds, Numeric!AlarmsOf
<1>1. ASSUME NEW available, NEW functional, NEW raw,
             Numeric!updateReading(available, functional, raw)
      PROVE  Numeric!NumericInv'
  <2>1. UNCHANGED v6 /\ v5' = 0
    BY <1>1 DEF Numeric!updateReading
  <2>2. CASE UNCHANGED <<v3, v4, v7, v8>>
    BY <1>0, <2>1, <2>2
  <2>3. CASE Numeric!updateThresholds(Numeric!conversionFormula(raw))
    <3> DEFINE v == Numeric!conversionFormula(raw)
               changes == [i \in 1..6 |->
                 <<Numeric!AllKinds[i], Numeric!AllKinds[i] \in Numeric!Kinds
                     /\ Numeric!checkThreshold(Numeric!AllKinds[i] \in v3, Numeric!AllKinds[i], v)>>]
    <3>1. Numeric!SetAlarms(changes) /\ DOMAIN changes = 1..6 /\ 6 \in Nat
      BY <2>3 DEF Numeric!updateThresholds
    <3> HIDE DEF changes
    <3>2. /\ v3' \subseteq Numeric!Kinds /\ {v7', v8'} \subseteq BOOLEAN
          /\ v4' \subseteq v3' /\ (v8' \/ (v7' <=> v3' = {}))
      BY <3>1, SetAlarmsStays
    <3> QED
      BY <1>0, <2>1, <3>2
  <2> QED
    BY <1>1, <2>2, <2>3 DEF Numeric!updateReading
<1>2. CASE Numeric!handleErrGetSensorReading
  BY <1>0, <1>2 DEF Numeric!handleErrGetSensorReading
<1>3. CASE Numeric!processNumericSensorEvent
  <2>1. PICK prev \in Numeric!States, next \in Numeric!States :
          /\ Numeric!SetAlarms(Numeric!Triggered(prev, next))
          /\ v5' = IF v3 = Numeric!AlarmsOf(prev) THEN next ELSE 0
          /\ UNCHANGED <<v6, v1, v2>>
    BY <1>3 DEF Numeric!processNumericSensorEvent
  <2> DEFINE changes == Numeric!Triggered(prev, next)
  <2>2. Settles(Numeric!AlarmsOf(prev), changes, Numeric!AlarmsOf(next))
    BY TriggeredSettles
  <2> HIDE DEF changes
  <2>3. DOMAIN changes = 1..Len(changes) /\ Len(changes) \in Nat
    BY <2>2 DEF Settles
  <2>4. Numeric!SetAlarms(changes)
    BY <2>1 DEF changes
  <2>5. /\ v3' \subseteq Numeric!Kinds /\ {v7', v8'} \subseteq BOOLEAN
        /\ v4' \subseteq v3' /\ (v8' \/ (v7' <=> v3' = {}))
        /\ \A B : Settles(v3, changes, B) => v3' = B
    BY <2>3, <2>4, SetAlarmsStays
  <2>6. v3 = Numeric!AlarmsOf(prev) => v3' = Numeric!AlarmsOf(next)
    BY <2>2, <2>5
  <2> QED
    BY <1>0, <2>1, <2>5, <2>6
<1>4. CASE UNCHANGED Numeric!vars
  BY <1>0, <1>4 DEF Numeric!vars
<1> QED
  BY <1>1, <1>2, <1>3, <1>4 DEF Numeric!Next, Numeric!getSensorReading, Numeric!disableTerminusSensors

LEMMA NumericStays ==
  (component = "numeric" => Numeric!NumericInv) /\ [DeviceNext]_vars
    => (component = "numeric" => Numeric!NumericInv)'
<1> SUFFICES ASSUME component' = "numeric", [DeviceNext]_vars,
                    component = "numeric" => Numeric!NumericInv
             PROVE  Numeric!NumericInv'
  OBVIOUS
<1>1. CASE NumericStep
  BY <1>1, NumericNext DEF NumericStep, Only
<1>2. CASE UNCHANGED vars
  BY <1>2, NumericNext, OthersElsewhere DEF vars, Numeric!vars
<1> QED
  BY <1>1, <1>2, OthersElsewhere

-----------------------------------------------------------------------------
\* TerminusPdrs: v1 is stage, v2 is terminus, v3 is refused.

Parsed == INSTANCE FoldInduction WITH
  Op <- LAMBDA o, p, none : SensorPdrs!parsePDR(o, p)

LEMMA ParsedFold ==
  ASSUME NEW o, NEW pdrs
  PROVE  SensorPdrs!FoldLeft(SensorPdrs!parsePDR, o, pdrs) = Parsed!Fold(o, pdrs, 0)
  BY DEF SensorPdrs!FoldLeft, SensorPdrs!MapThenFoldSet, SensorPdrs!Max,
    Parsed!Fold, Parsed!Iter, Parsed!Solves, Parsed!Step, Parsed!Largest

Fields == DOMAIN SensorPdrs!NewTerminus

\* A terminus that is being parsed
Parsing(o) ==
  /\ DOMAIN o = Fields
  /\ o.numericSensorPdrs \in Seq(SensorPdrs!Pdr)
  /\ o.compactNumericSensorPdrs \in Seq(SensorPdrs!Pdr)
  /\ o.sensorPdrIt = 0 /\ o.sensorCreationEvent = <<>> /\ o.numericSensors = <<>>

LEMMA FieldsKnown ==
  Fields = {"terminusName", "sensorAuxiliaryNamesTbl", "entityAuxiliaryNamesTbl",
            "numericSensorPdrs", "compactNumericSensorPdrs", "inventoryItemInft",
            "sensorPdrIt", "sensorCreationEvent", "numericSensors"}
  BY DEF Fields, SensorPdrs!NewTerminus

LEMMA NewKnown ==
  SensorPdrs!NewTerminus.sensorCreationEvent = <<>> /\ SensorPdrs!NewTerminus.terminusName = ""
  BY DEF SensorPdrs!NewTerminus

LEMMA NewIsParsing == Parsing(SensorPdrs!NewTerminus)
<1>1. <<>> \in Seq(SensorPdrs!Pdr)
  OBVIOUS
<1> QED
  BY <1>1 DEF Parsing, Fields, SensorPdrs!NewTerminus

LEMMA PdrParsed ==
  ASSUME NEW o, Parsing(o), NEW p \in SensorPdrs!Pdr
  PROVE  Parsing(SensorPdrs!parsePDR(o, p))
<1>1. <<>> \in Seq(SensorPdrs!Pdr) /\ <<p>> \in Seq(SensorPdrs!Pdr)
  OBVIOUS
<1> DEFINE n == o.numericSensorPdrs
           c == o.compactNumericSensorPdrs
<1>2. /\ n \o <<>> \in Seq(SensorPdrs!Pdr) /\ n \o <<p>> \in Seq(SensorPdrs!Pdr)
      /\ c \o <<>> \in Seq(SensorPdrs!Pdr) /\ c \o <<p>> \in Seq(SensorPdrs!Pdr)
  <2>1. n \in Seq(SensorPdrs!Pdr) /\ c \in Seq(SensorPdrs!Pdr)
    BY DEF Parsing
  <2> HIDE DEF n, c
  <2> QED
    BY <1>1, <2>1, ConcatProperties
<1>3. /\ n \o SensorPdrs!parseNumericSensorPDR(p) \in Seq(SensorPdrs!Pdr)
      /\ c \o SensorPdrs!parseCompactNumericSensorPDR(p) \in Seq(SensorPdrs!Pdr)
  BY <1>2 DEF SensorPdrs!parseNumericSensorPDR, SensorPdrs!parseCompactNumericSensorPDR
<1> QED
  BY <1>3, FieldsKnown DEF Parsing, SensorPdrs!parsePDR

LEMMA TableParsed ==
  ASSUME NEW o, Parsing(o), NEW pdrs \in Seq(SensorPdrs!Pdr)
  PROVE  Parsing(SensorPdrs!FoldLeft(SensorPdrs!parsePDR, o, pdrs))
<1> DEFINE n == Len(pdrs)
           r == Parsed!Iter(o, pdrs, 0)
           S == {k \in Nat : k <= n => Parsing(r[1..k])}
<1>0. n \in Nat /\ DOMAIN pdrs = 1..n /\ \A i \in 1..n : pdrs[i] \in SensorPdrs!Pdr
  BY ElementOfSeq
<1>1. /\ r[{}] = o
      /\ \A k \in 1..n : r[1..k] = SensorPdrs!parsePDR(r[1..(k-1)], pdrs[k])
  BY <1>0, Parsed!IterSteps
<1> HIDE DEF r, n
<1>2. 0 \in S
  <2>1. 1..0 = {}
    OBVIOUS
  <2> QED
    BY <1>1, <2>1
<1>3. ASSUME NEW k \in S \cap Nat PROVE k + 1 \in S
  <2> SUFFICES ASSUME k + 1 <= n PROVE Parsing(r[1..(k+1)])
    OBVIOUS
  <2>1. k + 1 \in 1..n /\ (k + 1) - 1 = k /\ Parsing(r[1..k])
    BY <1>0
  <2>2. r[1..(k+1)] = SensorPdrs!parsePDR(r[1..k], pdrs[k+1])
    BY <1>1, <2>1
  <2> QED
    BY <1>0, <2>1, <2>2, PdrParsed
<1>4. Parsing(r[1..n])
  <2>1. Nat \subseteq S
    <3> HIDE DEF S
    <3> QED
      BY <1>2, <1>3, Parsed!InductionOnSet
  <2> QED
    BY <1>0, <2>1
<1>5. SensorPdrs!FoldLeft(SensorPdrs!parsePDR, o, pdrs) = r[1..n]
  BY <1>0, ParsedFold DEF Parsed!Fold, r
<1> QED
  BY <1>4, <1>5

\* What a walk is about does not depend on how far it is.
LEMMA SameSensors ==
  ASSUME NEW o, NEW q,
         q.numericSensorPdrs = o.numericSensorPdrs,
         q.compactNumericSensorPdrs = o.compactNumericSensorPdrs,
         q.terminusName = o.terminusName,
         q.sensorAuxiliaryNamesTbl = o.sensorAuxiliaryNamesTbl
  PROVE  /\ SensorPdrs!SensorPdrs(q) = SensorPdrs!SensorPdrs(o)
         /\ \A id : SensorPdrs!getSensorNames(q, id) = SensorPdrs!getSensorNames(o, id)
         /\ SensorPdrs!SensorsOf(q) = SensorPdrs!SensorsOf(o)
<1>1. SensorPdrs!SensorPdrs(q) = SensorPdrs!SensorPdrs(o)
  BY DEF SensorPdrs!SensorPdrs
<1>2. \A id : SensorPdrs!getSensorNames(q, id) = SensorPdrs!getSensorNames(o, id)
  BY DEF SensorPdrs!getSensorNames, SensorPdrs!getSensorAuxiliaryNames, SensorPdrs!SelectInSeq
<1> QED
  BY <1>1, <1>2 DEF SensorPdrs!SensorsOf

\* The walk before the creation of its next sensor is deferred: those up to the
\* n-th are done.
Done(o, r, n) ==
  /\ DOMAIN o = Fields
  /\ o.numericSensorPdrs \in Seq(SensorPdrs!Pdr)
  /\ o.compactNumericSensorPdrs \in Seq(SensorPdrs!Pdr)
  /\ n = o.sensorPdrIt /\ n \in 0..Len(SensorPdrs!SensorPdrs(o))
  /\ o.numericSensors \in SensorPdrs!SensorsOf(o)
  /\ \A i, j \in DOMAIN o.numericSensors :
       o.numericSensors[i].name = o.numericSensors[j].name => i = j
  /\ \A j \in DOMAIN SensorPdrs!SensorPdrs(o) : j <= n =>
       \/ SensorPdrs!SensorPdrs(o)[j].id \in r
       \/ \E i \in DOMAIN o.numericSensors :
            o.numericSensors[i].id = SensorPdrs!SensorPdrs(o)[j].id

LEMMA PdrsTyped ==
  ASSUME NEW o, o.numericSensorPdrs \in Seq(SensorPdrs!Pdr),
         o.compactNumericSensorPdrs \in Seq(SensorPdrs!Pdr)
  PROVE  /\ SensorPdrs!SensorPdrs(o) \in Seq(SensorPdrs!Pdr)
         /\ Len(SensorPdrs!SensorPdrs(o)) \in Nat
         /\ DOMAIN SensorPdrs!SensorPdrs(o) = 1..Len(SensorPdrs!SensorPdrs(o))
<1>1. SensorPdrs!SensorPdrs(o) \in Seq(SensorPdrs!Pdr)
  BY ConcatProperties DEF SensorPdrs!SensorPdrs
<1> QED
  BY <1>1

LEMMA NextAdded ==
  ASSUME NEW o, NEW r, NEW n, Done(o, r, n)
  PROVE  SensorPdrs!Walk(SensorPdrs!addNextSensorFromPDRs(o), r)
<1> DEFINE q == SensorPdrs!addNextSensorFromPDRs(o)
           s == SensorPdrs!SensorPdrs(o)
<1>0. /\ s \in Seq(SensorPdrs!Pdr) /\ Len(s) \in Nat /\ DOMAIN s = 1..Len(s)
      /\ n \in 0..Len(s) /\ n = o.sensorPdrIt /\ DOMAIN o = Fields
  BY PdrsTyped DEF Done
<1>1. q = IF n < Len(s)
          THEN [o EXCEPT !.sensorCreationEvent = <<s[n + 1]>>, !.sensorPdrIt = n + 1]
          ELSE [o EXCEPT !.sensorCreationEvent = <<>>, !.sensorPdrIt = 0]
  BY <1>0 DEF SensorPdrs!addNextSensorFromPDRs
<1>2. /\ DOMAIN q = Fields
      /\ q.sensorPdrIt = IF n < Len(s) THEN n + 1 ELSE 0
      /\ q.sensorCreationEvent = IF n < Len(s) THEN <<s[n + 1]>> ELSE <<>>
      /\ q.numericSensors = o.numericSensors
      /\ q.numericSensorPdrs = o.numericSensorPdrs
      /\ q.compactNumericSensorPdrs = o.compactNumericSensorPdrs
      /\ q.terminusName = o.terminusName
      /\ q.sensorAuxiliaryNamesTbl = o.sensorAuxiliaryNamesTbl
  <2> HIDE DEF q, s
  <2> QED
    BY <1>0, <1>1, FieldsKnown
<1> HIDE DEF q
<1>3. /\ SensorPdrs!SensorPdrs(q) = s
      /\ SensorPdrs!SensorsOf(q) = SensorPdrs!SensorsOf(o)
  BY <1>2, SameSensors
<1> HIDE DEF s
<1>4. q.sensorPdrIt \in 0..Len(s)
  BY <1>0, <1>2
<1>5. q.sensorCreationEvent = IF q.sensorPdrIt = 0 THEN <<>> ELSE <<s[q.sensorPdrIt]>>
  BY <1>0, <1>2
<1>6. ASSUME NEW j \in DOMAIN s, q.sensorPdrIt = 0 \/ j < q.sensorPdrIt
      PROVE  \/ s[j].id \in r
             \/ \E i \in DOMAIN o.numericSensors : o.numericSensors[i].id = s[j].id
  <2>1. j <= n
    BY <1>0, <1>2, <1>6
  <2> QED
    BY <2>1 DEF Done, s
<1>7. q.numericSensors \in SensorPdrs!SensorsOf(q)
  BY <1>2, <1>3 DEF Done
<1>8. /\ q.numericSensorPdrs \in Seq(SensorPdrs!Pdr)
      /\ q.compactNumericSensorPdrs \in Seq(SensorPdrs!Pdr)
      /\ \A i, j \in DOMAIN q.numericSensors :
           q.numericSensors[i].name = q.numericSensors[j].name => i = j
  BY <1>2 DEF Done
<1>9. SensorPdrs!Walk(q, r)
  BY <1>2, <1>3, <1>4, <1>5, <1>6, <1>7, <1>8 DEF SensorPdrs!Walk, Fields
<1> QED
  BY <1>9 DEF q

LEMMA ParsedWalks ==
  ASSUME NEW t, v2[t] = SensorPdrs!NewTerminus, NEW pdrs \in PdrTables, NEW r
  PROVE  SensorPdrs!Walk(SensorPdrs!parseTerminusPDRs(t, pdrs), r)
<1> DEFINE o == SensorPdrs!FoldLeft(SensorPdrs!parsePDR, v2[t], pdrs)
           found == SensorPdrs!findTerminusName(o)
           named == [o EXCEPT !.terminusName = IF found = "" THEN SensorPdrs!DefaultName(t) ELSE found]
           q == SensorPdrs!createInventoryPath(named)
<1>1. pdrs \in Seq(SensorPdrs!Pdr)
  BY PdrTablesAssumption DEF PdrTablesAssumption
<1>2. Parsing(o)
  BY <1>1, NewIsParsing, TableParsed
<1> HIDE DEF o, found
<1>3. Parsing(named)
  BY <1>2, FieldsKnown DEF Parsing
<1> HIDE DEF named
<1>4. Parsing(q)
  BY <1>3, FieldsKnown DEF Parsing, SensorPdrs!createInventoryPath
<1> HIDE DEF q
<1>5. Done(q, r, 0)
  <2>1. Len(SensorPdrs!SensorPdrs(q)) \in Nat /\ DOMAIN SensorPdrs!SensorPdrs(q) = 1..Len(SensorPdrs!SensorPdrs(q))
    BY <1>4, PdrsTyped DEF Parsing
  <2>2. q.numericSensors \in SensorPdrs!SensorsOf(q)
    BY <1>4 DEF Parsing, SensorPdrs!SensorsOf
  <2>3. DOMAIN q.numericSensors = {}
    BY <1>4 DEF Parsing
  <2> QED
    BY <1>4, <2>1, <2>2, <2>3 DEF Parsing, Done
<1>6. SensorPdrs!parseTerminusPDRs(t, pdrs) = SensorPdrs!addNextSensorFromPDRs(q)
  BY DEF SensorPdrs!parseTerminusPDRs, q, named, found, o
<1> QED
  BY <1>5, <1>6, NextAdded

LEMMA AppendKnown ==
  ASSUME NEW T, NEW s \in Seq(T), NEW e \in T
  PROVE  /\ Append(s, e) \in Seq(T)
         /\ DOMAIN s = 1..Len(s) /\ Len(s) \in Nat
         /\ DOMAIN Append(s, e) = 1..(Len(s) + 1)
         /\ \A i \in 1..Len(s) : Append(s, e)[i] = s[i]
         /\ Append(s, e)[Len(s) + 1] = e
  OBVIOUS

\* The sensor whose creation was deferred is made, or its path is taken.
LEMMA SensorAdded ==
  ASSUME NEW t \in Termini, SensorPdrs!Walk(v2[t], v3[t]), DOMAIN v3 = Termini,
         DOMAIN v2 = Termini, NEW pdr \in SensorPdrs!ToSet(v2[t].sensorCreationEvent),
         SensorPdrs!addSensor(t, pdr)
  PROVE  /\ v1' = v1 /\ DOMAIN v2' = Termini /\ DOMAIN v3' = Termini
         /\ \A u \in Termini \ {t} : v2'[u] = v2[u] /\ v3'[u] = v3[u]
         /\ SensorPdrs!Walk(v2'[t], v3'[t])
<1> DEFINE o == v2[t]
           r == v3[t]
           s == SensorPdrs!SensorPdrs(o)
           k == o.sensorPdrIt
           sensor == [id |-> pdr.id, name |-> SensorPdrs!getSensorNames(o, pdr.id)]
           taken == sensor.name \in SensorPdrs!SensorNames
           q == [o EXCEPT !.numericSensors = Append(o.numericSensors, sensor)]
<1>1. /\ v2' = [v2 EXCEPT ![t] = SensorPdrs!addNextSensorFromPDRs(IF taken THEN o ELSE q)]
      /\ v3' = IF taken THEN [v3 EXCEPT ![t] = r \cup {pdr.id}] ELSE v3
      /\ v1' = v1
  BY DEF SensorPdrs!addSensor
<1>2. /\ DOMAIN o = Fields
      /\ o.numericSensorPdrs \in Seq(SensorPdrs!Pdr) /\ o.compactNumericSensorPdrs \in Seq(SensorPdrs!Pdr)
      /\ k \in 0..Len(s)
      /\ o.sensorCreationEvent = IF k = 0 THEN <<>> ELSE <<s[k]>>
      /\ o.numericSensors \in SensorPdrs!SensorsOf(o)
      /\ \A i, j \in DOMAIN o.numericSensors :
           o.numericSensors[i].name = o.numericSensors[j].name => i = j
      /\ \A j \in DOMAIN s : k = 0 \/ j < k =>
           s[j].id \in r \/ \E i \in DOMAIN o.numericSensors : o.numericSensors[i].id = s[j].id
  BY DEF SensorPdrs!Walk, Fields
<1>3. /\ s \in Seq(SensorPdrs!Pdr) /\ Len(s) \in Nat /\ DOMAIN s = 1..Len(s)
  BY <1>2, PdrsTyped
<1>4. k # 0 /\ k \in 1..Len(s) /\ pdr = s[k]
  <2>1. k # 0
    BY <1>2 DEF SensorPdrs!ToSet
  <2>2. pdr \in SensorPdrs!ToSet(<<s[k]>>)
    BY <1>2, <2>1
  <2>3. pdr = s[k]
    BY <2>2 DEF SensorPdrs!ToSet
  <2> QED
    BY <1>2, <1>3, <2>1, <2>3
<1>5. /\ DOMAIN v2' = Termini /\ DOMAIN v3' = Termini
      /\ \A u \in Termini \ {t} : v2'[u] = v2[u] /\ v3'[u] = v3[u]
  BY <1>1
<1> DEFINE T == {[id |-> p.id, name |-> SensorPdrs!getSensorNames(o, p.id)] : p \in SensorPdrs!ToSet(s)}
<1>6. SensorPdrs!SensorsOf(o) = Seq(T) /\ sensor \in T
  <2>1. pdr \in SensorPdrs!ToSet(s)
    BY <1>3, <1>4 DEF SensorPdrs!ToSet
  <2> QED
    BY <2>1 DEF SensorPdrs!SensorsOf
<1>7. /\ sensor.id = pdr.id
      /\ \A i \in DOMAIN o.numericSensors : o.numericSensors[i].name \in SensorPdrs!SensorNames
  <2>1. SensorPdrs!ToSet(o.numericSensors) = {o.numericSensors[i] : i \in DOMAIN o.numericSensors}
    BY DEF SensorPdrs!ToSet
  <2>2. \A x \in SensorPdrs!ToSet(o.numericSensors) : x.name \in SensorPdrs!SensorNames
    BY DEF SensorPdrs!SensorNames
  <2> QED
    BY <2>1, <2>2
<1>8. /\ DOMAIN q = Fields
      /\ q.numericSensors = Append(o.numericSensors, sensor)
      /\ q.numericSensorPdrs = o.numericSensorPdrs
      /\ q.compactNumericSensorPdrs = o.compactNumericSensorPdrs
      /\ q.terminusName = o.terminusName
      /\ q.sensorAuxiliaryNamesTbl = o.sensorAuxiliaryNamesTbl
      /\ q.sensorPdrIt = k
  <2> HIDE DEF sensor
  <2> QED
    BY <1>2, FieldsKnown
<1> HIDE DEF q, taken, T, sensor
<1>9. CASE taken
  <2>1. Done(o, r \cup {pdr.id}, k)
    <3>1. ASSUME NEW j \in DOMAIN s, j <= k
          PROVE  \/ s[j].id \in r \cup {pdr.id}
                 \/ \E i \in DOMAIN o.numericSensors : o.numericSensors[i].id = s[j].id
      <4>1. j < k \/ j = k
        BY <1>3, <1>4, <3>1
      <4> QED
        BY <1>2, <1>4, <3>1, <4>1
    <3> QED
      BY <1>2, <3>1 DEF Done
  <2>2. v2'[t] = SensorPdrs!addNextSensorFromPDRs(o) /\ v3'[t] = r \cup {pdr.id}
    BY <1>1, <1>9
  <2> QED
    BY <1>1, <1>5, <2>1, <2>2, NextAdded
<1>10. CASE ~taken
  <2>1. /\ SensorPdrs!SensorPdrs(q) = s
        /\ SensorPdrs!SensorsOf(q) = Seq(T)
    BY <1>6, <1>8, SameSensors
  <2> DEFINE m == o.numericSensors
             m1 == q.numericSensors
  <2>2. m \in Seq(T) /\ sensor \in T /\ m1 = Append(m, sensor)
    BY <1>2, <1>6, <1>8
  <2>5. /\ \A i \in DOMAIN m : m[i].name \in SensorPdrs!SensorNames
        /\ \A i, j \in DOMAIN m : m[i].name = m[j].name => i = j
        /\ \A j \in DOMAIN s : k = 0 \/ j < k =>
             s[j].id \in r \/ \E i \in DOMAIN m : m[i].id = s[j].id
    BY <1>2, <1>7
  <2> HIDE DEF m, m1
  <2>3. /\ m1 \in Seq(T) /\ DOMAIN m = 1..Len(m) /\ Len(m) \in Nat
        /\ DOMAIN m1 = 1..(Len(m) + 1)
        /\ \A i \in 1..Len(m) : m1[i] = m[i]
        /\ m1[Len(m) + 1] = sensor
    BY <2>2, AppendKnown
  <2>4. \A i, j \in DOMAIN m1 : m1[i].name = m1[j].name => i = j
    <3>1. \A i \in DOMAIN m1 : i \in DOMAIN m \/ i = Len(m) + 1
      BY <2>3
    <3>2. \A i \in DOMAIN m : m1[i] = m[i] /\ m[i].name # sensor.name
      BY <1>10, <2>3, <2>5 DEF taken
    <3> QED
      BY <2>3, <2>5, <3>1, <3>2
  <2>6. ASSUME NEW j \in DOMAIN s, j <= k
        PROVE  s[j].id \in r \/ \E i \in DOMAIN m1 : m1[i].id = s[j].id
    <3>1. j < k \/ j = k
      BY <1>3, <1>4, <2>6
    <3>2. CASE j < k
      BY <2>3, <2>5, <3>2
    <3>3. CASE j = k
      BY <1>4, <1>7, <2>3, <3>3
    <3> QED
      BY <3>1, <3>2, <3>3
  <2>7. Done(q, r, k)
    BY <1>2, <1>8, <2>1, <2>3, <2>4, <2>6 DEF Done, m1
  <2>8. v2'[t] = SensorPdrs!addNextSensorFromPDRs(q) /\ v3'[t] = r
    BY <1>1, <1>10
  <2> QED
    BY <1>1, <1>5, <2>7, <2>8, NextAdded
<1> QED
  BY <1>9, <1>10

LEMMA SensorsInit == SensorPdrs!Init => SensorPdrs!SensorsInv
  BY DEF SensorPdrs!Init, SensorPdrs!SensorsInv

LEMMA SensorsNext == SensorPdrs!SensorsInv /\ [SensorPdrs!Next]_SensorPdrs!vars => SensorPdrs!SensorsInv'
<1> SUFFICES ASSUME SensorPdrs!SensorsInv, [SensorPdrs!Next]_SensorPdrs!vars
             PROVE  SensorPdrs!SensorsInv'
  OBVIOUS
<1> DEFINE Known(st, o, r) ==
      IF st \in {"absent", "present"} THEN o = SensorPdrs!NewTerminus ELSE SensorPdrs!Walk(o, r)
<1>0. /\ DOMAIN v1 = Termini /\ DOMAIN v2 = Termini /\ DOMAIN v3 = Termini
      /\ \A u \in Termini : Known(v1[u], v2[u], v3[u])
  BY DEF SensorPdrs!SensorsInv
<1>00. SUFFICES /\ DOMAIN v1' = Termini /\ DOMAIN v2' = Termini /\ DOMAIN v3' = Termini
                /\ \A u \in Termini : Known(v1'[u], v2'[u], v3'[u])
  BY DEF SensorPdrs!SensorsInv, SensorPdrs!Walk, SensorPdrs!SensorsOf, SensorPdrs!SensorPdrs,
    SensorPdrs!getSensorNames, SensorPdrs!getSensorAuxiliaryNames, SensorPdrs!NewTerminus,
    SensorPdrs!SelectInSeq, SensorPdrs!ToSet, SensorPdrs!Pdr, SensorPdrs!Min
<1> DEFINE Goal == /\ DOMAIN v1' = Termini /\ DOMAIN v2' = Termini /\ DOMAIN v3' = Termini
                   /\ \A u \in Termini : Known(v1'[u], v2'[u], v3'[u])
\* A step of one terminus
<1>1. ASSUME NEW t \in Termini, Known(v1'[t], v2'[t], v3'[t]),
             DOMAIN v1' = Termini, DOMAIN v2' = Termini, DOMAIN v3' = Termini,
             \A u \in Termini \ {t} : v1'[u] = v1[u] /\ v2'[u] = v2[u] /\ v3'[u] = v3[u]
      PROVE  Goal
  <2>1. ASSUME NEW u \in Termini PROVE Known(v1'[u], v2'[u], v3'[u])
    <3> HIDE DEF Known
    <3>1. CASE u = t
      BY <1>1, <3>1
    <3>2. CASE u # t
      BY <1>0, <1>1, <3>2
    <3> QED
      BY <3>1, <3>2
  <2> HIDE DEF Known
  <2> QED
    BY <1>1, <2>1
<1>2. ASSUME NEW t \in Termini, SensorPdrs!Found(t) PROVE Goal
  <2>1. Known(v1'[t], v2'[t], v3'[t])
    BY <1>0, <1>2 DEF SensorPdrs!Found
  <2>2. /\ DOMAIN v1' = Termini /\ DOMAIN v2' = Termini /\ DOMAIN v3' = Termini
        /\ \A u \in Termini \ {t} : v1'[u] = v1[u] /\ v2'[u] = v2[u] /\ v3'[u] = v3[u]
    BY <1>0, <1>2 DEF SensorPdrs!Found
  <2> HIDE DEF Known, Goal
  <2> QED
    BY <1>1, <2>1, <2>2
<1>3. ASSUME NEW t \in Termini, NEW pdrs \in PdrTables, NEW fru \in BOOLEAN,
             SensorPdrs!InitTerminus(t, pdrs, fru)
      PROVE  Goal
  <2> DEFINE o == SensorPdrs!parseTerminusPDRs(t, pdrs)
  <2>1. CASE SensorPdrs!FruLost(o, fru)
    <3>1. /\ v1' = [u \in Termini |-> "absent"]
          /\ v2' = [u \in Termini |-> SensorPdrs!NewTerminus]
          /\ v3' = [u \in Termini |-> {}]
      BY <1>3, <2>1 DEF SensorPdrs!InitTerminus
    <3> QED
      BY <3>1
  <2>2. CASE ~SensorPdrs!FruLost(o, fru)
    <3>1. /\ v1' = [v1 EXCEPT ![t] = "configuring"]
          /\ v2' = [v2 EXCEPT ![t] = o] /\ v3' = v3 /\ v1[t] = "present"
      BY <1>3, <2>2 DEF SensorPdrs!InitTerminus
    <3>2. SensorPdrs!Walk(o, v3[t])
      <4>1. v2[t] = SensorPdrs!NewTerminus
        BY <1>0, <3>1
      <4> HIDE DEF o
      <4> QED
        BY <4>1, ParsedWalks DEF o
    <3> HIDE DEF o
    <3>3. Known(v1'[t], v2'[t], v3'[t])
      BY <1>0, <3>1, <3>2
    <3>4. /\ DOMAIN v1' = Termini /\ DOMAIN v2' = Termini /\ DOMAIN v3' = Termini
          /\ \A u \in Termini \ {t} : v1'[u] = v1[u] /\ v2'[u] = v2[u] /\ v3'[u] = v3[u]
      BY <1>0, <3>1
    <3> HIDE DEF Known, Goal
    <3> QED
      BY <1>1, <3>3, <3>4
  <2> QED
    BY <2>1, <2>2
<1>4. ASSUME NEW t \in Termini, NEW pdr \in SensorPdrs!ToSet(v2[t].sensorCreationEvent),
             SensorPdrs!addSensor(t, pdr)
      PROVE  Goal
  <2>1. v1[t] \notin {"absent", "present"}
    <3> SUFFICES ASSUME v1[t] \in {"absent", "present"} PROVE FALSE
      OBVIOUS
    <3>1. v2[t] = SensorPdrs!NewTerminus
      BY <1>0
    <3>2. v2[t].sensorCreationEvent = <<>>
      BY <3>1, NewKnown
    <3> QED
      BY <1>4, <3>2 DEF SensorPdrs!ToSet
  <2>2. SensorPdrs!Walk(v2[t], v3[t])
    BY <1>0, <2>1
  <2>3. /\ v1' = v1 /\ DOMAIN v2' = Termini /\ DOMAIN v3' = Termini
        /\ \A u \in Termini \ {t} : v2'[u] = v2[u] /\ v3'[u] = v3[u]
        /\ SensorPdrs!Walk(v2'[t], v3'[t])
    BY <1>0, <1>4, <2>2, SensorAdded
  <2>4. Known(v1'[t], v2'[t], v3'[t])
    BY <2>1, <2>3
  <2> HIDE DEF Known, Goal
  <2> QED
    BY <1>0, <1>1, <2>3, <2>4
\* Endpoints come and go: the object stays as it is, or is gone.
<1>5. ASSUME NEW t \in Termini, v3' = v3,
             \/ /\ v2' = v2 /\ v1[t] = "configuring"
                /\ \E st \in {"initialized", "removed"} : v1' = [v1 EXCEPT ![t] = st]
             \/ /\ v1' = [v1 EXCEPT ![t] = "absent"]
                /\ v2' = [v2 EXCEPT ![t] = SensorPdrs!NewTerminus]
      PROVE  Goal
  <2>1. Known(v1'[t], v2'[t], v3'[t])
    BY <1>0, <1>5
  <2>2. /\ DOMAIN v1' = Termini /\ DOMAIN v2' = Termini /\ DOMAIN v3' = Termini
        /\ \A u \in Termini \ {t} : v1'[u] = v1[u] /\ v2'[u] = v2[u] /\ v3'[u] = v3[u]
    BY <1>0, <1>5
  <2> HIDE DEF Known, Goal
  <2> QED
    BY <1>1, <2>1, <2>2
<1>6. ASSUME UNCHANGED SensorPdrs!vars PROVE Goal
  BY <1>0, <1>6 DEF SensorPdrs!vars
<1>7. ASSUME NEW t \in Termini, SensorPdrs!Configured(t) PROVE Goal
  <2> HIDE DEF Goal
  <2> QED
    BY <1>5, <1>7 DEF SensorPdrs!Configured
<1>8. ASSUME NEW t \in Termini, SensorPdrs!RemoveMctpTerminus(t) PROVE Goal
  <2> HIDE DEF Goal
  <2> QED
    BY <1>5, <1>8 DEF SensorPdrs!RemoveMctpTerminus
<1> HIDE DEF Known, Goal
<1>9. Goal
  <2>1. CASE SensorPdrs!Next
    <3>1. PICK t \in Termini :
            \/ SensorPdrs!Found(t)
            \/ \E pdrs \in PdrTables, fru \in BOOLEAN : SensorPdrs!InitTerminus(t, pdrs, fru)
            \/ SensorPdrs!addNumericSensor(t)
            \/ SensorPdrs!addCompactNumericSensor(t)
            \/ SensorPdrs!Configured(t)
            \/ SensorPdrs!RemoveMctpTerminus(t)
      BY <2>1 DEF SensorPdrs!Next
    <3>2. CASE SensorPdrs!addNumericSensor(t) \/ SensorPdrs!addCompactNumericSensor(t)
      BY <1>4, <3>2 DEF SensorPdrs!addNumericSensor, SensorPdrs!addCompactNumericSensor
    <3> QED
      BY <1>2, <1>3, <1>7, <1>8, <3>1, <3>2
  <2>2. CASE UNCHANGED SensorPdrs!vars
    BY <1>6, <2>2
  <2> QED
    BY <2>1, <2>2
<1> QED
  BY <1>9 DEF Goal

\* The elements of a sequence over a set
LEMMA ElementsKnown ==
  ASSUME NEW T, NEW m \in Seq(T)
  PROVE  DOMAIN m = 1..Len(m) /\ Len(m) \in Nat /\ \A i \in DOMAIN m : m[i] \in T
  OBVIOUS

\* A walk that is over made every sensor that was not refused.
LEMMA WalkOver ==
  ASSUME NEW o, NEW r, SensorPdrs!Walk(o, r), o.sensorCreationEvent = <<>>
  PROVE  /\ o.sensorPdrIt = 0
         /\ \A p \in SensorPdrs!ToSet(SensorPdrs!SensorPdrs(o)) : p.id \notin r =>
              SensorPdrs!getSensorObject(o, p.id) =
                [id |-> p.id, name |-> SensorPdrs!getSensorNames(o, p.id)]
         /\ \A i, j \in DOMAIN o.numericSensors :
              o.numericSensors[i].name = o.numericSensors[j].name => i = j
<1> DEFINE s == SensorPdrs!SensorPdrs(o)
           m == o.numericSensors
           Made(p) == [id |-> p.id, name |-> SensorPdrs!getSensorNames(o, p.id)]
           T == {Made(p) : p \in SensorPdrs!ToSet(s)}
<1>1. /\ o.sensorCreationEvent = IF o.sensorPdrIt = 0 THEN <<>> ELSE <<s[o.sensorPdrIt]>>
      /\ m \in Seq(T)
      /\ \A i, j \in DOMAIN m : m[i].name = m[j].name => i = j
      /\ \A j \in DOMAIN s : o.sensorPdrIt = 0 =>
           s[j].id \in r \/ \E i \in DOMAIN m : m[i].id = s[j].id
  BY DEF SensorPdrs!Walk, SensorPdrs!SensorsOf
<1>2. o.sensorPdrIt = 0
  <2>1. \A x : <<x>> # <<>>
    OBVIOUS
  <2> HIDE DEF s
  <2> QED
    BY <1>1, <2>1
<1>3. \A x \in T : x = Made(x)
  <2> SUFFICES ASSUME NEW x \in T PROVE x = Made(x)
    OBVIOUS
  <2>1. PICK p \in SensorPdrs!ToSet(s) : x = Made(p)
    OBVIOUS
  <2>2. x.id = p.id
    BY <2>1
  <2> QED
    BY <2>1, <2>2
<1>4. \A p : Made(p).name = SensorPdrs!getSensorNames(o, p.id)
  OBVIOUS
<1>41. \A p, q : p.id = q.id => Made(p) = Made(q)
  OBVIOUS
<1>6. \A id, i : LET I == {j \in 1..Len(m) : m[j].id = id} IN
        i # 0 /\ I # {} /\ SensorPdrs!Min(I) = i => SensorPdrs!getSensorObject(o, id) = m[i]
  BY DEF SensorPdrs!getSensorObject, SensorPdrs!SelectInSeq
<1>7. \A p \in SensorPdrs!ToSet(s) : \E j \in DOMAIN s : p = s[j]
  BY DEF SensorPdrs!ToSet
<1> HIDE DEF s, m, T, Made
<1>8. DOMAIN m = 1..Len(m) /\ Len(m) \in Nat /\ \A i \in DOMAIN m : m[i] \in T
  BY <1>1, ElementsKnown
<1>9. ASSUME NEW p \in SensorPdrs!ToSet(s), p.id \notin r
      PROVE  SensorPdrs!getSensorObject(o, p.id) = Made(p)
  <2>1. PICK i \in DOMAIN m : m[i].id = p.id
    BY <1>1, <1>2, <1>7, <1>9
  <2>2. ASSUME NEW j \in DOMAIN m, m[j].id = p.id PROVE j = i
    <3>1. m[i] = Made(m[i]) /\ m[j] = Made(m[j]) /\ m[i].id = m[j].id
      BY <1>3, <1>8, <2>1, <2>2
    <3>2. m[i] = m[j]
      BY <1>41, <3>1
    <3> QED
      BY <1>1, <3>2
  <2> DEFINE I == {j \in 1..Len(m) : m[j].id = p.id}
  <2>3. I = {i}
    BY <1>8, <2>1, <2>2
  <2>4. i \in Nat /\ i # 0
    BY <1>8
  <2>5. SensorPdrs!Min(I) = i
    BY <2>3, <2>4 DEF SensorPdrs!Min
  <2>7. SensorPdrs!getSensorObject(o, p.id) = m[i]
    BY <1>6, <2>3, <2>4, <2>5
  <2>8. m[i] = Made(m[i])
    BY <1>3, <1>8
  <2> QED
    BY <1>41, <2>1, <2>7, <2>8
<1> QED
  BY <1>1, <1>2, <1>9 DEF s, m, Made

LEMMA SensorsSafe == SensorPdrs!SensorsInv => SensorPdrs!EverySensorMade
<1> SUFFICES ASSUME SensorPdrs!SensorsInv, NEW t \in Termini, v2[t].terminusName # "",
                    v2[t].sensorCreationEvent = <<>>
             PROVE  LET o == v2[t] IN
                    /\ o.sensorPdrIt = 0
                    /\ \A p \in SensorPdrs!ToSet(SensorPdrs!SensorPdrs(o)) : p.id \notin v3[t] =>
                         SensorPdrs!getSensorObject(o, p.id) =
                           [id |-> p.id, name |-> SensorPdrs!getSensorNames(o, p.id)]
                    /\ \A i, j \in DOMAIN o.numericSensors :
                         o.numericSensors[i].name = o.numericSensors[j].name => i = j
  BY DEF SensorPdrs!EverySensorMade
<1>1. SensorPdrs!Walk(v2[t], v3[t])
  <2>1. v2[t] # SensorPdrs!NewTerminus
    BY NewKnown
  <2> QED
    BY <2>1 DEF SensorPdrs!SensorsInv
<1> QED
  BY <1>1, WalkOver

LEMMA SensorsStays ==
  (component = "sensors" => SensorPdrs!SensorsInv) /\ [DeviceNext]_vars
    => (component = "sensors" => SensorPdrs!SensorsInv)'
<1> SUFFICES ASSUME component' = "sensors", [DeviceNext]_vars,
                    component = "sensors" => SensorPdrs!SensorsInv
             PROVE  SensorPdrs!SensorsInv'
  OBVIOUS
<1>1. CASE SensorPdrsStep
  BY <1>1, SensorsNext DEF SensorPdrsStep, Only
<1>2. CASE UNCHANGED vars
  BY <1>2, SensorsNext, OthersElsewhere DEF vars, SensorPdrs!vars
<1> QED
  BY <1>1, <1>2, OthersElsewhere

-----------------------------------------------------------------------------
\* ItemUpdates: v1 is present, v2 is asked, v3 is descriptors, v4 is
\* components, v5 is manager, v6 is package, v7 is working, v8 is served,
\* v9 is images.

LEMMA ItemsInit == Items!Init => Items!ItemsInv
<1> SUFFICES ASSUME Items!Init
             PROVE  Items!ItemsInv
  OBVIOUS
<1>1. /\ Items!NoManager \in [exists : BOOLEAN, inProgress : BOOLEAN, deferred : BOOLEAN,
                        updater : BOOLEAN,
                        activation : {"none", "Invalid", "Activating", "Active", "Failed"}]
      /\ ~Items!NoManager.deferred /\ ~Items!NoManager.updater
  BY DEF Items!NoManager, Items!NewManager
<1>2. v5 = [i \in Items!Items |-> Items!NoManager]
  BY DEF Items!Init
<1> QED
  BY <1>1, <1>2 DEF Items!ItemsInv

LEMMA ItemsNext == Items!ItemsInv /\ [Items!Next]_Items!vars => Items!ItemsInv'
<1> SUFFICES ASSUME Items!ItemsInv, [Items!Next]_Items!vars
             PROVE  Items!ItemsInv'
  OBVIOUS
<1> DEFINE Manager == [exists : BOOLEAN, inProgress : BOOLEAN, deferred : BOOLEAN,
                       updater : BOOLEAN,
                       activation : {"none", "Invalid", "Activating", "Active", "Failed"}]
           Sound(m) == /\ m.deferred => m.inProgress /\ ~m.updater
                       /\ m.updater => m.exists /\ m.inProgress /\ m.activation = "Activating"
<1>0. v5 \in [Items!Items -> Manager] /\ \A i \in Items!Items : Sound(v5[i])
  BY DEF Items!ItemsInv
<1>1. Items!NewManager \in Manager /\ Sound(Items!NewManager)
        /\ Items!NoManager \in Manager /\ Sound(Items!NoManager)
  BY DEF Items!NewManager, Items!NoManager
<1>2. ASSUME UNCHANGED v5
      PROVE  Items!ItemsInv'
  BY <1>2 DEF Items!ItemsInv
<1>3. ASSUME v5' \in [Items!Items -> Manager], \A i \in Items!Items : Sound(v5'[i])
      PROVE  Items!ItemsInv'
  BY <1>3 DEF Items!ItemsInv
<1>4. ASSUME NEW i \in Items!Items, NEW m \in Manager, Sound(m), v5' = [v5 EXCEPT ![i] = m]
      PROVE  Items!ItemsInv'
  <2>1. v5' \in [Items!Items -> Manager] /\ \A j \in Items!Items : v5'[j] = IF j = i
          THEN m ELSE v5[j]
    BY <1>0, <1>4
  <2> HIDE DEF Manager, Sound
  <2>2. \A j \in Items!Items : Sound(v5'[j])
    BY <1>0, <1>4, <2>1
  <2> QED
    BY <1>3, <2>1, <2>2
<1>5. CASE \E e \in Endpoints : Items!RemoveFDs(e)
  <2>1. PICK e \in Endpoints : v5' = Items!Erased(e)
    BY <1>5 DEF Items!RemoveFDs
  <2>2. /\ v5' \in [Items!Items -> Manager]
        /\ \A i \in Items!Items : v5'[i] \in {Items!NoManager, v5[i]}
    BY <1>0, <1>1, <2>1 DEF Items!Erased
  <2> HIDE DEF Manager, Sound
  <2> QED
    BY <1>0, <1>1, <1>3, <2>2
<1>6. CASE \E e \in Endpoints, imageSet, whole \in BOOLEAN, c \in SUBSET ItemComponents :
             Items!GetFirmwareParameters(e, imageSet, c, whole)
  <2>1. PICK e \in Endpoints, imageSet \in BOOLEAN, whole \in BOOLEAN, c \in SUBSET ItemComponents :
          Items!GetFirmwareParameters(e, imageSet, c, whole)
    BY <1>6
  <2>2. /\ v5' \in [Items!Items -> Manager]
        /\ \A i \in Items!Items : v5'[i] \in {Items!NewManager, v5[i]}
    BY <1>0, <1>1, <2>1 DEF Items!GetFirmwareParameters, Items!Created
  <2> HIDE DEF Manager, Sound
  <2> QED
    BY <1>0, <1>1, <1>3, <2>2
<1>7. CASE \E i \in Items!Items, duplicated \in BOOLEAN : Items!StartUpdate(i, duplicated)
  <2>1. PICK i \in Items!Items, duplicated \in BOOLEAN : Items!StartUpdate(i, duplicated)
    BY <1>7
  <2> DEFINE m == [v5[i] EXCEPT !.inProgress = TRUE, !.deferred = duplicated]
  <2>2. v5' = [v5 EXCEPT ![i] = m]
    BY <2>1 DEF Items!StartUpdate
  <2>3. m \in Manager /\ Sound(m)
    BY <1>0, <2>1 DEF Items!StartUpdate
  <2> HIDE DEF m, Manager, Sound
  <2> QED
    BY <1>4, <2>2, <2>3
<1>8. CASE \E i \in Items!Items, outcome \in {"unmapped", "unusable", "activating"} :
             Items!ProcessPackage(i, outcome)
  <2>1. PICK i \in Items!Items, outcome \in {"unmapped", "unusable", "activating"} :
          Items!ProcessPackage(i, outcome)
    BY <1>8
  <2> DEFINE m == CASE outcome = "unmapped" -> [v5[i] EXCEPT !.deferred = FALSE,
                                                                  !.inProgress = FALSE]
                    [] outcome = "unusable" -> [v5[i] EXCEPT !.deferred = FALSE,
                                                  !.inProgress = FALSE, !.activation = "Invalid"]
                    [] OTHER -> [v5[i] EXCEPT !.deferred = FALSE, !.updater = TRUE,
                                                   !.activation = "Activating"]
  <2>2. v5' = [v5 EXCEPT ![i] = m]
    BY <2>1 DEF Items!ProcessPackage
  <2>3. m \in Manager /\ Sound(m)
    <3>1. CASE outcome = "unmapped"
      BY <1>0, <2>1, <3>1 DEF Items!ProcessPackage
    <3>2. CASE outcome = "unusable"
      BY <1>0, <2>1, <3>2 DEF Items!ProcessPackage
    <3>3. CASE outcome = "activating"
      BY <1>0, <2>1, <3>3 DEF Items!ProcessPackage
    <3> QED
      BY <3>1, <3>2, <3>3
  <2> HIDE DEF m, Manager, Sound
  <2> QED
    BY <1>4, <2>2, <2>3
<1>9. CASE \E i \in Items!Items : Items!UpdateFails(i) \/ Items!UpdateSucceeds(i)
  <2>1. PICK i \in Items!Items : Items!UpdateFails(i) \/ Items!UpdateSucceeds(i)
    BY <1>9
  <2>2. PICK ok \in BOOLEAN : v5' = [v5 EXCEPT ![i] = Items!UpdateDeviceCompletion(@, ok)]
    BY <2>1 DEF Items!UpdateFails, Items!UpdateSucceeds
  <2> DEFINE m == Items!UpdateDeviceCompletion(v5[i], ok)
  <2>3. v5' = [v5 EXCEPT ![i] = m]
    BY <2>2
  <2>4. m \in Manager /\ Sound(m)
    <3>1. v5[i] \in Manager /\ Sound(v5[i]) /\ v5[i].updater
      BY <1>0, <2>1 DEF Items!UpdateFails, Items!UpdateSucceeds, Items!Updating
    <3>2. CASE ok
      <4>1. m = [v5[i] EXCEPT !.activation = "Active", !.updater = FALSE,
                                   !.inProgress = FALSE]
        BY <3>2 DEF Items!UpdateDeviceCompletion
      <4> HIDE DEF m
      <4> QED
        BY <3>1, <4>1
    <3>3. CASE ~ok
      <4>1. m = [v5[i] EXCEPT !.activation = "Failed", !.updater = FALSE,
                                   !.inProgress = FALSE]
        BY <3>3 DEF Items!UpdateDeviceCompletion
      <4> HIDE DEF m
      <4> QED
        BY <3>1, <4>1
    <3> QED
      BY <3>2, <3>3
  <2> HIDE DEF m, Manager, Sound
  <2> QED
    BY <1>4, <2>3, <2>4
<1>10. CASE \E i \in Items!Items : Items!DeleteActivation(i)
  <2>1. PICK i \in Items!Items : Items!DeleteActivation(i)
    BY <1>10
  <2> DEFINE m == [v5[i] EXCEPT !.activation = "none", !.inProgress = FALSE]
  <2>2. v5' = [v5 EXCEPT ![i] = m]
    BY <1>0, <2>1 DEF Items!DeleteActivation
  <2>3. m \in Manager /\ Sound(m)
    BY <1>0, <2>1 DEF Items!DeleteActivation
  <2> HIDE DEF m, Manager, Sound
  <2> QED
    BY <1>4, <2>2, <2>3
<1>11. CASE \/ \E e \in Endpoints :
                 \/ \E sent \in BOOLEAN : Items!DiscoverFDs(e, sent)
                 \/ \E ok, sent \in BOOLEAN : Items!QueryDeviceIdentifiers(e, ok, sent)
                 \/ \E silent \in BOOLEAN : Items!NoFirmwareParameters(e, silent)
                 \/ Items!PackageStarts(e) \/ Items!PackageUpdateEnds(e) \/ Items!HandleRequest(e)
            \/ \E i \in Items!Items : Items!RequestUpdateAccepted(i)
            \/ Items!ResetActivationState \/ UNCHANGED Items!vars
  <2>1. UNCHANGED v5
    BY <1>11 DEF Items!DiscoverFDs, Items!QueryDeviceIdentifiers,
      Items!NoFirmwareParameters, Items!PackageStarts, Items!PackageUpdateEnds,
      Items!HandleRequest, Items!RequestUpdateAccepted,
      Items!ResetActivationState, Items!vars
  <2> QED
    BY <1>2, <2>1
<1> QED
  BY <1>5, <1>6, <1>7, <1>8, <1>9, <1>10, <1>11 DEF Items!Next

\* The only updater there is answers, or nobody does.
LEMMA ItemsHeard == Items!ItemsInv => Items!HeardByItsUpdater
<1> SUFFICES ASSUME Items!ItemsInv, NEW e \in Endpoints, Items!HandleRequest(e), Items!Alone(e)
             PROVE  v8' # "other"
  BY DEF Items!HeardByItsUpdater
<1> DEFINE candidates == {i \in Items!Items : Items!Updating(i)}
<1>1. candidates \subseteq {v7[e]}
  BY DEF Items!ItemsInv, Items!Alone, Items!Updating
<1>2. Items!Answers(e) = Items!Nobody \/ Items!Answers(e) = v7[e]
  <2>1. CASE candidates = {}
    BY <2>1 DEF Items!Alone, Items!Answers
  <2>2. CASE candidates = {v7[e]}
    <3> DEFINE c == CHOOSE i \in candidates : \A j \in candidates \ {i} : Items!Before(i, j)
    <3>1. c \in candidates
      <4>1. \E i \in candidates : \A j \in candidates \ {i} : Items!Before(i, j)
        BY <2>2
      <4> HIDE DEF candidates
      <4> QED
        BY <4>1
    <3>2. Items!Answers(e) = c
      BY <2>2 DEF Items!Alone, Items!Answers
    <3> HIDE DEF c
    <3> QED
      BY <2>2, <3>1, <3>2
  <2> QED
    BY <1>1, <2>1, <2>2
<1> QED
  BY <1>2 DEF Items!HandleRequest

LEMMA ItemsStays ==
  (component = "item" => Items!ItemsInv) /\ [DeviceNext]_vars
    => (component = "item" => Items!ItemsInv)'
<1> SUFFICES ASSUME component' = "item", [DeviceNext]_vars,
                    component = "item" => Items!ItemsInv
             PROVE  Items!ItemsInv'
  OBVIOUS
<1>1. CASE ItemsStep
  BY <1>1, ItemsNext DEF ItemsStep, Only
<1>2. CASE UNCHANGED vars
  BY <1>2, ItemsNext, OthersElsewhere DEF vars, Items!vars
<1> QED
  BY <1>1, <1>2, OthersElsewhere

-----------------------------------------------------------------------------
\* FwPackage: v1 is stage, v2 is meta, v3 is file, v4 is result.

SumOp(x, y, none) == x + y
Sums == INSTANCE FoldInduction WITH Op <- SumOp

LEMMA TotalFold == ASSUME NEW s PROVE Package!Total(s) = Sums!Fold(0, s, 0)
  BY DEF Package!Total, Package!FoldLeft, Package!MapThenFoldSet, Package!Max,
    Sums!Fold, Sums!Iter, Sums!Solves, Sums!Step, Sums!Largest, SumOp

LEMMA TotalSteps ==
  ASSUME NEW base, NEW c, NEW n \in Nat, NEW s, DOMAIN s = 1..n
  PROVE  /\ Sums!Iter(base, s, c)[{}] = base
         /\ \A k \in 1..n :
              Sums!Iter(base, s, c)[1..k] = SumOp(Sums!Iter(base, s, c)[1..(k-1)], s[k], c)
  BY Sums!IterSteps

\* Totals of natural numbers, from 0 and from another total
LEMMA TotalFrom ==
  ASSUME NEW base \in Nat, NEW n \in Nat, NEW s, DOMAIN s = 1..n, \A i \in 1..n : s[i] \in Nat
  PROVE  Package!Total(s) \in Nat /\ Sums!Fold(base, s, 0) = base + Package!Total(s)
<1> DEFINE r == Sums!Iter(base, s, 0)
           q == Sums!Iter(0, s, 0)
           K == {k \in Nat : k <= n => q[1..k] \in Nat /\ r[1..k] = base + q[1..k]}
<1>1. /\ q[{}] = 0
      /\ \A k \in 1..n : q[1..k] = SumOp(q[1..(k-1)], s[k], 0)
  BY TotalSteps
<1>11. /\ r[{}] = base
       /\ \A k \in 1..n : r[1..k] = SumOp(r[1..(k-1)], s[k], 0)
  BY TotalSteps
<1> HIDE DEF q, r
<1>2. 0 \in K
  <2>1. 1..0 = {}
    OBVIOUS
  <2> QED
    BY <1>1, <1>11, <2>1
<1>3. ASSUME NEW k \in K \cap Nat PROVE k + 1 \in K
  <2> SUFFICES ASSUME k + 1 <= n PROVE q[1..(k+1)] \in Nat /\ r[1..(k+1)] = base + q[1..(k+1)]
    OBVIOUS
  <2>0. k \in Nat /\ (k <= n => q[1..k] \in Nat /\ r[1..k] = base + q[1..k])
    OBVIOUS
  <2> HIDE DEF K
  <2>1. k + 1 \in 1..n /\ (k + 1) - 1 = k /\ q[1..k] \in Nat /\ r[1..k] = base + q[1..k]
    BY <2>0
  <2>2. q[1..(k+1)] = q[1..k] + s[k+1] /\ r[1..(k+1)] = r[1..k] + s[k+1] /\ s[k+1] \in Nat
    BY <1>1, <1>11, <2>1 DEF SumOp
  <2> QED
    BY <2>1, <2>2
<1>4. Nat \subseteq K
  <2> HIDE DEF K
  <2> QED
    BY <1>2, <1>3, Sums!InductionOnSet
<1>5. q[1..n] \in Nat /\ r[1..n] = base + q[1..n]
  BY <1>4
<1> QED
  BY <1>5, TotalFold DEF Sums!Fold, q, r

LEMMA TotalOfParts ==
  ASSUME NEW n \in Nat, NEW m \in Nat, NEW s, NEW t, NEW u,
         DOMAIN s = 1..n, DOMAIN t = 1..m, DOMAIN u = 1..(n + m),
         \A i \in 1..n : s[i] \in Nat, \A i \in 1..m : t[i] \in Nat,
         \A i \in 1..n : u[i] = s[i], \A i \in 1..m : u[n + i] = t[i]
  PROVE  Package!Total(u) = Package!Total(s) + Package!Total(t)
<1>1. Sums!Fold(0, u, 0) = Sums!Fold(Sums!Fold(0, s, 0), t, 0)
  BY Sums!FoldOfParts
<1>2. Package!Total(s) \in Nat
  BY TotalFrom
<1>3. Sums!Fold(Package!Total(s), t, 0) = Package!Total(s) + Package!Total(t)
  BY <1>2, TotalFrom
<1> QED
  BY <1>1, <1>3, TotalFold

LEMMA TotalOfSame ==
  ASSUME NEW n \in Nat, NEW s, NEW u, DOMAIN s = 1..n, DOMAIN u = 1..n,
         \A i \in 1..n : s[i] \in Nat /\ u[i] = s[i]
  PROVE  Package!Total(u) = Package!Total(s) /\ Package!Total(s) \in Nat
<1> DEFINE t == [i \in 1..0 |-> 0]
<1>1. 0 \in Nat /\ n + 0 = n /\ DOMAIN t = 1..0 /\ \A i \in 1..0 : FALSE
  OBVIOUS
<1>2. Package!Total(t) = 0
  <2> HIDE DEF t
  <2> QED
    BY <1>1, TotalFold, Sums!FoldOfNone
<1> HIDE DEF t
<1>3. Package!Total(u) = Package!Total(s) + Package!Total(t)
  BY SMTT(30), <1>1, TotalOfParts
<1>4. Package!Total(s) \in Nat
  BY TotalFrom
<1> QED
  BY <1>2, <1>3, <1>4

\* n images, cut after k of them
Cut(m, n, k) ==
  n \in Nat /\ k \in 0..n /\ DOMAIN m = 1..n /\ \A i \in 1..n : m[i] \in Nat

LEMMA TotalOfImages ==
  ASSUME NEW m, NEW n, NEW k, Cut(m, n, k)
  PROVE  /\ Package!Total(m) \in Nat /\ Package!Total(SubSeq(m, 1, k)) \in Nat
         /\ Package!Total(SubSeq(m, k + 1, n)) \in Nat
         /\ Package!Total(m)
              = Package!Total(SubSeq(m, 1, k)) + Package!Total(SubSeq(m, k + 1, n))
         /\ \A e : DOMAIN e = 1..k /\ (\A j \in 1..k : e[j] = m[j])
              => Package!Total(e) = Package!Total(SubSeq(m, 1, k))
<1> DEFINE a == SubSeq(m, 1, k)
           b == SubSeq(m, k + 1, n)
<1>1. /\ n \in Nat /\ k \in Nat /\ n - k \in Nat /\ k + (n - k) = n
      /\ DOMAIN m = 1..n /\ \A i \in 1..n : m[i] \in Nat
  BY DEF Cut
<1>2. DOMAIN a = 1..k /\ \A i \in 1..k : a[i] = m[i] /\ a[i] \in Nat
  <2>1. \A i \in 1..k : m[i] \in Nat
    BY <1>1
  <2>2. /\ a \in Seq(Nat) /\ Len(a) = IF 1 <= k THEN k - 1 + 1 ELSE 0
        /\ \A i \in 1..(k - 1 + 1) : a[i] = m[1 + i - 1]
    BY <1>1, <2>1, SubSeqProperties, 1 \in Int, k \in Int
  <2> HIDE DEF a
  <2>3. Len(a) = k /\ DOMAIN a = 1..k
    BY <1>1, <2>2
  <2>4. ASSUME NEW i \in 1..k PROVE a[i] = m[i]
    <3>1. i \in 1..(k - 1 + 1) /\ 1 + i - 1 = i
      BY <1>1
    <3> QED
      BY <2>2, <3>1
  <2> QED
    BY <2>1, <2>3, <2>4
<1>3. DOMAIN b = 1..(n - k) /\ \A i \in 1..(n - k) : b[i] = m[k + i] /\ b[i] \in Nat
  <2>1. \A i \in (k + 1)..n : m[i] \in Nat
    BY <1>1
  <2>2. k + 1 \in Int /\ n \in Int
    BY <1>1
  <2>3. /\ b \in Seq(Nat) /\ Len(b) = IF k + 1 <= n THEN n - (k + 1) + 1 ELSE 0
        /\ \A i \in 1..(n - (k + 1) + 1) : b[i] = m[(k + 1) + i - 1]
    BY <2>1, <2>2, SubSeqProperties
  <2> HIDE DEF b
  <2>4. Len(b) = n - k /\ DOMAIN b = 1..(n - k)
    BY <1>1, <2>3
  <2>5. ASSUME NEW i \in 1..(n - k) PROVE b[i] = m[k + i] /\ b[i] \in Nat
    <3>1. i \in 1..(n - (k + 1) + 1) /\ (k + 1) + i - 1 = k + i /\ k + i \in 1..n
      BY <1>1
    <3> QED
      BY <1>1, <2>3, <3>1
  <2> QED
    BY <2>4, <2>5
<1> HIDE DEF a, b
<1>4. Package!Total(m) = Package!Total(a) + Package!Total(b)
  <2> DEFINE l == n - k
  <2>1. /\ DOMAIN a = 1..k /\ DOMAIN b = 1..l /\ DOMAIN m = 1..(k + l)
        /\ (\A i \in 1..k : a[i] \in Nat) /\ (\A i \in 1..k : m[i] = a[i])
        /\ (\A i \in 1..l : b[i] \in Nat) /\ (\A i \in 1..l : m[k + i] = b[i])
    BY <1>1, <1>2, <1>3
  <2>2. k \in Nat /\ l \in Nat
    BY <1>1
  <2> HIDE DEF l
  <2> QED
    BY SMTT(30), <2>1, <2>2, TotalOfParts
<1>5. Package!Total(a) \in Nat /\ Package!Total(b) \in Nat
  BY <1>1, <1>2, <1>3, TotalFrom
<1>6. \A e : DOMAIN e = 1..k /\ (\A j \in 1..k : e[j] = m[j]) => Package!Total(e) = Package!Total(a)
  BY <1>1, <1>2, TotalOfSame
<1> QED
  BY <1>4, <1>5, <1>6 DEF a, b

-----------------------------------------------------------------------------
LEMMA MetaKnown ==
  ASSUME v2 \in Package!Metas
  PROVE  /\ v2.revision \in 1..4 /\ v2.images \in Seq(Nat)
         /\ v2.devices \in Seq([components : SUBSET Nat, length : Nat])
  BY PackageAssumption DEF Package!Metas

\* The header ends where the metadata say, in every file with their records.
LEMMA HeaderKnown ==
  ASSUME v2 \in Package!Metas
  PROVE  /\ Package!Start \in Nat
         /\ Package!Extra(v2.revision, 4, 4) \in Nat
         /\ v2.revision = 1 => Package!Extra(v2.revision, 4, 4) = 0
         /\ \A f : (/\ f.revision = v2.revision /\ f.devices = Package!DeviceRecords
                    /\ Len(f.components) = Len(v2.images))
                     => /\ Package!StartOffset(f) = Package!Start
                        /\ Package!HeaderEnd(f) \in Nat
<1> DEFINE D == [components : SUBSET Nat, length : Nat]
           d == Package!DeviceRecords
           s == [k \in DOMAIN d |-> d[k].length]
           X(since, bytes) == Package!Extra(v2.revision, since, bytes)
<1>1. v2.revision \in 1..4 /\ v2.images \in Seq(Nat) /\ v2.devices \in Seq(D)
  BY MetaKnown
<1>2. \A x \in D : x.length \in Nat
  OBVIOUS
<1> HIDE DEF D
<1>3. /\ DOMAIN v2.devices = 1..Len(v2.devices) /\ Len(v2.devices) \in Nat
      /\ \A k \in DOMAIN v2.devices : v2.devices[k].length \in Nat
  BY <1>1, <1>2
<1>4. X(4, 4) \in Nat /\ X(2, 1) \in Nat /\ X(3, 4) \in Nat /\ (v2.revision = 1 => X(4, 4) = 0)
  BY <1>1 DEF Package!Extra
<1>5. Package!BitmapBytes(v2.images) \in Nat
  <2>1. Len(v2.images) \in Nat
    BY <1>1
  <2> QED
    BY <2>1, \A x \in Nat : (x + 7) \div 8 \in Nat DEF Package!BitmapBytes
<1>6. /\ DOMAIN d = DOMAIN v2.devices
      /\ \A k \in DOMAIN d : d[k].length = Package!DeviceIDRecord + Package!BitmapBytes(v2.images)
                                            + X(4, 4) + v2.devices[k].length
  BY DEF Package!DeviceRecords
<1> HIDE DEF d, X
<1>7. DOMAIN s = 1..Len(v2.devices) /\ \A k \in 1..Len(v2.devices) : s[k] \in Nat
  <2> DEFINE b == Package!BitmapBytes(v2.images)
             x == X(4, 4)
  <2>1. b \in Nat /\ x \in Nat
    BY <1>4, <1>5
  <2> HIDE DEF b, x
  <2>2. ASSUME NEW k \in DOMAIN d PROVE d[k].length \in Nat
    <3>1. v2.devices[k].length \in Nat
      BY <1>3, <1>6
    <3>2. d[k].length = 11 + b + x + v2.devices[k].length
      BY <1>6 DEF b, x, Package!DeviceIDRecord
    <3> QED
      BY <2>1, <3>1, <3>2
  <2> QED
    BY <1>3, <1>6, <2>2
<1>8. Package!Total(s) \in Nat
  <2> HIDE DEF s
  <2> QED
    BY <1>3, <1>7, TotalFrom
<1> DEFINE T == Package!Total(s)
           P == Len(v2.images) * (Package!ComponentInformation + X(3, 4))
           E == Package!HeaderInformation + 1 + T + X(2, 1) + 2 + P
<1>9. P \in Nat
  <2>1. Len(v2.images) \in Nat
    BY <1>1
  <2> QED
    BY <1>4, <2>1 DEF Package!ComponentInformation
<1>10. Package!Start = E + Package!Checksum + X(4, 4)
  BY DEF Package!Start, X, d
<1>11. \A f : f.revision = v2.revision /\ f.devices = d /\ Len(f.components) = Len(v2.images)
                => /\ Package!HeaderEnd(f) = E
                   /\ Package!StartOffset(f) = E + Package!Checksum + X(4, 4)
  <2>1. ASSUME NEW f, f.revision = v2.revision, f.devices = d,
               Len(f.components) = Len(v2.images)
        PROVE  /\ Package!HeaderEnd(f) = E
               /\ Package!StartOffset(f) = E + Package!Checksum + X(4, 4)
    <3>1. [k \in DOMAIN f.devices |-> f.devices[k].length] = s
      BY <2>1
    <3> HIDE DEF s
    <3>2. Package!HeaderEnd(f) = E
      BY <2>1, <3>1, Zenon DEF Package!HeaderEnd, Package!DevicesEnd, X
    <3> QED
      BY <2>1, <3>2, Zenon DEF Package!StartOffset, X
  <2> HIDE DEF E
  <2> QED
    BY <2>1
<1> HIDE DEF T, P
<1>12. E \in Nat
  BY <1>4, <1>8, <1>9 DEF Package!HeaderInformation, T
<1> HIDE DEF E
<1>13. E + Package!Checksum + X(4, 4) \in Nat
  BY <1>4, <1>12 DEF Package!Checksum
<1> QED
  BY <1>4, <1>10, <1>11, <1>12, <1>13 DEF X, d

\* The entries of the images, with any start
LEMMA EntriesKnown ==
  ASSUME v2 \in Package!Metas, NEW start
  PROVE  LET c == Package!ImageEntries(start) IN
         /\ DOMAIN c = 1..Len(v2.images) /\ Len(c) = Len(v2.images) /\ Len(v2.images) \in Nat
         /\ \A k \in DOMAIN c :
              /\ c[k].size = v2.images[k]
              /\ c[k].offset = start + Package!Total(SubSeq(v2.images, 1, k - 1))
<1> DEFINE c == Package!ImageEntries(start)
<1>1. /\ v2.images \in Seq(Nat) /\ DOMAIN v2.images = 1..Len(v2.images) /\ Len(v2.images) \in Nat
  BY MetaKnown
<1>2. /\ DOMAIN c = DOMAIN v2.images
      /\ \A k \in DOMAIN c :
              /\ c[k].size = v2.images[k]
              /\ c[k].offset = start + Package!Total(SubSeq(v2.images, 1, k - 1))
  BY DEF Package!ImageEntries
<1>3. Len(c) = Len(v2.images)
  <2>1. c = [k \in DOMAIN c |-> c[k]]
    BY DEF Package!ImageEntries
  <2> HIDE DEF c
  <2> QED
    BY <1>1, <1>2, <2>1
<1> HIDE DEF c
<1> QED
  BY <1>1, <1>2, <1>3 DEF c

LEMMA PackageInit == Package!Init => Package!PackageInv
<1> SUFFICES ASSUME Package!Init PROVE Package!PackageInv
  OBVIOUS
<1>1. DOMAIN v3 = {"revision", "headerSize", "devices", "components", "checksum", "payload"}
      /\ v3.payload \in Seq(Nat)
  BY DEF Package!Init, Package!NoFile
<1> QED
  BY <1>1 DEF Package!Init, Package!PackageInv

LEMMA PackageNext == Package!PackageInv /\ [Package!Next]_Package!vars => Package!PackageInv'
<1> SUFFICES ASSUME Package!PackageInv, [Package!Next]_Package!vars PROVE Package!PackageInv'
  OBVIOUS
<1> DEFINE F == {"revision", "headerSize", "devices", "components", "checksum", "payload"}
           d == Package!DeviceRecords
           e == Package!ImageEntries(Package!Start)
<1>1. /\ v2 \in Package!Metas /\ DOMAIN v3 = F /\ v3.payload \in Seq(Nat)
      /\ v1 \in {"devices", "components", "size", "checksum", "images"} => v3.revision = v2.revision
      /\ v1 \in {"components", "size", "checksum", "images"} => v3.devices = d
      /\ v1 \in {"size", "checksum", "images"} => v3.components = e
      /\ v1 \in {"checksum", "images"} => v3.headerSize = Package!Start
      /\ v1 \in {"images", "file", "parsed"} => v3.checksum = <<v2.revision, Package!Start, d, e>>
  BY DEF Package!PackageInv
<1>2. v2' = v2 /\ d' = d /\ e' = e /\ Package!Start' = Package!Start
      /\ Package!Metas' = Package!Metas
  <2>1. v2' = v2
    BY DEF Package!Next, Package!vars, Package!Then, Package!WriteHeaderInfo,
      Package!WriteDeviceIdentificationArea, Package!WriteComponentImageInfoArea,
      Package!UpdatePkgHeaderSize, Package!WritePkgHeaderChecksum,
      Package!AppendComponentImages, Package!Truncated, Package!Damaged, Package!Parse
  <2>2. d' = d
    BY <2>1 DEF Package!DeviceRecords
  <2>3. Package!Start' = Package!Start
    BY <2>1, <2>2 DEF Package!Start
  <2> QED
    BY <2>1, <2>2, <2>3 DEF Package!ImageEntries, Package!Metas
<1> HIDE DEF d, e, F
<1> DEFINE Written ==
             /\ DOMAIN v3' = F /\ v3'.payload \in Seq(Nat)
             /\ v1' \in {"devices", "components", "size", "checksum", "images"} =>
                  v3'.revision = v2.revision
             /\ v1' \in {"components", "size", "checksum", "images"} => v3'.devices = d
             /\ v1' \in {"size", "checksum", "images"} => v3'.components = e
             /\ v1' \in {"checksum", "images"} => v3'.headerSize = Package!Start
             /\ v1' \in {"images", "file", "parsed"} =>
                  v3'.checksum = <<v2.revision, Package!Start, d, e>>
<1>3. ASSUME Written,
             v1' \in {"header", "devices", "components", "size", "checksum", "images", "file"}
      PROVE  Package!PackageInv'
  <2>1. v1' # "parsed"
    BY <1>3
  <2> QED
    BY <1>1, <1>2, <1>3, <2>1 DEF Package!PackageInv, d, e, F
<1>4. CASE Package!WriteHeaderInfo
  <2>1. v1' = "devices" /\ v3' = [v3 EXCEPT !.revision = v2.revision]
    BY <1>4 DEF Package!WriteHeaderInfo, Package!Then
  <2> QED
    BY <1>1, <1>3, <2>1 DEF F
<1>5. CASE Package!WriteDeviceIdentificationArea
  <2>1. v1 = "devices" /\ v1' = "components" /\ v3' = [v3 EXCEPT !.devices = d]
    BY <1>5 DEF Package!WriteDeviceIdentificationArea, Package!Then, d
  <2> QED
    BY <1>1, <1>3, <2>1 DEF F
<1>6. CASE Package!WriteComponentImageInfoArea
  <2> DEFINE q == [k \in DOMAIN v2.images |-> [offset |-> 0, size |-> 0]]
             f == [v3 EXCEPT !.components = q]
  <2>1. v1 = "components" /\ v1' = "size"
        /\ v3' = [v3 EXCEPT !.components = Package!ImageEntries(Package!StartOffset(f))]
    BY <1>6 DEF Package!WriteComponentImageInfoArea, Package!Then
  <2>2. f.revision = v2.revision /\ f.devices = d /\ f.components = q
    BY <1>1, <2>1 DEF F
  <2>3. Len(q) = Len(v2.images)
    <3>1. v2.images \in Seq(Nat)
      BY <1>1, MetaKnown
    <3> QED
      BY <3>1
  <2> HIDE DEF f, q
  <2>4. Package!StartOffset(f) = Package!Start
    BY <1>1, <2>2, <2>3, HeaderKnown DEF d
  <2>5. v3' = [v3 EXCEPT !.components = e]
    BY <2>1, <2>4 DEF e
  <2> QED
    BY <1>1, <1>3, <2>1, <2>5 DEF F
<1>7. CASE Package!UpdatePkgHeaderSize
  <2>1. v1 = "size" /\ v1' = "checksum"
        /\ v3' = [v3 EXCEPT !.headerSize = Package!StartOffset(v3)]
    BY <1>7 DEF Package!UpdatePkgHeaderSize, Package!Then, Package!StartOffset
  <2>2. Package!StartOffset(v3) = Package!Start
    BY <1>1, <2>1, HeaderKnown, EntriesKnown DEF d, e
  <2>3. v3' = [v3 EXCEPT !.headerSize = Package!Start]
    BY <2>1, <2>2
  <2> QED
    BY <1>1, <1>3, <2>1, <2>3 DEF F
<1>8. CASE Package!WritePkgHeaderChecksum
  <2>1. v1 = "checksum" /\ v1' = "images"
        /\ v3' = [v3 EXCEPT !.checksum = Package!HeaderBytes(v3)]
    BY <1>8 DEF Package!WritePkgHeaderChecksum, Package!Then
  <2>2. Package!HeaderBytes(v3) = <<v2.revision, Package!Start, d, e>>
    BY <1>1, <2>1 DEF Package!HeaderBytes
  <2>3. v3' = [v3 EXCEPT !.checksum = <<v2.revision, Package!Start, d, e>>]
    BY <2>1, <2>2
  <2> QED
    BY <1>1, <1>3, <2>1, <2>3 DEF F
<1>9. CASE Package!AppendComponentImages
  <2>1. v1 = "images" /\ v1' = "file" /\ v3' = [v3 EXCEPT !.payload = v2.images]
    BY <1>9 DEF Package!AppendComponentImages, Package!Then
  <2>2. v2.images \in Seq(Nat)
    BY <1>1, MetaKnown
  <2> QED
    BY <1>1, <1>3, <2>1, <2>2 DEF F
<1>10. CASE Package!Truncated
  <2>1. v1 = "file" /\ v1' = v1 /\ v3' = [v3 EXCEPT !.payload = Package!Front(@)]
        /\ v3.payload # <<>>
    BY <1>10 DEF Package!Truncated
  <2>2. Package!Front(v3.payload) \in Seq(Nat)
    <3> DEFINE p == v3.payload
    <3>1. p \in Seq(Nat)
      BY <1>1
    <3> HIDE DEF p
    <3>2. \A i \in 1..(Len(p) - 1) : p[i] \in Nat
      BY <3>1
    <3>3. 1 \in Int /\ Len(p) - 1 \in Int
      BY <3>1
    <3>4. SubSeq(p, 1, Len(p) - 1) \in Seq(Nat)
      BY <3>2, <3>3, SubSeqProperties
    <3> QED
      BY <3>4 DEF Package!Front, p
  <2> QED
    BY <1>1, <1>3, <2>1, <2>2 DEF F
<1>11. CASE Package!Damaged
  <2>1. v1 = "file" /\ v1' = v1
    BY <1>11 DEF Package!Damaged
  <2>2. \/ \E x : v3' = [v3 EXCEPT !.headerSize = x]
        \/ \E x : v3' = [v3 EXCEPT !.components = x]
        \/ \E x : v3' = [v3 EXCEPT !.devices = x]
    BY <1>1, <1>11 DEF Package!Damaged, F
  <2>3. DOMAIN v3' = DOMAIN v3 /\ v3'.payload = v3.payload /\ v3'.checksum = v3.checksum
    BY <1>1, <2>2 DEF F
  <2> QED
    BY <1>1, <1>3, <2>1, <2>3
<1>12. v3' = v3 => /\ Package!Accepts(v3)' = Package!Accepts(v3)
                   /\ Package!MayNotDecode(v3)' = Package!MayNotDecode(v3)
  BY DEF Package!Accepts, Package!AreasEnd, Package!TotalSizeValid, Package!FileSize,
    Package!HeaderBytes, Package!HeaderEnd, Package!DevicesEnd, Package!Extra,
    Package!MayNotDecode, Package!BitmapBytes
<1>13. CASE Package!Parse
  <2>1. v1 = "file" /\ v1' = "parsed" /\ v3' = v3
        /\ \/ /\ Package!Accepts(v3)
              /\ v4' = [parsed |-> TRUE, devices |-> v3.devices, components |-> v3.components]
           \/ (~Package!Accepts(v3) \/ Package!MayNotDecode(v3)) /\ v4' = Package!NoResult
    BY <1>13 DEF Package!Parse
  <2>2. Package!NoResult' = Package!NoResult
    BY DEF Package!NoResult
  <2> QED
    BY <1>1, <1>2, <1>12, <2>1, <2>2 DEF Package!PackageInv, d, e, F
<1>14. CASE UNCHANGED Package!vars
  <2>1. v1' = v1 /\ v3' = v3 /\ v4' = v4
    BY <1>14 DEF Package!vars
  <2>2. /\ Package!Accepts(v3)' = Package!Accepts(v3)
        /\ Package!MayNotDecode(v3)' = Package!MayNotDecode(v3)
        /\ Package!NoResult' = Package!NoResult
    BY <1>12, <2>1 DEF Package!NoResult
  <2>3. v1 = "parsed" =>
          \/ /\ Package!Accepts(v3)
             /\ v4 = [parsed |-> TRUE, devices |-> v3.devices, components |-> v3.components]
          \/ (~Package!Accepts(v3) \/ Package!MayNotDecode(v3)) /\ v4 = Package!NoResult
    BY DEF Package!PackageInv
  <2>4. v1 \in {"header", "devices", "components", "size", "checksum", "images",
               "file", "parsed"}
    BY DEF Package!PackageInv
  <2> QED
    BY <1>1, <1>2, <2>1, <2>2, <2>3, <2>4 DEF Package!PackageInv, d, e, F
<1> QED
  BY <1>4, <1>5, <1>6, <1>7, <1>8, <1>9, <1>10, <1>11, <1>13, <1>14 DEF Package!Next

\* An unchanged header is accepted just when the images fill the rest of the file.
LEMMA PackageSafe == Package!PackageInv => Package!PackagesRead
<1> SUFFICES ASSUME Package!PackageInv, v1 = "parsed"
             PROVE  Package!PackagesRead
  BY DEF Package!PackagesRead
<1> DEFINE d == Package!DeviceRecords
           e == Package!ImageEntries(Package!Start)
           n == Len(v2.images)
           m == v2.images
           S == Package!Start
           Known == /\ v3.revision = v2.revision /\ v3.headerSize = S
                    /\ v3.devices = d /\ v3.components = e
<1>1. /\ v2 \in Package!Metas /\ v3.payload \in Seq(Nat)
      /\ v3.checksum = <<v2.revision, S, d, e>>
      /\ \/ /\ Package!Accepts(v3)
            /\ v4 = [parsed |-> TRUE, devices |-> v3.devices, components |-> v3.components]
         \/ (~Package!Accepts(v3) \/ Package!MayNotDecode(v3)) /\ v4 = Package!NoResult
  BY DEF Package!PackageInv
<1>2. v3.checksum = Package!HeaderBytes(v3) => Known
  <2> HIDE DEF d, e, S
  <2> QED
    BY <1>1 DEF Package!HeaderBytes
<1>3. /\ m \in Seq(Nat) /\ n \in Nat /\ DOMAIN m = 1..n /\ v2.revision \in 1..4
      /\ DOMAIN e = 1..n /\ Len(e) = n
      /\ \A k \in 1..n : /\ e[k].size = m[k]
                         /\ e[k].offset = S + Package!Total(SubSeq(m, 1, k - 1))
  <2>1. m \in Seq(Nat) /\ n \in Nat /\ DOMAIN m = 1..n /\ v2.revision \in 1..4
    BY <1>1, MetaKnown
  <2>2. DOMAIN e = 1..n /\ Len(e) = n
        /\ \A k \in 1..n : /\ e[k].size = m[k]
                           /\ e[k].offset = S + Package!Total(SubSeq(m, 1, k - 1))
    BY <1>1, EntriesKnown
  <2> QED
    BY <2>1, <2>2
<1>4. S \in Nat
  BY <1>1, HeaderKnown
<1> DEFINE T == Package!Total(m)
           B(k) == Package!Total(SubSeq(m, 1, k))
           Y == Package!Total(v3.payload)
           End(k) == v3.headerSize + Package!Total([j \in 1..k |-> v3.components[j].size])
<1>5. Known => /\ Package!HeaderEnd(v3) \in Nat
               /\ Package!StartOffset(v3) = S /\ Package!FileSize(v3) = S + Y
               /\ v2.revision = 1 => Package!HeaderEnd(v3) + Package!Checksum = S
  <2> SUFFICES ASSUME Known
               PROVE  /\ Package!HeaderEnd(v3) \in Nat
                      /\ Package!StartOffset(v3) = S /\ Package!FileSize(v3) = S + Y
                      /\ v2.revision = 1 => Package!HeaderEnd(v3) + Package!Checksum = S
    OBVIOUS
  <2> HIDE DEF e, S, d
  <2>1. Package!HeaderEnd(v3) \in Nat /\ Package!StartOffset(v3) = S
        /\ (v2.revision = 1 => Package!Extra(v2.revision, 4, 4) = 0)
    BY <1>1, <1>3, HeaderKnown DEF d, S
  <2>2. Package!StartOffset(v3)
          = Package!HeaderEnd(v3) + Package!Checksum + Package!Extra(v2.revision, 4, 4)
    BY DEF Package!StartOffset
  <2>3. Package!FileSize(v3)
          = Package!HeaderEnd(v3) + Package!Checksum + Package!Extra(v2.revision, 4, 4) + Y
    BY DEF Package!FileSize
  <2> QED
    BY <2>1, <2>2, <2>3 DEF Package!Checksum
<1>6. /\ T \in Nat /\ Y \in Nat
      /\ \A k \in 0..n : B(k) \in Nat /\ T = B(k) + Package!Total(SubSeq(m, k + 1, n))
                         /\ Package!Total(SubSeq(m, k + 1, n)) \in Nat
  <2>1. Y \in Nat
    <3> DEFINE p == v3.payload
    <3>1. p \in Seq(Nat)
      BY <1>1
    <3> HIDE DEF p
    <3>2. Cut(p, Len(p), 0)
      BY <3>1 DEF Cut
    <3>3. Package!Total(p) \in Nat
      BY <3>2, TotalOfImages
    <3> QED
      BY <3>3 DEF p
  <2>2. 0 \in 0..n /\ \A k \in 0..n : Cut(m, n, k)
    BY <1>3 DEF Cut
  <2> HIDE DEF m, n
  <2>3. \A k \in 0..n : /\ T \in Nat /\ B(k) \in Nat
                        /\ T = B(k) + Package!Total(SubSeq(m, k + 1, n))
                        /\ Package!Total(SubSeq(m, k + 1, n)) \in Nat
    BY <2>2, TotalOfImages
  <2> QED
    BY <2>1, <2>2, <2>3
<1>7. Known => \A k \in 0..n : End(k) = S + B(k)
  <2> SUFFICES ASSUME Known, NEW k \in 0..n PROVE End(k) = S + B(k)
    OBVIOUS
  <2> DEFINE s == [j \in 1..k |-> v3.components[j].size]
  <2>1. DOMAIN s = 1..k /\ \A j \in 1..k : s[j] = m[j]
    <3> HIDE DEF e, S, d
    <3> QED
      BY <1>3
  <2>2. Cut(m, n, k)
    BY <1>3 DEF Cut
  <2> HIDE DEF s, m, n
  <2>3. Package!Total(s) = B(k)
    BY <2>1, <2>2, TotalOfImages
  <2> QED
    BY <2>3 DEF s
<1>8. B(n) = T
  <2>1. DOMAIN m = 1..n /\ \A j \in 1..n : m[j] = m[j]
    BY <1>3
  <2>2. Cut(m, n, n)
    BY <1>3 DEF Cut
  <2> HIDE DEF m, n
  <2> QED
    BY <2>1, <2>2, TotalOfImages
<1>9. Package!TotalSizeValid(v3) <=> /\ \A k \in DOMAIN v3.components :
                                          v3.components[k].offset = End(k - 1)
                                     /\ End(Len(v3.components)) = Package!FileSize(v3)
  BY DEF Package!TotalSizeValid
<1> DEFINE Full == (\A k \in DOMAIN m : m[k] > 0)
                   /\ (\A k \in DOMAIN v2.devices : v2.devices[k].length > 0)
<1>13. ASSUME Known, v2.revision = 1, Full PROVE ~Package!MayNotDecode(v3)
  <2> HIDE DEF S
  <2>1. Package!BitmapBytes(v3.components) = Package!BitmapBytes(v2.images)
        /\ Package!BitmapBytes(v2.images) \in Nat
    <3> HIDE DEF e, m, n
    <3>1. n \in Nat
      BY <1>3
    <3>2. (n + 7) \div 8 \in Nat
      BY <3>1, \A x \in Nat : (x + 7) \div 8 \in Nat
    <3>3. Len(v3.components) = n
      BY <1>3, <1>13
    <3> QED
      <4>1. Package!BitmapBytes(v3.components) = (n + 7) \div 8
        BY <3>3, Zenon DEF Package!BitmapBytes
      <4>2. Package!BitmapBytes(v2.images) = (n + 7) \div 8
        BY Zenon DEF Package!BitmapBytes, n, m
      <4> QED
        BY <3>2, <4>1, <4>2
  <2>2. ASSUME NEW k \in DOMAIN v3.devices
        PROVE  ~(v3.devices[k].length
                   <= Package!DeviceIDRecord + Package!BitmapBytes(v3.components))
    <3>1. k \in DOMAIN v2.devices
          /\ d[k].length = Package!DeviceIDRecord + Package!BitmapBytes(v2.images)
                             + Package!Extra(v2.revision, 4, 4) + v2.devices[k].length
      BY <1>13, <2>2 DEF Package!DeviceRecords
    <3>2. v2.devices[k].length \in Nat
      <4>1. v2.devices \in Seq([components : SUBSET Nat, length : Nat])
        BY <1>1, MetaKnown
      <4> DEFINE s == v2.devices
                 D == [components : SUBSET Nat, length : Nat]
      <4>2. k \in DOMAIN s /\ s \in Seq(D)
        BY <3>1, <4>1
      <4>3. \A x \in D : x.length \in Nat
        OBVIOUS
      <4> HIDE DEF s, D
      <4>4. s[k] \in D
        BY <4>2
      <4> QED
        BY <4>3, <4>4 DEF s
    <3>3. v2.devices[k].length > 0 /\ v3.devices[k] = d[k]
      BY <1>13, <3>1
    <3> HIDE DEF d
    <3> QED
      BY <1>13, <2>1, <3>1, <3>2, <3>3 DEF Package!DeviceIDRecord, Package!Extra
  <2> HIDE DEF e, d
  <2>3. \A k \in DOMAIN v3.components : v3.components[k].size # 0
    BY <1>3, <1>13
  <2> QED
    BY <2>2, <2>3 DEF Package!MayNotDecode
<1> HIDE DEF d, e, m, n, S, T, B, Y, End, Full
<1>10. Package!Intact /\ v2.revision = 1 /\ T > 0 /\ Full => v4.parsed
  <2> SUFFICES ASSUME Package!Intact, v2.revision = 1, T > 0, Full PROVE v4.parsed
    OBVIOUS
  <2>1. Known /\ Y = T
    BY <1>2 DEF Package!Intact, Y, T, m
  <2>2. Package!AreasEnd(v3)
    BY <1>4, <1>5, <1>6, <2>1 DEF Package!AreasEnd
  <2>3. ASSUME NEW k \in DOMAIN v3.components PROVE v3.components[k].offset = End(k - 1)
    <3>1. k \in 1..n /\ k - 1 \in 0..n
      BY <1>3, <2>1
    <3>2. v3.components[k].offset = S + B(k - 1)
      BY <1>3, <2>1, <3>1 DEF B
    <3> QED
      BY <1>7, <2>1, <3>1, <3>2
  <2>4. End(Len(v3.components)) = Package!FileSize(v3)
    <3>1. Len(v3.components) = n /\ n \in 0..n
      BY <1>3, <2>1
    <3> QED
      BY <1>5, <1>7, <1>8, <2>1, <3>1
  <2>5. Package!Accepts(v3)
    BY <1>9, <2>1, <2>2, <2>3, <2>4 DEF Package!Accepts, Package!Intact
  <2>6. ~Package!MayNotDecode(v3)
    BY <1>13, <2>1
  <2> QED
    BY <1>1, <2>5, <2>6
<1>11. ASSUME v4.parsed
       PROVE  /\ Y = T
              /\ \A k \in DOMAIN m :
                   /\ v4.components[k].offset = Package!FileSize(v3) - Package!Total(SubSeq(m, k, n))
                   /\ v4.components[k].size = m[k]
              /\ \A k \in DOMAIN v2.devices :
                   v4.devices[k].components = v2.devices[k].components
  <2>1. Package!Accepts(v3) /\ v4.devices = v3.devices /\ v4.components = v3.components
    BY <1>1, <1>11 DEF Package!NoResult
  <2>2. Known /\ Package!TotalSizeValid(v3)
    BY <1>2, <2>1 DEF Package!Accepts
  <2>3. Len(v3.components) = n /\ n \in 0..n
    BY <1>3, <2>2
  <2>4. S + T = S + Y
    BY <1>5, <1>7, <1>8, <1>9, <2>2, <2>3
  <2>5. Y = T
    BY <1>4, <1>6, <2>4
  <2>6. ASSUME NEW k \in DOMAIN m
        PROVE  /\ v4.components[k].offset
                    = Package!FileSize(v3) - Package!Total(SubSeq(m, k, n))
               /\ v4.components[k].size = m[k]
    <3>1. k \in 1..n /\ k - 1 \in 0..n /\ (k - 1) + 1 = k
      BY <1>3
    <3>2. v4.components[k].offset = S + B(k - 1) /\ v4.components[k].size = m[k]
      BY <1>3, <2>1, <2>2, <3>1 DEF B
    <3>3. T = B(k - 1) + Package!Total(SubSeq(m, k, n)) /\ B(k - 1) \in Nat
          /\ Package!Total(SubSeq(m, k, n)) \in Nat
      BY <1>6, <3>1
    <3>4. Package!FileSize(v3) = S + T
      BY <1>5, <2>2, <2>5
    <3> QED
      BY <1>4, <1>6, <3>2, <3>3, <3>4
  <2>7. ASSUME NEW k \in DOMAIN v2.devices
        PROVE  v4.devices[k].components = v2.devices[k].components
    BY <2>1, <2>2 DEF d, Package!DeviceRecords
  <2> QED
    BY <2>5, <2>6, <2>7
<1> QED
  BY <1>10, <1>11 DEF Package!PackagesRead, T, Y, m, n, Full

LEMMA PackageStays ==
  (component = "package" => Package!PackageInv) /\ [DeviceNext]_vars
    => (component = "package" => Package!PackageInv)'
<1> SUFFICES ASSUME component' = "package", [DeviceNext]_vars,
                    component = "package" => Package!PackageInv
             PROVE  Package!PackageInv'
  OBVIOUS
<1>1. CASE PackageStep
  BY <1>1, PackageNext DEF PackageStep, Only
<1>2. CASE UNCHANGED vars
  BY <1>2, PackageNext, OthersElsewhere DEF vars, Package!vars
<1> QED
  BY <1>1, <1>2, OthersElsewhere

-----------------------------------------------------------------------------
\* A retrieval of PDRs that ends without error has every record of the device, in
\* order and with all its parts, and the FRU table is whole or absent, whatever the
\* parts of the records (getPDRs, getFRURecordTables).
THEOREM WholeRepositoryReadHolds == DeviceSpec => []WholeRepositoryRead
<1>1. DeviceInit => (component = "fetch" => Fetch!FetchInv)
  BY FetchInit DEF DeviceInit
<1>2. (component = "fetch" => Fetch!FetchInv) => WholeRepositoryRead
  BY FetchSafe DEF WholeRepositoryRead, Fetch!FetchInv
<1> QED
  BY <1>1, <1>2, FetchStays, PTL DEF DeviceSpec

\* Event handlers get whole events, once and in order, wherever the polls of a
\* terminus fail or stop (pollForPlatformEventTask).
THEOREM EventsHandledIntactHolds == DeviceSpec => []EventsHandledIntact
<1>1. DeviceInit => (component = "poll" => Poll!PollInv)
  BY PollInit DEF DeviceInit
<1>2. (component = "poll" => Poll!PollInv) => EventsHandledIntact
  BY DEF EventsHandledIntact, Poll!PollInv
<1> QED
  BY <1>1, <1>2, PollStays, PTL DEF DeviceSpec

\* An event that begins with the alarms of its previous state leaves those of its
\* new state, through all it passes between them; an open log entry belongs to an
\* asserted alarm and the last log says whether one is left, unless the creation of
\* an entry failed, for any thresholds, readings, events and failures of the log
\* (triggerNumericSensorThresholdEvent, setThresholdAlarm, createThresholdLog).
THEOREM AlarmsFollowEventsHolds == DeviceSpec => []AlarmsFollowEvents
<1>1. DeviceInit => (component = "numeric" => Numeric!NumericInv)
  BY NumericInit DEF DeviceInit
<1>2. (component = "numeric" => Numeric!NumericInv) => AlarmsFollowEvents
  BY DEF AlarmsFollowEvents, Numeric!NumericInv
<1> QED
  BY <1>1, <1>2, NumericStays, PTL DEF DeviceSpec

\* Once the walk over the PDRs of a terminus is over, an event or a poll of each
\* sensor they describe finds the sensor under its name unless its path was taken,
\* for any PDRs, terminus and order of creations and removals (parseTerminusPDRs,
\* addNextSensorFromPDRs, getSensorObject).
THEOREM EverySensorMadeHolds == DeviceSpec => []EverySensorMade
<1>1. DeviceInit => (component = "sensors" => SensorPdrs!SensorsInv)
  BY SensorsInit DEF DeviceInit
<1>2. (component = "sensors" => SensorPdrs!SensorsInv) => EverySensorMade
  BY SensorsSafe DEF EverySensorMade
<1> QED
  BY <1>1, <1>2, SensorsStays, PTL DEF DeviceSpec

\* An effecter with no request under way, whose last change was passed on and not
\* refused, has the state of the D-Bus property that the configuration gives it,
\* however requests for one composite follow each other, unless an entry before it
\* was malformed and left out: its requests go to the effecter before it then
\* (processHostEffecterChangeNotification, parseEffecterJson).
THEOREM TerminusFollowsHolds == DeviceSpec => []TerminusFollows
<1>1. DeviceInit => (component = "follow" => Follow!FollowInv)
  BY FollowInit DEF DeviceInit
<1>2. (component = "follow" => Follow!FollowInv) => TerminusFollows
  BY DEF TerminusFollows, Follow!FollowInv, Follow!PositionFollows, Follow!TerminusFollows
<1> QED
  BY <1>1, <1>2, FollowStays, PTL DEF DeviceSpec

\* The parser accepts what the creator writes in the first format when libpldm
\* decodes its areas, and what it accepts has the images and the components of each
\* device where the creator meant them, whatever was cut off or changed on the way,
\* for any metadata and lengths (write_component_image_info_area, parsePkgHeader).
THEOREM PackagesReadHolds == DeviceSpec => []PackagesRead
<1>1. DeviceInit => (component = "package" => Package!PackageInv)
  BY PackageInit DEF DeviceInit
<1>2. (component = "package" => Package!PackageInv) => PackagesRead
  BY PackageSafe DEF PackagesRead
<1> QED
  BY <1>1, <1>2, PackageStays, PTL DEF DeviceSpec

\* A device that is the only one in an update is answered by its own updater or
\* by none: no step gives it the answer of the updater of another item, whatever
\* items are present (AggregateUpdateManager::handleRequest).
THEOREM DeviceHeardByItsUpdaterHolds == DeviceSpec => DeviceHeardByItsUpdater
<1>1. DeviceInit => (component = "item" => Items!ItemsInv)
  BY ItemsInit DEF DeviceInit
<1>2. (component = "item" => Items!ItemsInv) /\ [DeviceNext]_vars
        => [component = "item" => Items!HeardByItsUpdater]_vars
  BY ItemsHeard
<1> QED
  BY <1>1, <1>2, ItemsStays, PTL DEF DeviceSpec, DeviceHeardByItsUpdater
=============================================================================
