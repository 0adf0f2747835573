--------------------------- MODULE ResponderProofs ---------------------------
(***************************************************************************)
(* What the runs of MCComponents check of the components of                *)
(* ResponderComponents, proved for every value of their constants.  Each   *)
(* component has an inductive invariant in its own module (HostInv,        *)
(* SensorsInv, ...), which the lemmas <component>Init and <component>Next  *)
(* establish and keep.  What folds over attributes, objects and PDRs       *)
(* compute is derived from FoldInduction.                                  *)
(***************************************************************************)
EXTENDS ResponderComponents, FiniteSetTheorems, SequenceTheorems, TLAPS

\* Of the intervals below the elements of T one is least.
LEMMA LeastNat ==
  ASSUME NEW T, T \subseteq Nat, T # {}
  PROVE  \E x \in T : \A y \in T : x <= y
<1>1. PICK n \in T : TRUE
  OBVIOUS
<1> DEFINE F == {0..m : m \in {k \in T : k <= n}}
           R == StrictSubsetOrdering(0..n)
<1>2. F # {} /\ F \subseteq SUBSET (0..n)
  OBVIOUS
<1>3. IsWellFoundedOn(R, SUBSET (0..n))
  <2>1. IsFiniteSet(0..n)
    BY n \in Int, 0 \in Int, FS_Interval
  <2>2. FiniteSubsetsOf(0..n) = SUBSET (0..n)
    BY <2>1, FS_FiniteSubsetsOfFinite
  <2> QED
    BY <2>2, FS_StrictSubsetOrderingWellFounded
<1>4. PICK I \in F : \A J \in F : ~(<<J, I>> \in R)
  <2> HIDE DEF F, R
  <2> QED
    BY <1>2, <1>3, WFMin
<1>5. PICK x \in T : x <= n /\ I = 0..x
  OBVIOUS
<1>6. ASSUME NEW y \in T, y < x
      PROVE  FALSE
  <2>1. 0..y \in F /\ 0..y \subseteq I /\ x \in I /\ x \notin 0..y
    BY <1>5, <1>6
  <2>2. <<0..y, I>> \in R
    BY <1>2, <1>5, <2>1 DEF StrictSubsetOrdering
  <2> QED
    BY <1>4, <2>1, <2>2
<1> QED
  BY <1>5, <1>6

\* Max and Min of FiniteSetsExt are these choices.
LEMMA LargestOf ==
  ASSUME NEW n \in Nat, NEW S \in SUBSET (0..n), S # {}
  PROVE  (CHOOSE x \in S : \A y \in S : x >= y) \in S
<1> DEFINE T == {k \in Nat : n - k \in S}
<1>1. T # {}
  <2>1. PICK s \in S : TRUE
    OBVIOUS
  <2>2. n - s \in Nat /\ n - (n - s) = s
    OBVIOUS
  <2> QED
    BY <2>1, <2>2
<1>2. PICK k \in T : \A m \in T : k <= m
  BY <1>1, LeastNat
<1>3. \A s \in S : n - k >= s
  <2> SUFFICES ASSUME NEW s \in S
               PROVE  n - k >= s
    OBVIOUS
  <2>1. n - s \in Nat /\ n - (n - s) = s
    OBVIOUS
  <2> QED
    BY <1>2, <2>1
<1> QED
  BY <1>2, <1>3

LEMMA SmallestOf ==
  ASSUME NEW S \in SUBSET Nat, S # {}
  PROVE  /\ (CHOOSE x \in S : \A y \in S : x =< y) \in S
         /\ \A z \in S : (CHOOSE x \in S : \A y \in S : x =< y) <= z
  BY LeastNat

\* Each step is one of the component that runs.
LEMMA StepsOfOne ==
  /\ HostPdrsStep => Only("host")
  /\ EventsStep => Only("events")
  /\ EffectersStep => Only("effecters")
  /\ BiosStep => Only("bios")
  /\ FruStep => Only("fru")
  /\ DaemonStep => Only("daemon")
  BY DEF HostPdrsStep, EventsStep, EffectersStep, BiosStep, FruStep, DaemonStep

\* Only its own steps and steps that stutter concern a component.
LEMMA OthersElsewhere ==
  ASSUME [ResponderNext]_vars
  PROVE  /\ component' = "host" => component = "host" /\ (HostPdrsStep \/ UNCHANGED vars)
         /\ component' = "events" => component = "events" /\ (EventsStep \/ UNCHANGED vars)
         /\ component' = "effecters" => component = "effecters" /\ (EffectersStep \/ UNCHANGED vars)
         /\ component' = "daemon" => component = "daemon" /\ (DaemonStep \/ UNCHANGED vars)
         /\ component' = "bios" => component = "bios" /\ (BiosStep \/ UNCHANGED vars)
         /\ component' = "fru" => component = "fru" /\ (FruStep \/ UNCHANGED vars)
  BY StepsOfOne DEF ResponderNext, vars, Only

-----------------------------------------------------------------------------
\* HostPdr: v1 is fetch, v2 is requests, v3 is collected, v4 is repo, v5
\* is objPathMap, v6 is available, v7 is sensors, v8 is host, v9 is
\* events, v10 is crashed, v11 is unread, v12 is disturbed.

LEMMA HostPdrsInit == HostPdrs!Init => HostPdrs!HostInv
<1> SUFFICES ASSUME HostPdrs!Init
             PROVE  HostPdrs!HostInv
  OBVIOUS
<1>1. HostPdrs!HostTypes
  <2>1. v1 \in [pdr : Seq(HostPdrs!Handles), modified : Seq(HostPdrs!Handles),
          isHostPdrModified : BOOLEAN,
                   defer : BOOLEAN, next : HostPdrs!Handles \cup {0}, chg : BOOLEAN]
    BY DEF HostPdrs!Init
  <2>2. v3 \in [sensors : Seq(HostPdrs!Handles), frus : Seq(HostPdrs!Handles),
                       assocs : SUBSET (HostPdrs!Assocs \X {"live", "junk"}), merged : BOOLEAN]
    BY DEF HostPdrs!Init, HostPdrs!Empty
  <2>3. v2 \in Seq(HostPdrs!Handles \cup {0}) /\ v11 \subseteq HostPdrs!Handles
    BY DEF HostPdrs!Init
  <2>4. v5 \in [HostPdrs!Assocs -> {"absent", "null", "live"}]
    BY DEF HostPdrs!Init
  <2>5. v7 \in [map : SUBSET HostPdrs!Handles, readings : SUBSET HostPdrs!Handles]
    BY DEF HostPdrs!Init
  <2>6. v8 \in [tl : {"none", "valid", "invalid"}, up : BOOLEAN,
                  fru : {"none", "metadata", "table"}]
    BY DEF HostPdrs!Init
  <2>7. v10 \in BOOLEAN /\ v12 \in BOOLEAN
    BY DEF HostPdrs!Init
  <2> QED
    BY <2>1, <2>2, <2>3, <2>4, <2>5, <2>6, <2>7 DEF HostPdrs!HostTypes
<1>2. HostPdrs!OnePlace /\ HostPdrs!OneList
  BY DEF HostPdrs!Init, HostPdrs!OnePlace, HostPdrs!OneList
<1>3. ~HostPdrs!Busy
  BY DEF HostPdrs!Init, HostPdrs!Busy
<1>4. HostPdrs!UnreadIsRead /\ HostPdrs!NullsAreMended
  BY <1>3 DEF HostPdrs!Init, HostPdrs!UnreadIsRead, HostPdrs!NullsAreMended
<1>5. HostPdrs!NodesAreLive
  BY DEF HostPdrs!Init, HostPdrs!NodesAreLive, HostPdrs!Shown, HostPdrs!Empty
<1> QED
  BY <1>1, <1>2, <1>4, <1>5 DEF HostPdrs!HostInv

LEMMA HandlesKnown == Len(HostRecords) \in Nat \ {0}
    /\ HostPdrs!Handles = 1..Len(HostRecords) /\ 1 \in HostPdrs!Handles
  BY HostRecordsAssumption DEF HostPdrs!Handles

\* What leaves the lists and the request alone leaves the exchange where it is.
LEMMA ExchangeStays ==
  ASSUME UNCHANGED <<v2, v11>>,
         v1'.pdr = v1.pdr, v1'.modified = v1.modified, v1'.next = v1.next,
         v1'.isHostPdrModified = v1.isHostPdrModified, v1'.defer = v1.defer
  PROVE  /\ (HostPdrs!OnePlace => HostPdrs!OnePlace') /\ (HostPdrs!OneList
              => HostPdrs!OneList') /\ (HostPdrs!UnreadIsRead => HostPdrs!UnreadIsRead')
         /\ HostPdrs!Busy' <=> HostPdrs!Busy
         /\ HostPdrs!Frontier' = HostPdrs!Frontier
<1>1. (HostPdrs!Busy' <=> HostPdrs!Busy) /\ HostPdrs!Frontier' = HostPdrs!Frontier
  BY DEF HostPdrs!Busy, HostPdrs!Frontier
<1>2. HostPdrs!ToRead' = HostPdrs!ToRead
  BY <1>1 DEF HostPdrs!ToRead
<1> QED
  BY <1>1, <1>2 DEF HostPdrs!OnePlace, HostPdrs!OneList, HostPdrs!UnreadIsRead

\* The next request is for the head of the list in use, or for the record the
\* walk is at.
LEMMA AskStays ==
  ASSUME HostPdrs!HostTypes, HostPdrs!OnePlace, HostPdrs!OneList, HostPdrs!UnreadIsRead,
           HostPdrs!NullsAreMended, HostPdrs!NodesAreLive,
         HostPdrs!Busy, v2 = <<>>,
         UNCHANGED <<v3, v5, v6, v7, v8, v10, v11>>,
         v1'.next = 0, ~v1'.defer,
         v1'.isHostPdrModified = v1.isHostPdrModified,
         \/ /\ v1.isHostPdrModified /\ v2' = <<Head(v1.modified)>>
            /\ v1'.modified = Tail(v1.modified) /\ v1'.pdr = v1.pdr
         \/ /\ ~v1.isHostPdrModified /\ v1.pdr # <<>>
            /\ v2' = <<Head(v1.pdr)>>
            /\ v1'.pdr = Tail(v1.pdr) /\ v1'.modified = v1.modified
         \/ /\ ~v1.isHostPdrModified /\ v1.pdr = <<>>
            /\ v2' = <<v1.next>>
            /\ v1'.pdr = v1.pdr /\ v1'.modified = v1.modified
  PROVE  (HostPdrs!OnePlace /\ HostPdrs!OneList /\ HostPdrs!UnreadIsRead
           /\ HostPdrs!NullsAreMended /\ HostPdrs!NodesAreLive)'
<1>1. HostPdrs!Busy' /\ v2' # <<>> /\ Len(v2') = 1
  BY DEF HostPdrs!Busy
<1>2. HostPdrs!OnePlace' /\ HostPdrs!OneList'
  BY <1>1 DEF HostPdrs!OnePlace, HostPdrs!OneList
<1>3. HostPdrs!NodesAreLive'
  BY DEF HostPdrs!NodesAreLive, HostPdrs!Shown
<1>4. /\ v1.pdr \in Seq(HostPdrs!Handles) /\ v1.modified \in Seq(HostPdrs!Handles)
      /\ v1.next \in HostPdrs!Handles \cup {0} /\ 0 \notin HostPdrs!Handles
  BY DEF HostPdrs!HostTypes, HostPdrs!Handles
<1>5. \A q \in Seq(HostPdrs!Handles) :
        q # <<>> => Head(q) \in HostPdrs!Handles
          /\ HostPdrs!Range(q) = {Head(q)} \cup HostPdrs!Range(Tail(q))
  <2> SUFFICES ASSUME NEW q \in Seq(HostPdrs!Handles), q # <<>>
               PROVE  Head(q) \in HostPdrs!Handles
                        /\ HostPdrs!Range(q) = {Head(q)} \cup HostPdrs!Range(Tail(q))
    OBVIOUS
  <2>1. Len(q) \in Nat \ {0} /\ DOMAIN q = 1..Len(q) /\ Head(q) = q[1] /\ q[1] \in HostPdrs!Handles
    OBVIOUS
  <2>2. DOMAIN Tail(q) = 1..(Len(q) - 1) /\ \A i \in 1..(Len(q) - 1) : Tail(q)[i] = q[i + 1]
    OBVIOUS
  <2>3. \A i \in 1..Len(q) : i = 1 \/ (i - 1 \in 1..(Len(q) - 1) /\ (i - 1) + 1 = i)
    BY <2>1
  <2>4. \A i \in 1..(Len(q) - 1) : i + 1 \in 1..Len(q)
    BY <2>1
  <2>5. {q[i] : i \in 1..Len(q)} = {q[1]} \cup {Tail(q)[i] : i \in 1..(Len(q) - 1)}
    <3>1. \A i \in 1..Len(q) : q[i] \in {q[1]} \cup {Tail(q)[j] : j \in 1..(Len(q) - 1)}
      <4> SUFFICES ASSUME NEW i \in 1..Len(q), i # 1
                   PROVE  \E j \in 1..(Len(q) - 1) : q[i] = Tail(q)[j]
        OBVIOUS
      <4>1. i - 1 \in 1..(Len(q) - 1) /\ (i - 1) + 1 = i
        BY <2>3
      <4>2. Tail(q)[i - 1] = q[(i - 1) + 1]
        BY <2>2, <4>1
      <4> QED
        BY <4>1, <4>2
    <3>2. \A j \in 1..(Len(q) - 1) : Tail(q)[j] \in {q[i] : i \in 1..Len(q)}
      BY <2>2, <2>4
    <3>3. q[1] \in {q[i] : i \in 1..Len(q)}
      BY <2>1
    <3> QED
      BY <3>1, <3>2, <3>3
  <2> QED
    BY <2>1, <2>2, <2>5 DEF HostPdrs!Range
<1>6. CASE /\ v1.isHostPdrModified /\ v2' = <<Head(v1.modified)>>
           /\ v1'.modified = Tail(v1.modified) /\ v1'.pdr = v1.pdr
  <2>1. v1.modified # <<>>
    BY <1>6 DEF HostPdrs!OneList
  <2>2. Head(v1.modified) \in HostPdrs!Handles
        /\ HostPdrs!Range(v1.modified) = {Head(v1.modified)} \cup HostPdrs!Range(v1'.modified)
    BY <1>4, <1>5, <1>6, <2>1
  <2>3. HostPdrs!Frontier' = Head(v1.modified)
    BY <1>4, <1>6, <2>2 DEF HostPdrs!Frontier
  <2>4. HostPdrs!ToRead \subseteq HostPdrs!ToRead'
    BY <1>1, <1>6, <2>2, <2>3 DEF HostPdrs!ToRead
  <2>5. HostPdrs!NullsAreMended'
    BY <1>6 DEF HostPdrs!NullsAreMended
  <2> QED
    BY <1>1, <1>2, <1>3, <2>4, <2>5 DEF HostPdrs!UnreadIsRead
<1>7. CASE /\ ~v1.isHostPdrModified /\ v1.pdr # <<>>
           /\ v2' = <<Head(v1.pdr)>>
           /\ v1'.pdr = Tail(v1.pdr) /\ v1'.modified = v1.modified
  <2>2. Head(v1.pdr) \in HostPdrs!Handles
        /\ HostPdrs!Range(v1.pdr) = {Head(v1.pdr)} \cup HostPdrs!Range(v1'.pdr)
    BY <1>4, <1>5, <1>7
  <2>3. HostPdrs!Frontier' = Head(v1.pdr)
    BY <1>4, <1>7, <2>2 DEF HostPdrs!Frontier
  <2>4. HostPdrs!ToRead \subseteq HostPdrs!ToRead'
    <3>1. HostPdrs!ToRead = HostPdrs!Range(v1.pdr)
      BY <1>7 DEF HostPdrs!ToRead
    <3>2. CASE v1'.pdr # <<>>
      BY <1>1, <1>7, <2>2, <2>3, <3>1, <3>2 DEF HostPdrs!ToRead
    <3>3. CASE v1'.pdr = <<>>
      <4>1. HostPdrs!Range(v1'.pdr) = {}
        BY <3>3 DEF HostPdrs!Range
      <4> QED
        BY <1>1, <2>2, <2>3, <3>1, <4>1 DEF HostPdrs!ToRead
    <3> QED
      BY <3>2, <3>3
  <2>5. HostPdrs!NullsAreMended'
    BY <1>7 DEF HostPdrs!NullsAreMended
  <2> QED
    BY <1>1, <1>2, <1>3, <2>4, <2>5 DEF HostPdrs!UnreadIsRead
<1>8. CASE /\ ~v1.isHostPdrModified /\ v1.pdr = <<>>
           /\ v2' = <<v1.next>>
           /\ v1'.pdr = v1.pdr /\ v1'.modified = v1.modified
  <2>1. HostPdrs!Frontier' = HostPdrs!Frontier
    BY <1>1, <1>8 DEF HostPdrs!Frontier
  <2>2. HostPdrs!ToRead \subseteq HostPdrs!ToRead'
    BY <1>8, <2>1 DEF HostPdrs!ToRead
  <2>3. HostPdrs!NullsAreMended'
    BY <1>1, <1>8, <2>1 DEF HostPdrs!NullsAreMended
  <2> QED
    BY <1>1, <1>2, <1>3, <2>2, <2>3 DEF HostPdrs!UnreadIsRead
<1> QED
  BY <1>6, <1>7, <1>8

\* A record is merged or kept for the end; the node of an association is live.
LEMMA CollectKeeps ==
  ASSUME HostPdrs!HostTypes, NEW h \in HostPdrs!Handles, NEW found \in BOOLEAN
  PROVE  /\ HostPdrs!Collect(h, found) \in [sensors : Seq(HostPdrs!Handles), frus : Seq(HostPdrs!Handles),
                            assocs : SUBSET (HostPdrs!Assocs \X {"live", "junk"}), merged : BOOLEAN]
         /\ HostPdrs!Collect(h, found).assocs = IF h \in HostPdrs!Assocs /\ found
              THEN v3.assocs \cup {<<h, "live">>}
                                ELSE v3.assocs
<1>0. /\ v3.sensors \in Seq(HostPdrs!Handles) /\ v3.frus \in Seq(HostPdrs!Handles)
      /\ v3.assocs \subseteq HostPdrs!Assocs \X {"live", "junk"} /\ v3.merged \in BOOLEAN
      /\ v3 = [sensors |-> v3.sensors, frus |-> v3.frus,
                       assocs |-> v3.assocs, merged |-> v3.merged]
  BY DEF HostPdrs!HostTypes
<1>1. CASE HostRecords[h] = "assoc"
  <2>1. h \in HostPdrs!Assocs
    BY <1>1 DEF HostPdrs!Assocs
  <2>2. HostPdrs!Collect(h, found) = [sensors |-> v3.sensors, frus |-> v3.frus,
                      assocs |-> IF found THEN v3.assocs \cup {<<h, "live">>} ELSE v3.assocs,
                      merged |-> TRUE]
    BY <1>0, <1>1 DEF HostPdrs!Collect, HostPdrs!mergeEntityAssociations
  <2>3. v3.assocs \cup {<<h, "live">>} \subseteq HostPdrs!Assocs \X {"live", "junk"}
    BY <1>0, <2>1
  <2> QED
    BY <1>0, <2>1, <2>2, <2>3
<1>2. CASE HostRecords[h] # "assoc"
  <2>1. h \notin HostPdrs!Assocs
    BY <1>2 DEF HostPdrs!Assocs
  <2>2. CASE HostRecords[h] = "sensor"
    <3>1. HostPdrs!Collect(h, found) = [sensors |-> Append(v3.sensors, h), frus |-> v3.frus,
                        assocs |-> v3.assocs, merged |-> v3.merged]
      BY <1>0, <2>2 DEF HostPdrs!Collect
    <3>2. Append(v3.sensors, h) \in Seq(HostPdrs!Handles)
      BY <1>0
    <3> QED
      BY <1>0, <2>1, <3>1, <3>2
  <2>3. CASE HostRecords[h] = "fru"
    <3>1. HostPdrs!Collect(h, found) = [sensors |-> v3.sensors, frus |-> Append(v3.frus, h),
                        assocs |-> v3.assocs, merged |-> v3.merged]
      BY <1>0, <2>3 DEF HostPdrs!Collect
    <3>2. Append(v3.frus, h) \in Seq(HostPdrs!Handles)
      BY <1>0
    <3> QED
      BY <1>0, <2>1, <3>1, <3>2
  <2>4. CASE HostRecords[h] \notin {"sensor", "fru"}
    BY <1>2, <2>1, <2>4 DEF HostPdrs!Collect, HostPdrs!HostTypes
  <2> QED
    BY <2>2, <2>3, <2>4
<1> QED
  BY <1>1, <1>2

LEMMA OneRequest ==
  ASSUME HostPdrs!HostTypes, Len(v2) <= 1, v2 # <<>>
  PROVE  Tail(v2) = <<>>
<1>1. v2 \in Seq(HostPdrs!Handles \cup {0})
  BY DEF HostPdrs!HostTypes
<1>2. \A q \in Seq(HostPdrs!Handles \cup {0}) : q # <<>> /\ Len(q) <= 1 => Tail(q) = <<>>
  OBVIOUS
<1> QED
  BY <1>1, <1>2

LEMMA DeferEnds ==
  ASSUME NEW S, NEW f \in [pdr : Seq(S), modified : Seq(S), isHostPdrModified : BOOLEAN,
                           defer : BOOLEAN, next : S \cup {0}, chg : BOOLEAN],
         NEW d
  PROVE  [f EXCEPT !.defer = d] =
           [pdr |-> f.pdr, modified |-> f.modified, isHostPdrModified |-> f.isHostPdrModified,
            defer |-> d, next |-> f.next, chg |-> f.chg]
  BY SMTT(30)

LEMMA RecordStays ==
  ASSUME HostPdrs!HostInv, HostPdrs!ProcessHostPDRs
  PROVE  HostPdrs!HostInv'
<1>0. HostPdrs!HostTypes
  BY DEF HostPdrs!HostInv
<1>01. ~v12 => HostPdrs!OnePlace /\ HostPdrs!OneList /\ HostPdrs!UnreadIsRead
         /\ HostPdrs!NullsAreMended /\ HostPdrs!NodesAreLive
  BY DEF HostPdrs!HostInv
<1> DEFINE h == IF Head(v2) = 0 THEN 1 ELSE Head(v2)
<1>1. v2 # <<>> /\ v2' = Tail(v2) /\ h \in HostPdrs!Handles
  <2>1. v2 # <<>> => Head(v2) \in HostPdrs!Handles \cup {0}
    BY <1>0 DEF HostPdrs!HostTypes
  <2> QED
    BY <2>1, HandlesKnown DEF HostPdrs!ProcessHostPDRs
<1>2. PICK tl \in IF HostRecords[h] = "tl" THEN {"valid", "invalid"} ELSE {v8.tl},
             found \in BOOLEAN :
        HostPdrs!ReceiveRecord(h, tl, found) /\ v11' = v11 \ {h}
  BY DEF HostPdrs!ProcessHostPDRs
<1> HIDE DEF h
<1>3. tl \in {"none", "valid", "invalid"}
  BY <1>0, <1>2 DEF HostPdrs!HostTypes
<1>4. /\ v2' \in Seq(HostPdrs!Handles \cup {0}) /\ v11' \subseteq HostPdrs!Handles
  BY <1>0, <1>1, <1>2 DEF HostPdrs!HostTypes
<1> DEFINE c == HostPdrs!Collect(h, found)
           next == IF HostRecords[h] = "tl" /\ tl = "invalid" /\ ~v8.up
                     THEN 0 ELSE HostPdrs!NextOf(h)
           lost == h \in HostPdrs!Assocs /\ v5[h] = "null" /\ ~found
           short == next # HostPdrs!NextOf(h) \/ lost
<1>5. /\ c \in [sensors : Seq(HostPdrs!Handles), frus : Seq(HostPdrs!Handles),
                assocs : SUBSET (HostPdrs!Assocs \X {"live", "junk"}), merged : BOOLEAN]
      /\ c.assocs = IF h \in HostPdrs!Assocs /\ found THEN v3.assocs \cup {<<h, "live">>}
                    ELSE v3.assocs
  BY <1>0, <1>1, CollectKeeps
<1> HIDE DEF c, next, lost, short
<1>6. CASE HostRecords[h] = "tl" /\ tl = v8.tl
  <2>1. /\ v12' = TRUE
        /\ UNCHANGED <<v1, v3, v5, v6, v7, v8, v10>>
    BY <1>2, <1>6 DEF HostPdrs!ReceiveRecord, HostPdrs!onDbus
  <2> QED
    BY <1>0, <1>4, <2>1 DEF HostPdrs!HostTypes, HostPdrs!HostInv
<1>61. /\ h \in Int /\ h >= 1 /\ h <= Len(HostRecords) /\ Len(HostRecords) \in Nat
       /\ HostPdrs!Assocs \subseteq HostPdrs!Handles /\ HostPdrs!Handles = 1..Len(HostRecords)
  BY <1>1, HandlesKnown DEF HostPdrs!Assocs
<1>62. ASSUME ~v12, ~lost
       PROVE  /\ v2' = <<>> /\ ~v1.defer /\ v1.next = 0 /\ HostPdrs!Busy /\ HostPdrs!Frontier = h
              /\ v11' \subseteq IF v1.isHostPdrModified THEN HostPdrs!Range(v1.modified)
                                   ELSE IF v1.pdr # <<>> THEN HostPdrs!Range(v1.pdr)
                                   ELSE (h + 1)..Len(HostRecords)
              /\ \A a \in c.assocs : a[2] = "live"
              /\ \A g \in HostPdrs!Assocs :
                   v5[g] = "null" /\ g < h + 1 => <<g, "live">> \in c.assocs
  <2>1. HostPdrs!OnePlace /\ HostPdrs!OneList /\ HostPdrs!UnreadIsRead
          /\ HostPdrs!NullsAreMended /\ HostPdrs!NodesAreLive
    BY <1>01, <1>62
  <2>2. v2' = <<>>
    <3> QED
      BY <1>0, <1>1, <2>1, OneRequest DEF HostPdrs!OnePlace
  <2>3. ~v1.defer /\ v1.next = 0 /\ HostPdrs!Busy /\ HostPdrs!Frontier = h
    BY <1>1, <2>1 DEF HostPdrs!OnePlace, HostPdrs!Busy, HostPdrs!Frontier, h
  <2>4. v11 \subseteq {h} \cup (IF v1.isHostPdrModified THEN HostPdrs!Range(v1.modified)
                                   ELSE IF v1.pdr # <<>> THEN HostPdrs!Range(v1.pdr)
                                   ELSE h..Len(HostRecords))
    BY <1>1, <2>1, <2>3 DEF HostPdrs!UnreadIsRead, HostPdrs!ToRead
  <2>5. h..Len(HostRecords) \subseteq {h} \cup (h + 1)..Len(HostRecords)
    BY <1>61
  <2>6. \A a \in c.assocs : a[2] = "live"
    BY <1>5, <2>1 DEF HostPdrs!NodesAreLive
  <2>7. ASSUME NEW g \in HostPdrs!Assocs, v5[g] = "null", g < h + 1
        PROVE  <<g, "live">> \in c.assocs
    <3>1. g < h \/ g = h
      BY <1>61, <2>7
    <3>2. CASE g < h
      BY <1>5, <2>1, <2>3, <2>7, <3>2 DEF HostPdrs!NullsAreMended
    <3>3. CASE g = h
      BY <1>5, <1>62, <3>3, <2>7 DEF lost
    <3> QED
      BY <3>1, <3>2, <3>3
  <2> QED
    BY <1>2, <2>2, <2>3, <2>4, <2>5, <2>6, <2>7
<1>7. CASE /\ ~(HostRecords[h] = "tl" /\ tl = v8.tl)
           /\ next = 0
  <2>1. HostPdrs!Finish(c, tl, short)
    BY <1>2, <1>7 DEF HostPdrs!ReceiveRecord, c, next, lost, short
  <2> DEFINE nodes == HostPdrs!updateEntityAssociation(c)
  <2>2. nodes \in [HostPdrs!Assocs -> {"absent", "null", "live"}]
    BY <1>0 DEF HostPdrs!HostTypes, HostPdrs!updateEntityAssociation
  <2>3. /\ v10' = ((\E a \in c.assocs : a[2] = "junk")
                        \/ (\E g \in HostPdrs!Assocs : nodes[g] = "null"))
        /\ v5' = nodes
        /\ v6' = HostPdrs!createDbusObjects(nodes)
        /\ v7' = HostPdrs!parseStateSensorPDRs(c, tl)
        /\ v8' = [v8 EXCEPT !.tl = tl, !.fru = "metadata"]
        /\ v1' = [v1 EXCEPT !.chg = @ \/ c.merged]
        /\ v3' = HostPdrs!Empty
        /\ v12' = (v12 \/ v1.pdr # <<>> \/ v1.modified # <<>>
                          \/ v1.isHostPdrModified \/ short)
    BY <2>1 DEF HostPdrs!Finish
  <2>4. \A g \in HostPdrs!Assocs : nodes[g] = IF g \in {a[1] : a \in c.assocs} THEN "live"
                                     ELSE v5[g]
    BY DEF HostPdrs!updateEntityAssociation
  <2> HIDE DEF nodes
  <2>5. HostPdrs!HostTypes'
    <3>1. v1' \in [pdr : Seq(HostPdrs!Handles), modified : Seq(HostPdrs!Handles),
            isHostPdrModified : BOOLEAN,
                      defer : BOOLEAN, next : HostPdrs!Handles \cup {0}, chg : BOOLEAN]
      BY <1>0, <1>5, <2>3 DEF HostPdrs!HostTypes
    <3>2. v8' \in [tl : {"none", "valid", "invalid"}, up : BOOLEAN,
                     fru : {"none", "metadata", "table"}]
      BY <1>0, <1>3, <2>3 DEF HostPdrs!HostTypes
    <3>3. v7' \in [map : SUBSET HostPdrs!Handles, readings : SUBSET HostPdrs!Handles]
      <4>1. HostPdrs!ToSet(c.sensors) \subseteq HostPdrs!Handles
        BY <1>5 DEF HostPdrs!ToSet
      <4> QED
        BY <1>0, <2>3, <4>1 DEF HostPdrs!HostTypes,
          HostPdrs!parseStateSensorPDRs
    <3>4. v3' \in [sensors : Seq(HostPdrs!Handles), frus : Seq(HostPdrs!Handles),
                          assocs : SUBSET (HostPdrs!Assocs \X {"live", "junk"}), merged : BOOLEAN]
      BY <2>3 DEF HostPdrs!Empty
    <3>5. v10' \in BOOLEAN /\ v12' \in BOOLEAN
      BY <2>3
    <3> QED
      BY <1>4, <2>2, <2>3, <3>1, <3>2, <3>3, <3>4, <3>5 DEF HostPdrs!HostTypes
  <2> SUFFICES ASSUME ~v12'
               PROVE  (HostPdrs!OnePlace /\ HostPdrs!OneList /\ HostPdrs!UnreadIsRead
                        /\ HostPdrs!NullsAreMended /\ HostPdrs!NodesAreLive)'
    BY <2>5 DEF HostPdrs!HostInv
  <2>6. ~v12 /\ ~v1.isHostPdrModified /\ v1.pdr = <<>> /\ v1.modified = <<>>
        /\ ~short /\ ~lost
    BY <2>3 DEF short
  <2>7. h = Len(HostRecords)
    BY <1>7, <1>61, <2>6 DEF HostPdrs!NextOf, short
  <2>8. /\ v1'.pdr = <<>> /\ v1'.modified = <<>> /\ ~v1'.isHostPdrModified
        /\ ~v1'.defer /\ v1'.next = 0 /\ v2' = <<>>
    BY <1>0, <1>62, <2>3, <2>6 DEF HostPdrs!HostTypes
  <2>9. ~HostPdrs!Busy' /\ HostPdrs!OnePlace' /\ HostPdrs!OneList'
    BY <2>8 DEF HostPdrs!Busy, HostPdrs!OnePlace, HostPdrs!OneList
  <2>10. HostPdrs!UnreadIsRead'
    <3>1. v11' \subseteq (h + 1)..Len(HostRecords)
      BY <1>62, <2>6
    <3>2. (h + 1)..Len(HostRecords) = {}
      BY <1>61, <2>7
    <3> QED
      BY <2>9, <3>1, <3>2 DEF HostPdrs!UnreadIsRead
  <2>11. \A g \in HostPdrs!Assocs : nodes[g] # "null"
    <3> SUFFICES ASSUME NEW g \in HostPdrs!Assocs, nodes[g] = "null"
                 PROVE  FALSE
      OBVIOUS
    <3>1. v5[g] = "null" /\ g \notin {a[1] : a \in c.assocs}
      BY <2>4
    <3>2. g < h + 1
      BY <1>61, <2>7
    <3>3. <<g, "live">> \in c.assocs
      BY <1>62, <2>6, <3>1, <3>2
    <3> QED
      BY <3>1, <3>3
  <2>12. HostPdrs!NullsAreMended'
    BY <2>3, <2>11 DEF HostPdrs!NullsAreMended
  <2>13. ~v10'
    BY <1>62, <2>3, <2>6, <2>11
  <2>14. v6' = HostPdrs!Shown'
    <3>1. \A g \in HostPdrs!Assocs : v5[g] = "absent" => v6[g] = "none"
      BY <1>01, <2>6 DEF HostPdrs!NodesAreLive, HostPdrs!Shown
    <3>2. \A g \in HostPdrs!Assocs : nodes[g] = "absent" => v6[g] = "none"
      BY <2>4, <3>1
    <3>3. \A g \in HostPdrs!Assocs : nodes[g] \in {"absent", "live"}
      BY <2>2, <2>11
    <3> QED
      BY <2>3, <3>2, <3>3 DEF HostPdrs!createDbusObjects, HostPdrs!Shown
  <2>15. v7'.readings \subseteq v7'.map
    BY <1>01, <2>3, <2>6 DEF HostPdrs!parseStateSensorPDRs,
      HostPdrs!NodesAreLive
  <2>16. HostPdrs!NodesAreLive'
    BY <2>3, <2>13, <2>14, <2>15 DEF HostPdrs!NodesAreLive, HostPdrs!Empty
  <2> QED
    BY <2>9, <2>10, <2>12, <2>16
<1>8. CASE /\ ~(HostRecords[h] = "tl" /\ tl = v8.tl)
           /\ next # 0
  <2>1. HostPdrs!Proceed(c, tl, next, short)
    BY <1>2, <1>8 DEF HostPdrs!ReceiveRecord, c, next, lost, short
  <2>2. /\ v3' = c
        /\ v1' = IF v1.modified = <<>> /\ v1.isHostPdrModified
                      THEN [v1 EXCEPT !.isHostPdrModified = FALSE]
                      ELSE [v1 EXCEPT !.next = next]
        /\ v8' = [v8 EXCEPT !.tl = tl]
        /\ v12' = (v12 \/ v1.next # 0 \/ short)
        /\ UNCHANGED <<v5, v6, v7, v10>>
    BY <2>1 DEF HostPdrs!Proceed, HostPdrs!onDbus
  <2>3. next = h + 1 /\ h + 1 \in HostPdrs!Handles
    BY <1>8, <1>61 DEF HostPdrs!NextOf, next
  <2>4. HostPdrs!HostTypes'
    <3>1. v1' \in [pdr : Seq(HostPdrs!Handles), modified : Seq(HostPdrs!Handles),
            isHostPdrModified : BOOLEAN,
                      defer : BOOLEAN, next : HostPdrs!Handles \cup {0}, chg : BOOLEAN]
      BY <1>0, <2>2, <2>3 DEF HostPdrs!HostTypes
    <3>2. v8' \in [tl : {"none", "valid", "invalid"}, up : BOOLEAN,
                     fru : {"none", "metadata", "table"}]
      BY <1>0, <1>3, <2>2 DEF HostPdrs!HostTypes
    <3>3. v12' \in BOOLEAN
      BY <2>2
    <3> QED
      BY <1>0, <1>4, <1>5, <2>2, <3>1, <3>2, <3>3 DEF HostPdrs!HostTypes
  <2> SUFFICES ASSUME ~v12'
               PROVE  (HostPdrs!OnePlace /\ HostPdrs!OneList /\ HostPdrs!UnreadIsRead
                        /\ HostPdrs!NullsAreMended /\ HostPdrs!NodesAreLive)'
    BY <2>4 DEF HostPdrs!HostInv
  <2>5. ~v12 /\ ~lost /\ v2' = <<>> /\ ~v1.defer /\ v1.next = 0
    BY <1>62, <2>2 DEF short
  <2>6. HostPdrs!NodesAreLive'
    <3>1. HostPdrs!NodesAreLive
      BY <1>01, <2>5
    <3> QED
      BY <1>62, <2>2, <2>5, <3>1 DEF HostPdrs!NodesAreLive, HostPdrs!Shown
  <2>7. v8'.fru = v8.fru
    BY <1>0, <2>2 DEF HostPdrs!HostTypes
  <2>8. CASE v1.modified = <<>> /\ v1.isHostPdrModified
    <3>1. /\ v1'.pdr = <<>> /\ v1'.modified = <<>> /\ ~v1'.isHostPdrModified
          /\ ~v1'.defer /\ v1'.next = 0
      BY <1>0, <1>01, <2>2, <2>5, <2>8 DEF HostPdrs!HostTypes, HostPdrs!OneList
    <3>2. ~HostPdrs!Busy' /\ HostPdrs!OnePlace' /\ HostPdrs!OneList'
      BY <2>5, <3>1 DEF HostPdrs!Busy, HostPdrs!OnePlace, HostPdrs!OneList
    <3>3. HostPdrs!UnreadIsRead'
      <4>1. HostPdrs!Range(v1.modified) = {}
        BY <2>8 DEF HostPdrs!Range
      <4> QED
        BY <1>62, <2>5, <2>8, <3>2, <4>1 DEF HostPdrs!UnreadIsRead
    <3>4. HostPdrs!NullsAreMended'
      BY <1>01, <2>2, <2>5, <2>8 DEF HostPdrs!NullsAreMended
    <3> QED
      BY <2>6, <3>2, <3>3, <3>4
  <2>9. CASE ~(v1.modified = <<>> /\ v1.isHostPdrModified)
    <3>1. /\ v1'.pdr = v1.pdr /\ v1'.modified = v1.modified
          /\ v1'.isHostPdrModified = v1.isHostPdrModified
          /\ ~v1'.defer /\ v1'.next = h + 1
      BY <1>0, <2>2, <2>3, <2>5, <2>9 DEF HostPdrs!HostTypes
    <3>2. HostPdrs!Busy' /\ HostPdrs!Frontier' = h + 1
      BY <1>61, <2>5, <3>1 DEF HostPdrs!Busy, HostPdrs!Frontier
    <3>3. HostPdrs!OnePlace' /\ HostPdrs!OneList'
      BY <1>01, <2>5, <2>9, <3>1, <3>2 DEF HostPdrs!OnePlace, HostPdrs!OneList
    <3>4. HostPdrs!UnreadIsRead'
      BY <1>62, <2>5, <3>1, <3>2 DEF HostPdrs!UnreadIsRead, HostPdrs!ToRead
    <3>5. HostPdrs!NullsAreMended'
      BY <1>01, <1>62, <2>2, <2>5, <2>7, <3>1, <3>2 DEF HostPdrs!NullsAreMended
    <3> QED
      BY <2>6, <3>3, <3>4, <3>5
  <2> QED
    BY <2>8, <2>9
<1> QED
  BY <1>6, <1>7, <1>8

LEMMA HostPdrsNext == HostPdrs!HostInv /\ [HostPdrs!Next]_HostPdrs!vars => HostPdrs!HostInv'
<1> SUFFICES ASSUME HostPdrs!HostInv, [HostPdrs!Next]_HostPdrs!vars
             PROVE  HostPdrs!HostInv'
  OBVIOUS
<1>0. HostPdrs!HostTypes
  BY DEF HostPdrs!HostInv
<1>01. ~v12 => HostPdrs!OnePlace /\ HostPdrs!OneList /\ HostPdrs!UnreadIsRead
         /\ HostPdrs!NullsAreMended /\ HostPdrs!NodesAreLive
  BY DEF HostPdrs!HostInv
<1>1. CASE HostPdrs!RefreshEvent
  <2>1. /\ v1' = [v1 EXCEPT !.pdr = <<>>, !.modified = <<>>, !.defer = TRUE]
        /\ v11' = HostPdrs!Handles
        /\ v8' = [v8 EXCEPT !.tl = "none"]
        /\ v12' = (v12 \/ HostPdrs!Busy)
        /\ UNCHANGED <<v2, v3, v5, v6, v7, v10>>
    BY <1>1 DEF HostPdrs!RefreshEvent, HostPdrs!Announced, HostPdrs!FetchPDR,
      HostPdrs!onDbus
  <2>2. HostPdrs!HostTypes'
    <3>1. v1' \in [pdr : Seq(HostPdrs!Handles), modified : Seq(HostPdrs!Handles),
            isHostPdrModified : BOOLEAN,
                      defer : BOOLEAN, next : HostPdrs!Handles \cup {0}, chg : BOOLEAN]
      <4>1. <<>> \in Seq(HostPdrs!Handles)
        OBVIOUS
      <4> QED
        BY <1>0, <2>1, <4>1 DEF HostPdrs!HostTypes
    <3>2. v8' \in [tl : {"none", "valid", "invalid"}, up : BOOLEAN,
                     fru : {"none", "metadata", "table"}]
      BY <1>0, <2>1 DEF HostPdrs!HostTypes
    <3>3. v12' \in BOOLEAN
      BY <2>1
    <3> QED
      BY <1>0, <2>1, <3>1, <3>2, <3>3 DEF HostPdrs!HostTypes
  <2> SUFFICES ASSUME ~v12'
               PROVE  (HostPdrs!OnePlace /\ HostPdrs!OneList /\ HostPdrs!UnreadIsRead
                        /\ HostPdrs!NullsAreMended /\ HostPdrs!NodesAreLive)'
    BY <2>2 DEF HostPdrs!HostInv
  <2>3. ~v12 /\ ~HostPdrs!Busy
    BY <2>1
  <2>4. v2 = <<>> /\ ~v1.defer /\ v1.next = 0 /\ ~v1.isHostPdrModified
        /\ v1.pdr = <<>>
    BY <1>01, <2>3 DEF HostPdrs!Busy, HostPdrs!OneList
  <2>5. /\ v2' = <<>> /\ v1'.defer /\ v1'.next = 0 /\ ~v1'.isHostPdrModified
        /\ v1'.pdr = <<>> /\ v1'.modified = <<>>
    BY <1>0, <2>1, <2>4 DEF HostPdrs!HostTypes
  <2>6. HostPdrs!Busy' /\ HostPdrs!Frontier' = 1
    BY <2>5 DEF HostPdrs!Busy, HostPdrs!Frontier
  <2>7. HostPdrs!OnePlace' /\ HostPdrs!OneList'
    BY <2>5, <2>6 DEF HostPdrs!OnePlace, HostPdrs!OneList
  <2>8. HostPdrs!UnreadIsRead'
    BY <2>1, <2>5, <2>6 DEF HostPdrs!UnreadIsRead, HostPdrs!ToRead,
      HostPdrs!Handles
  <2>9. HostPdrs!NullsAreMended'
    <3>1. \A h \in HostPdrs!Assocs : ~(h < 1)
      BY HandlesKnown DEF HostPdrs!Assocs
    <3> QED
      BY <1>0, <1>01, <2>1, <2>3, <2>5, <2>6, <3>1 DEF HostPdrs!NullsAreMended,
        HostPdrs!HostTypes
  <2>10. HostPdrs!NodesAreLive'
    BY <1>01, <2>1, <2>3 DEF HostPdrs!NodesAreLive, HostPdrs!Shown
  <2> QED
    BY <2>7, <2>8, <2>9, <2>10
<1>2. CASE HostPdrs!HandlesEvent
  <2>1. PICK n \in 1..MaxHostChanges :
          \E changes \in [1..n -> HostPdrs!Operations \X HostPdrs!Handles] :
            HostPdrs!ChangeRecords(changes)
    BY <1>2 DEF HostPdrs!HandlesEvent
  <2>11. PICK changes \in [1..n -> HostPdrs!Operations \X HostPdrs!Handles] :
           HostPdrs!ChangeRecords(changes)
    BY <2>1
  <2> DEFINE handles == [i \in DOMAIN changes |-> changes[i][2]]
             Of(ops) == {x[2] : x \in {d \in HostPdrs!Range(changes) : d[1] \in ops}}
             modified == Of({"modified"}) # {}
             announced == Of({"added", "modified"})
             deletes == changes[Len(changes)][1] = "deleted"
  <2>2. /\ v1' = IF deletes THEN [v1 EXCEPT !.isHostPdrModified = @ \/ modified]
                 ELSE HostPdrs!FetchPDR([v1 EXCEPT !.isHostPdrModified = @ \/ modified], handles)
        /\ v11' = (v11 \ Of({"deleted"})) \cup announced
    BY <2>11 DEF HostPdrs!ChangeRecords
  <2>3. /\ v12' = (v12 \/ HostPdrs!Busy \/ (deletes /\ announced # {})) /\ v8.tl # "none"
        /\ UNCHANGED <<v2, v3, v5, v6, v7, v8, v10>>
    BY <1>2, <2>11 DEF HostPdrs!HandlesEvent, HostPdrs!ChangeRecords, HostPdrs!Announced,
      HostPdrs!onDbus
  <2>4. /\ handles \in Seq(HostPdrs!Handles) /\ handles # <<>>
        /\ announced \subseteq HostPdrs!Range(handles) /\ announced \subseteq HostPdrs!Handles
    <3>1. n \in Nat \ {0}
      BY HostRecordsAssumption
    <3>2. \A i \in 1..n : changes[i][2] \in HostPdrs!Handles
      OBVIOUS
    <3>3. handles \in Seq(HostPdrs!Handles) /\ handles # <<>> /\ DOMAIN handles = 1..n
      BY <3>1, <3>2
    <3>4. \A x \in announced : \E i \in 1..n : x = changes[i][2]
      BY DEF HostPdrs!Range
    <3> QED
      BY <3>2, <3>3, <3>4 DEF HostPdrs!Range
  <2>41. modified => announced # {}
    OBVIOUS
  <2>42. modified \in BOOLEAN /\ deletes \in BOOLEAN
    OBVIOUS
  <2> HIDE DEF handles, Of, modified, announced, deletes
  <2>5. CASE deletes
    <3>1. /\ v1' = [v1 EXCEPT !.isHostPdrModified = @ \/ modified]
          /\ v11' \subseteq v11 \cup announced
      BY <2>2, <2>5
    <3>2. HostPdrs!HostTypes'
      BY <1>0, <2>3, <2>4, <2>42, <3>1 DEF HostPdrs!HostTypes, HostPdrs!Busy
    <3>3. ASSUME ~v12'
          PROVE  (HostPdrs!OnePlace /\ HostPdrs!OneList /\ HostPdrs!UnreadIsRead
                   /\ HostPdrs!NullsAreMended /\ HostPdrs!NodesAreLive)'
      <4>1. announced = {} /\ ~modified /\ ~v12
        BY <2>3, <2>41, <2>5, <3>3
      <4>2. v1' = v1 /\ v11' \subseteq v11
        BY <1>0, <3>1, <4>1 DEF HostPdrs!HostTypes
      <4> QED
        BY <1>01, <2>3, <4>1, <4>2 DEF HostPdrs!OnePlace, HostPdrs!OneList,
          HostPdrs!UnreadIsRead, HostPdrs!NullsAreMended, HostPdrs!NodesAreLive,
          HostPdrs!Shown, HostPdrs!Busy, HostPdrs!ToRead, HostPdrs!Frontier
    <3> QED
      BY <3>2, <3>3 DEF HostPdrs!HostInv
  <2>6. CASE ~deletes
    <3> DEFINE flag == v1.isHostPdrModified \/ modified
    <3>1. /\ v1' = [pdr |-> IF flag THEN <<>> ELSE handles,
                       modified |-> IF flag THEN handles ELSE <<>>,
                       isHostPdrModified |-> flag, defer |-> TRUE,
                       next |-> v1.next, chg |-> v1.chg]
          /\ v11' \subseteq v11 \cup announced
      BY <1>0, <2>2, <2>42, <2>6 DEF HostPdrs!HostTypes, HostPdrs!FetchPDR
    <3>2. HostPdrs!HostTypes'
      BY <1>0, <2>3, <2>4, <2>42, <3>1 DEF HostPdrs!HostTypes, HostPdrs!Busy
    <3> SUFFICES ASSUME ~v12'
                 PROVE  (HostPdrs!OnePlace /\ HostPdrs!OneList /\ HostPdrs!UnreadIsRead
                          /\ HostPdrs!NullsAreMended /\ HostPdrs!NodesAreLive)'
      BY <3>2 DEF HostPdrs!HostInv
    <3>3. ~v12 /\ ~HostPdrs!Busy /\ v2' = <<>> /\ v1.next = 0 /\ v11 = {}
      BY <1>01, <2>3 DEF HostPdrs!Busy, HostPdrs!UnreadIsRead
    <3>4. HostPdrs!Busy'
      BY <3>1 DEF HostPdrs!Busy
    <3>5. HostPdrs!OnePlace' /\ HostPdrs!OneList'
      <4>1. /\ v1'.pdr = IF flag THEN <<>> ELSE handles
            /\ v1'.modified = IF flag THEN handles ELSE <<>>
            /\ v1'.isHostPdrModified = flag /\ v1'.next = 0
        BY <3>1, <3>3
      <4> HIDE DEF flag
      <4> QED
        BY <2>4, <3>3, <3>4, <4>1 DEF HostPdrs!OnePlace, HostPdrs!OneList
    <3>6. HostPdrs!UnreadIsRead'
      BY <2>4, <3>1, <3>3, <3>4 DEF HostPdrs!UnreadIsRead, HostPdrs!ToRead
    <3>7. HostPdrs!NullsAreMended'
      BY <1>01, <2>3, <3>3 DEF HostPdrs!NullsAreMended
    <3>8. HostPdrs!NodesAreLive'
      <4>1. HostPdrs!NodesAreLive
        BY <1>01, <3>3
      <4>2. HostPdrs!Shown' = HostPdrs!Shown
        BY <2>3 DEF HostPdrs!Shown
      <4> QED
        BY <2>3, <4>1, <4>2 DEF HostPdrs!NodesAreLive
    <3> QED
      BY <3>5, <3>6, <3>7, <3>8
  <2> QED
    BY <2>5, <2>6
<1>21. CASE HostPdrs!RefusedEvent
  <2>1. /\ v1' = [v1 EXCEPT !.isHostPdrModified = TRUE] /\ v12'
        /\ UNCHANGED <<v2, v3, v5, v6, v7, v8, v10, v11>>
    BY <1>21 DEF HostPdrs!RefusedEvent, HostPdrs!Announced, HostPdrs!onDbus
  <2>2. v12' \in BOOLEAN
    BY <1>21 DEF HostPdrs!RefusedEvent, HostPdrs!Announced, HostPdrs!Busy
  <2> QED
    BY <1>0, <2>1, <2>2 DEF HostPdrs!HostTypes, HostPdrs!HostInv
<1>3. CASE HostPdrs!HostOff
  <2>1. /\ v8' = [v8 EXCEPT !.tl = "none", !.up = FALSE]
        /\ v5' = [h \in HostPdrs!Assocs |-> IF v5[h] = "absent" THEN "absent" ELSE "null"]
        /\ v6' = [h \in HostPdrs!Assocs |-> IF v5[h] = "absent" THEN v6[h] ELSE "no"]
        /\ v7' = [v7 EXCEPT !.map = {}]
        /\ v3' = [v3 EXCEPT !.assocs = {<<a[1], "junk">> : a \in @}]
        /\ v11' = {}
        /\ v12' = (v12 \/ HostPdrs!Busy \/ v8.fru # "none"
                         \/ v7.readings # {} \/ v3.assocs # {})
        /\ UNCHANGED <<v1, v2, v10>>
    BY <1>3 DEF HostPdrs!HostOff
  <2>2. HostPdrs!HostTypes'
    <3>1. v3' \in [sensors : Seq(HostPdrs!Handles), frus : Seq(HostPdrs!Handles),
                          assocs : SUBSET (HostPdrs!Assocs \X {"live", "junk"}), merged : BOOLEAN]
      <4>1. {<<a[1], "junk">> : a \in v3.assocs} \subseteq HostPdrs!Assocs \X {"live", "junk"}
        BY <1>0 DEF HostPdrs!HostTypes
      <4> QED
        BY <1>0, <2>1, <4>1 DEF HostPdrs!HostTypes
    <3>2. v8' \in [tl : {"none", "valid", "invalid"}, up : BOOLEAN,
                     fru : {"none", "metadata", "table"}]
      BY <1>0, <2>1 DEF HostPdrs!HostTypes
    <3>3. v12' \in BOOLEAN
      BY <2>1
    <3>4. v7' \in [map : SUBSET HostPdrs!Handles, readings : SUBSET HostPdrs!Handles]
      BY <1>0, <2>1 DEF HostPdrs!HostTypes
    <3>5. v5' \in [HostPdrs!Assocs -> {"absent", "null", "live"}]
      BY <2>1
    <3> QED
      BY <1>0, <2>1, <3>1, <3>2, <3>3, <3>4, <3>5 DEF HostPdrs!HostTypes
  <2> SUFFICES ASSUME ~v12'
               PROVE  (HostPdrs!OnePlace /\ HostPdrs!OneList /\ HostPdrs!UnreadIsRead
                        /\ HostPdrs!NullsAreMended /\ HostPdrs!NodesAreLive)'
    BY <2>2 DEF HostPdrs!HostInv
  <2>3. ~v12 /\ ~HostPdrs!Busy /\ ~HostPdrs!Busy' /\ v8.fru = "none" /\ v7.readings = {}
        /\ v3.assocs = {}
    BY <2>1 DEF HostPdrs!Busy
  <2>4. v3'.assocs = {} /\ v8'.fru = "none" /\ v8'.tl = "none"
        /\ v7'.readings = {}
    BY <1>0, <2>1, <2>3 DEF HostPdrs!HostTypes
  <2>5. HostPdrs!OnePlace' /\ HostPdrs!OneList' /\ HostPdrs!UnreadIsRead'
    BY <1>01, <2>1, <2>3 DEF HostPdrs!OnePlace, HostPdrs!OneList,
      HostPdrs!UnreadIsRead
  <2>6. HostPdrs!NullsAreMended'
    BY <1>01, <2>1, <2>3, <2>4 DEF HostPdrs!NullsAreMended, HostPdrs!OneList
  <2>7. v6' = HostPdrs!Shown'
    <3>1. v6 = HostPdrs!Shown
      BY <1>01, <2>3 DEF HostPdrs!NodesAreLive
    <3>2. \A h \in HostPdrs!Assocs : v5[h] \in {"absent", "null", "live"}
      BY <1>0 DEF HostPdrs!HostTypes
    <3> QED
      BY <2>1, <3>1, <3>2 DEF HostPdrs!Shown
  <2>8. HostPdrs!NodesAreLive'
    BY <1>01, <2>1, <2>3, <2>4, <2>7 DEF HostPdrs!NodesAreLive
  <2> QED
    BY <2>5, <2>6, <2>8
<1>4. CASE HostPdrs!HostAnswers
  <2>1. /\ v8' = [v8 EXCEPT !.up = TRUE]
        /\ UNCHANGED <<v1, v2, v3, v4, HostPdrs!onDbus, v9, v10, v11,
                       v12>>
    BY <1>4 DEF HostPdrs!HostAnswers
  <2>2. HostPdrs!HostTypes'
    BY <1>0, <2>1 DEF HostPdrs!HostTypes, HostPdrs!onDbus
  <2>3. v8'.tl = v8.tl /\ v8'.fru = v8.fru
    BY <1>0, <2>1 DEF HostPdrs!HostTypes
  <2> QED
    BY <1>01, <2>1, <2>2, <2>3, ExchangeStays DEF HostPdrs!HostInv,
      HostPdrs!onDbus, HostPdrs!NullsAreMended, HostPdrs!NodesAreLive,
      HostPdrs!Shown
<1>5. CASE HostPdrs!StartFetch
  <2>1. /\ v1.defer
        /\ HostPdrs!GetHostPDR(v1, 0)
        /\ UNCHANGED <<v3, v5, v6, v7, v8, v10, v11, v12>>
    BY <1>5 DEF HostPdrs!StartFetch, HostPdrs!onDbus
  <2> DEFINE listed == v1.modified # <<>> /\ v1.isHostPdrModified
             plain == ~listed /\ v1.pdr # <<>>
  <2>0. v1 = [pdr |-> v1.pdr, modified |-> v1.modified,
                 isHostPdrModified |-> v1.isHostPdrModified, defer |-> v1.defer,
                 next |-> v1.next, chg |-> v1.chg]
        /\ v1.pdr \in Seq(HostPdrs!Handles) /\ v1.modified \in Seq(HostPdrs!Handles)
        /\ v1.isHostPdrModified \in BOOLEAN /\ v1.next \in HostPdrs!Handles \cup {0}
        /\ v1.chg \in BOOLEAN /\ v2 \in Seq(HostPdrs!Handles \cup {0})
    BY <1>0 DEF HostPdrs!HostTypes
  <2>01. [v1 EXCEPT !.defer = FALSE] =
           [pdr |-> v1.pdr, modified |-> v1.modified,
            isHostPdrModified |-> v1.isHostPdrModified, defer |-> FALSE,
            next |-> v1.next, chg |-> v1.chg]
    <3>1. v1 \in [pdr : Seq(HostPdrs!Handles), modified : Seq(HostPdrs!Handles),
            isHostPdrModified : BOOLEAN,
                     defer : BOOLEAN, next : HostPdrs!Handles \cup {0}, chg : BOOLEAN]
      BY <1>0 DEF HostPdrs!HostTypes
    <3> QED
      BY <3>1, DeferEnds
  <2>2. /\ v1' = [pdr |-> IF plain THEN Tail(v1.pdr) ELSE v1.pdr,
                     modified |-> IF listed THEN Tail(v1.modified) ELSE v1.modified,
                     isHostPdrModified |-> v1.isHostPdrModified, defer |-> FALSE,
                     next |-> v1.next, chg |-> v1.chg]
        /\ v2' = Append(v2, IF listed THEN Head(v1.modified)
                                        ELSE IF plain THEN Head(v1.pdr) ELSE 0)
    BY <2>01, <2>1 DEF HostPdrs!GetHostPDR
  <2>3. HostPdrs!HostTypes'
    <3>1. \A q \in Seq(HostPdrs!Handles) : q # <<>> => Head(q) \in HostPdrs!Handles
            /\ Tail(q) \in Seq(HostPdrs!Handles)
      OBVIOUS
    <3>2. v1' \in [pdr : Seq(HostPdrs!Handles), modified : Seq(HostPdrs!Handles),
            isHostPdrModified : BOOLEAN,
                      defer : BOOLEAN, next : HostPdrs!Handles \cup {0}, chg : BOOLEAN]
      BY <2>0, <2>2, <3>1
    <3>3. v2' \in Seq(HostPdrs!Handles \cup {0})
      <4>1. (IF listed THEN Head(v1.modified) ELSE IF plain THEN Head(v1.pdr) ELSE 0)
              \in HostPdrs!Handles \cup {0}
        BY <2>0, <3>1
      <4> HIDE DEF listed, plain
      <4> QED
        BY <2>0, <2>2, <4>1
    <3> QED
      BY <1>0, <2>1, <3>2, <3>3 DEF HostPdrs!HostTypes
  <2>4. ASSUME ~v12'
        PROVE  (HostPdrs!OnePlace /\ HostPdrs!OneList /\ HostPdrs!UnreadIsRead
                 /\ HostPdrs!NullsAreMended /\ HostPdrs!NodesAreLive)'
    <3>1. ~v12 /\ v2 = <<>> /\ v1.next = 0 /\ HostPdrs!Busy
      BY <1>01, <2>1, <2>4 DEF HostPdrs!OnePlace, HostPdrs!Busy
    <3>2. v1.isHostPdrModified => listed /\ v1.pdr = <<>>
      BY <1>01, <3>1 DEF HostPdrs!OneList
    <3>3. /\ v1'.next = 0 /\ ~v1'.defer
          /\ v1'.isHostPdrModified = v1.isHostPdrModified
          /\ v1'.pdr = IF plain THEN Tail(v1.pdr) ELSE v1.pdr
          /\ v1'.modified = IF listed THEN Tail(v1.modified) ELSE v1.modified
      BY <2>2, <3>1
    <3>4. \/ /\ v1.isHostPdrModified /\ v2' = <<Head(v1.modified)>>
             /\ v1'.modified = Tail(v1.modified) /\ v1'.pdr = v1.pdr
          \/ /\ ~v1.isHostPdrModified /\ v1.pdr # <<>>
             /\ v2' = <<Head(v1.pdr)>>
             /\ v1'.pdr = Tail(v1.pdr) /\ v1'.modified = v1.modified
          \/ /\ ~v1.isHostPdrModified /\ v1.pdr = <<>>
             /\ v2' = <<v1.next>>
             /\ v1'.pdr = v1.pdr /\ v1'.modified = v1.modified
      BY <2>2, <3>1, <3>2, <3>3
    <3> QED
      BY <1>0, <1>01, <2>1, <3>1, <3>3, <3>4, AskStays
  <2> QED
    BY <2>3, <2>4 DEF HostPdrs!HostInv
<1>6. CASE HostPdrs!ContinueFetch
  <2> DEFINE popped == [v1 EXCEPT !.next = 0,
               !.pdr = IF @ = <<>> THEN @ ELSE Tail(@),
               !.modified = IF @ = <<>> \/ ~v1.isHostPdrModified THEN @ ELSE Tail(@)]
  <2>1. /\ v1.next # 0
        /\ HostPdrs!GetHostPDR(popped, HostPdrs!NextHandle(v1))
        /\ UNCHANGED <<v3, v5, v6, v7, v8, v10, v11, v12>>
    BY <1>6 DEF HostPdrs!ContinueFetch, HostPdrs!onDbus
  <2>2. HostPdrs!NextHandle(v1) \in HostPdrs!Handles /\ HostPdrs!NextHandle(v1) # 0
    <3>1. \A q \in Seq(HostPdrs!Handles) : q # <<>> => Head(q) \in HostPdrs!Handles
      OBVIOUS
    <3>2. 0 \notin HostPdrs!Handles
      BY DEF HostPdrs!Handles
    <3> QED
      BY <1>0, <2>1, <3>1, <3>2 DEF HostPdrs!HostTypes, HostPdrs!NextHandle
  <2>3. v1' = [popped EXCEPT !.defer = FALSE] /\ v2' = Append(v2, HostPdrs!NextHandle(v1))
    BY <2>1, <2>2 DEF HostPdrs!GetHostPDR
  <2>4. HostPdrs!HostTypes'
    <3>1. v1' \in [pdr : Seq(HostPdrs!Handles), modified : Seq(HostPdrs!Handles),
            isHostPdrModified : BOOLEAN,
                      defer : BOOLEAN, next : HostPdrs!Handles \cup {0}, chg : BOOLEAN]
      <4>1. \A q \in Seq(HostPdrs!Handles) : q # <<>> => Tail(q) \in Seq(HostPdrs!Handles)
        OBVIOUS
      <4> DEFINE p == IF v1.pdr = <<>> THEN v1.pdr ELSE Tail(v1.pdr)
                 m == IF v1.modified = <<>> \/ ~v1.isHostPdrModified
                        THEN v1.modified ELSE Tail(v1.modified)
      <4>2. v1' = [pdr |-> p, modified |-> m,
                   isHostPdrModified |-> v1.isHostPdrModified, defer |-> FALSE,
                   next |-> 0, chg |-> v1.chg]
        <5>1. v1' = [[v1 EXCEPT !.next = 0, !.pdr = p, !.modified = m] EXCEPT !.defer = FALSE]
          BY <2>3
        <5> HIDE DEF p, m, popped
        <5> QED
          BY <1>0, <5>1 DEF HostPdrs!HostTypes
      <4>3. /\ v1.pdr \in Seq(HostPdrs!Handles) /\ v1.modified \in Seq(HostPdrs!Handles)
            /\ v1.isHostPdrModified \in BOOLEAN /\ v1.defer \in BOOLEAN
            /\ v1.chg \in BOOLEAN
        BY <1>0 DEF HostPdrs!HostTypes
      <4> QED
        BY <4>1, <4>2, <4>3
    <3>2. v2' \in Seq(HostPdrs!Handles \cup {0})
      BY <1>0, <2>2, <2>3 DEF HostPdrs!HostTypes
    <3> QED
      BY <1>0, <2>1, <3>1, <3>2 DEF HostPdrs!HostTypes
  <2>5. ASSUME ~v12'
        PROVE  (HostPdrs!OnePlace /\ HostPdrs!OneList /\ HostPdrs!UnreadIsRead
                 /\ HostPdrs!NullsAreMended /\ HostPdrs!NodesAreLive)'
    <3>1. ~v12 /\ v2 = <<>> /\ ~v1.defer /\ HostPdrs!Busy
      BY <1>01, <2>1, <2>5 DEF HostPdrs!OnePlace, HostPdrs!Busy
    <3>2. /\ v1.isHostPdrModified => v1.modified # <<>> /\ v1.pdr = <<>>
          /\ ~v1.isHostPdrModified => v1.modified = <<>>
      BY <1>01, <3>1 DEF HostPdrs!OneList
    <3>3. /\ v1'.next = 0 /\ ~v1'.defer
          /\ v1'.isHostPdrModified = v1.isHostPdrModified
      BY <1>0, <2>3, <3>1 DEF HostPdrs!HostTypes
    <3>4. v2' = <<HostPdrs!NextHandle(v1)>>
      BY <2>3, <3>1
    <3>5. \/ /\ v1.isHostPdrModified /\ v2' = <<Head(v1.modified)>>
             /\ v1'.modified = Tail(v1.modified) /\ v1'.pdr = v1.pdr
          \/ /\ ~v1.isHostPdrModified /\ v1.pdr # <<>>
             /\ v2' = <<Head(v1.pdr)>>
             /\ v1'.pdr = Tail(v1.pdr) /\ v1'.modified = v1.modified
          \/ /\ ~v1.isHostPdrModified /\ v1.pdr = <<>>
             /\ v2' = <<v1.next>>
             /\ v1'.pdr = v1.pdr /\ v1'.modified = v1.modified
      BY <1>0, <2>3, <3>2, <3>4 DEF HostPdrs!HostTypes, HostPdrs!NextHandle
    <3> QED
      BY <1>0, <1>01, <2>1, <3>1, <3>3, <3>5, AskStays
  <2> QED
    BY <2>4, <2>5 DEF HostPdrs!HostInv
<1>7. CASE HostPdrs!ProcessHostPDRs
  BY <1>7, RecordStays
<1>8. CASE HostPdrs!ExchangeFails
  <2>1. /\ v2 # <<>> /\ v2' = Tail(v2) /\ v12' = TRUE
        /\ UNCHANGED <<v1, v3, v5, v6, v7, v8, v10, v11>>
    BY <1>8 DEF HostPdrs!ExchangeFails, HostPdrs!onDbus
  <2>2. v2' \in Seq(HostPdrs!Handles \cup {0})
    BY <1>0, <2>1 DEF HostPdrs!HostTypes
  <2> QED
    BY <1>0, <2>1, <2>2 DEF HostPdrs!HostTypes, HostPdrs!HostInv
<1>10. CASE HostPdrs!SendRepositoryChgEvent
  <2>1. /\ v1' = [v1 EXCEPT !.chg = FALSE]
        /\ UNCHANGED <<v2, v3, v4, HostPdrs!onDbus, v8, v9, v10,
                 v11, v12>>
    BY <1>10 DEF HostPdrs!SendRepositoryChgEvent
  <2>2. HostPdrs!HostTypes'
    BY <1>0, <2>1 DEF HostPdrs!HostTypes, HostPdrs!onDbus
  <2>3. /\ v1'.pdr = v1.pdr /\ v1'.modified = v1.modified /\ v1'.next = v1.next
        /\ v1'.isHostPdrModified = v1.isHostPdrModified /\ v1'.defer = v1.defer
    BY <1>0, <2>1 DEF HostPdrs!HostTypes
  <2>4. v5' = v5 /\ v6' = v6 /\ v7' = v7
    BY <2>1 DEF HostPdrs!onDbus
  <2>5. ~v12 => (HostPdrs!NullsAreMended /\ HostPdrs!NodesAreLive)'
    <3>1. (HostPdrs!Busy' <=> HostPdrs!Busy) /\ HostPdrs!Frontier' = HostPdrs!Frontier
      BY <2>1, <2>3, ExchangeStays
    <3>2. HostPdrs!NullsAreMended => HostPdrs!NullsAreMended'
      BY <2>1, <2>3, <2>4, <3>1 DEF HostPdrs!NullsAreMended
    <3>3. HostPdrs!Shown' = HostPdrs!Shown
      BY <2>4 DEF HostPdrs!Shown
    <3>4. HostPdrs!NodesAreLive => HostPdrs!NodesAreLive'
      BY <2>1, <2>4, <3>3 DEF HostPdrs!NodesAreLive
    <3> QED
      BY <1>01, <3>2, <3>4
  <2>6. ~v12 => (HostPdrs!OnePlace /\ HostPdrs!OneList /\ HostPdrs!UnreadIsRead)'
    BY <1>01, <2>1, <2>3, ExchangeStays
  <2> QED
    BY <2>1, <2>2, <2>5, <2>6 DEF HostPdrs!HostInv
<1>11. CASE HostPdrs!FruResponse
  <2>1. /\ v8.fru # "none" /\ v8' = [v8 EXCEPT !.fru = v8'.fru]
        /\ v8'.fru \in {"none", "table"}
        /\ v10' = v10 \/ v10' = (\E h \in HostPdrs!Assocs : v5[h] = "null")
        /\ UNCHANGED <<v1, v2, v3, v5, v6, v7, v11, v12>>
    BY <1>0, <1>11 DEF HostPdrs!FruResponse, HostPdrs!HostTypes,
      HostPdrs!onDbus
  <2>2. HostPdrs!HostTypes'
    BY <1>0, <2>1 DEF HostPdrs!HostTypes
  <2>3. ASSUME ~v12'
        PROVE  (HostPdrs!OnePlace /\ HostPdrs!OneList /\ HostPdrs!UnreadIsRead
                 /\ HostPdrs!NullsAreMended /\ HostPdrs!NodesAreLive)'
    <3>1. \A h \in HostPdrs!Assocs : v5[h] # "null"
      BY <1>01, <2>1, <2>3 DEF HostPdrs!NullsAreMended
    <3>2. ~v10'
      BY <1>01, <2>1, <2>3, <3>1 DEF HostPdrs!NodesAreLive
    <3>3. HostPdrs!OnePlace' /\ HostPdrs!OneList' /\ HostPdrs!UnreadIsRead'
      BY <1>01, <2>1, <2>3, ExchangeStays
    <3>4. HostPdrs!NullsAreMended'
      BY <2>1, <3>1 DEF HostPdrs!NullsAreMended
    <3>5. HostPdrs!Shown' = HostPdrs!Shown
      BY <2>1 DEF HostPdrs!Shown
    <3>6. HostPdrs!NodesAreLive'
      BY <1>01, <2>1, <2>3, <3>2, <3>5 DEF HostPdrs!NodesAreLive
    <3> QED
      BY <3>3, <3>4, <3>6
  <2> QED
    BY <2>2, <2>3 DEF HostPdrs!HostInv
<1>12. CASE HostPdrs!ReadingResponse
  <2>1. PICK h \in v7.readings :
          /\ v7' = [v7 EXCEPT !.readings = @ \ {h}]
          /\ v10' \in {FALSE, h \notin v7.map}
    BY <1>12 DEF HostPdrs!ReadingResponse
  <2>2. UNCHANGED <<v1, v2, v3, v5, v6, v8, v11, v12>>
    BY <1>12 DEF HostPdrs!ReadingResponse
  <2>3. HostPdrs!HostTypes'
    BY ZenonT(30), <1>0, <2>1, <2>2 DEF HostPdrs!HostTypes
  <2>4. ASSUME ~v12'
        PROVE  (HostPdrs!OnePlace /\ HostPdrs!OneList /\ HostPdrs!UnreadIsRead
                 /\ HostPdrs!NullsAreMended /\ HostPdrs!NodesAreLive)'
    <3>1. v7'.map = v7.map /\ v7'.readings \subseteq v7.readings
      BY <1>0, <2>1 DEF HostPdrs!HostTypes
    <3>2. ~v10'
      BY <1>01, <2>1, <2>2, <2>4 DEF HostPdrs!NodesAreLive
    <3>3. HostPdrs!OnePlace' /\ HostPdrs!OneList' /\ HostPdrs!UnreadIsRead'
            /\ (HostPdrs!Busy' <=> HostPdrs!Busy) /\ HostPdrs!Frontier' = HostPdrs!Frontier
      BY <1>01, <2>2, <2>4, ExchangeStays
    <3>4. HostPdrs!NullsAreMended'
      BY <1>01, <2>2, <2>4, <3>3 DEF HostPdrs!NullsAreMended
    <3>5. HostPdrs!Shown' = HostPdrs!Shown
      BY <2>2 DEF HostPdrs!Shown
    <3>6. HostPdrs!NodesAreLive'
      BY <1>01, <2>2, <2>4, <3>1, <3>2, <3>5 DEF HostPdrs!NodesAreLive
    <3> QED
      BY <3>3, <3>4, <3>6
  <2> QED
    BY <2>3, <2>4 DEF HostPdrs!HostInv
<1>13. CASE UNCHANGED HostPdrs!vars
  BY <1>0, <1>01, <1>13 DEF HostPdrs!vars, HostPdrs!HostInv,
    HostPdrs!HostTypes, HostPdrs!onDbus, HostPdrs!OnePlace, HostPdrs!OneList,
    HostPdrs!UnreadIsRead, HostPdrs!NullsAreMended, HostPdrs!NodesAreLive,
    HostPdrs!Shown, HostPdrs!Busy, HostPdrs!ToRead, HostPdrs!Frontier
<1> QED
  BY <1>1, <1>2, <1>21, <1>3, <1>4, <1>5, <1>6, <1>7, <1>8, <1>10, <1>11, <1>12, <1>13
    DEF HostPdrs!Next

LEMMA HostPdrsSafe == HostPdrs!HostInv => HostPdrs!UndisturbedExchange
  BY DEF HostPdrs!HostInv, HostPdrs!NodesAreLive, HostPdrs!UnreadIsRead,
    HostPdrs!UndisturbedExchange

LEMMA HostPdrsStays ==
  (component = "host" => HostPdrs!HostInv) /\ [ResponderNext]_vars
    => (component = "host" => HostPdrs!HostInv)'
<1> SUFFICES ASSUME component' = "host", [ResponderNext]_vars,
                    component = "host" => HostPdrs!HostInv
             PROVE  HostPdrs!HostInv'
  OBVIOUS
<1>1. CASE HostPdrsStep
  BY <1>1, HostPdrsNext DEF HostPdrsStep, Only
<1>2. CASE UNCHANGED vars
  BY <1>2, HostPdrsNext, OthersElsewhere DEF vars, HostPdrs!vars, HostPdrs!onDbus
<1> QED
  BY <1>1, <1>2, OthersElsewhere

-----------------------------------------------------------------------------
\* PlatformSensors: v1 is mapped, v2 is listening, v3 is dbus, v4 is
\* signals, v5 is sensorCache, v6 is told, v7 is misled.

LEMMA BeforeIs ==
  ASSUME Events!SensorTypes, NEW n \in 0..SensorComposite
  PROVE  Events!Before(n) = {o \in 1..n : o <= v1}
<1>1. \A a \in Int, b \in Int : Events!Min({a, b}) = IF a <= b THEN a ELSE b
  BY DEF Events!Min
<1>2. n \in Int /\ v1 \in Int
  BY SensorAssumption DEF Events!SensorTypes
<1>3. Events!Min({n, v1}) = IF n <= v1 THEN n ELSE v1
  BY <1>1, <1>2
<1> QED
  BY <1>2, <1>3, SensorAssumption DEF Events!Before

LEMMA FewerComposites ==
  ASSUME Events!SensorTypes, NEW n \in 0..SensorComposite
  PROVE  Events!Before(n) \subseteq Events!Before(SensorComposite)
<1>1. SensorComposite \in 0..SensorComposite
  BY SensorAssumption
<1> QED
  BY <1>1, BeforeIs, SensorAssumption

LEMMA EventsInit == Events!Init => Events!SensorsInv
  BY SensorAssumption DEF Events!Init, Events!SensorsInv, Events!SensorTypes,
    Events!ToldIsWatched, Events!SignalsAreWatched, Events!LastSignalIsPresent,
    Events!NothingToCorrect, Events!Offsets, Events!Values, Events!Unknown

LEMMA EventsNext == Events!SensorsInv /\ [Events!Next]_Events!vars => Events!SensorsInv'
<1> SUFFICES ASSUME Events!SensorsInv, [Events!Next]_Events!vars
             PROVE  Events!SensorsInv'
  OBVIOUS
<1>0. Events!SensorTypes /\ Events!ToldIsWatched /\ Events!SignalsAreWatched
        /\ Events!LastSignalIsPresent /\ Events!NothingToCorrect
  BY DEF Events!SensorsInv
<1>1. CASE Events!GetPDR
  <2>1. v1' \in 0..SensorComposite
    <3>1. PICK services \in SUBSET Events!Offsets : v1' = Events!Generated(services)
      BY <1>1 DEF Events!GetPDR
    <3>2. 0 \in {n \in 0..SensorComposite : 1..n \subseteq services}
      BY SensorAssumption
    <3>3. Events!Generated(services) \in {n \in 0..SensorComposite : 1..n \subseteq services}
      BY <3>2, LargestOf, SensorAssumption DEF Events!Generated, Events!Max
    <3> QED
      BY <3>1, <3>3
  <2>2. /\ \A o \in Events!Offsets : v6[o] \notin SensorStates
        /\ DOMAIN v4 = {}
    <3>1. Events!Before(SensorComposite) = {}
      BY <1>0, <1>1, SensorAssumption, BeforeIs DEF Events!GetPDR,
        Events!pdrCreated
    <3> QED
      BY <1>0, <3>1 DEF Events!ToldIsWatched, Events!SignalsAreWatched
  <2>3. v2' = "deferred" /\ UNCHANGED <<v3, v4, v5, v6, v7>>
    BY <1>1 DEF Events!GetPDR
  <2>4. Events!SensorTypes'
    BY <1>0, <2>1, <2>3 DEF Events!SensorTypes
  <2>5. Events!ToldIsWatched' /\ Events!SignalsAreWatched'
    BY <2>2, <2>3 DEF Events!ToldIsWatched, Events!SignalsAreWatched
  <2>6. Events!LastSignalIsPresent' /\ Events!NothingToCorrect'
    BY <1>0, <2>3 DEF Events!LastSignalIsPresent, Events!NothingToCorrect
  <2> QED
    BY <2>4, <2>5, <2>6 DEF Events!SensorsInv
<1>2. CASE Events!listenSensorEvent
  BY <1>0, <1>2 DEF Events!listenSensorEvent, Events!SensorsInv,
    Events!SensorTypes, Events!ToldIsWatched, Events!SignalsAreWatched,
    Events!Before, Events!LastSignalIsPresent, Events!NothingToCorrect
<1>3. ASSUME NEW o \in Events!Offsets, NEW v \in Events!Values, v # v3[o],
             v3' = [v3 EXCEPT ![o] = v],
             v4' = IF v2 = "on" /\ o \in Events!Before(SensorComposite)
                          THEN Append(v4, <<o, v, v3[o]>>) ELSE v4,
             UNCHANGED <<v1, v2, v5, v6, v7>>
      PROVE  Events!SensorsInv'
  <2>1. v3' \in [Events!Offsets -> Events!Values] /\ v3'[o] = v
        /\ \A p \in Events!Offsets : p # o => v3'[p] = v3[p]
    BY <1>0, <1>3 DEF Events!SensorTypes
  <2>2. CASE v2 = "on" /\ o \in Events!Before(SensorComposite)
    <3>1. /\ v4' \in Seq(Events!Offsets \X Events!Values \X Events!Values)
          /\ Len(v4') = Len(v4) + 1 /\ Len(v4) \in Nat
          /\ DOMAIN v4 = 1..Len(v4) /\ DOMAIN v4' = 1..Len(v4')
          /\ \A i \in DOMAIN v4 : i \in DOMAIN v4' /\ v4'[i] = v4[i] /\ i < Len(v4')
          /\ v4'[Len(v4')] = <<o, v, v3[o]>>
      BY <1>0, <1>3, <2>2 DEF Events!SensorTypes
    <3>2. Events!LastSignalIsPresent'
      <4> SUFFICES ASSUME NEW i \in DOMAIN v4',
                          \A j \in DOMAIN v4' : j > i => v4'[j][1] # v4'[i][1]
                   PROVE  v4'[i][2] = v3'[v4'[i][1]]
        BY DEF Events!LastSignalIsPresent
      <4>1. CASE i = Len(v4')
        BY <2>1, <3>1, <4>1
      <4>2. CASE i # Len(v4')
        <5>1. i \in DOMAIN v4 /\ v4'[i] = v4[i] /\ v4[i][1] # o
          BY <3>1, <4>2
        <5>2. v4[i][1] \in Events!Offsets
          BY <1>0, <5>1 DEF Events!SensorTypes
        <5> QED
          BY <1>0, <2>1, <3>1, <5>1, <5>2 DEF Events!LastSignalIsPresent
      <4> QED
        BY <4>1, <4>2
    <3>3. Events!NothingToCorrect'
      <4>1. Len(v4') \in DOMAIN v4'
        BY <3>1
      <4> QED
        BY <1>0, <1>3, <2>1, <3>1, <4>1 DEF Events!NothingToCorrect
    <3>4. Events!SensorTypes'
      BY <1>0, <1>3, <2>1, <3>1 DEF Events!SensorTypes
    <3>5. Events!ToldIsWatched'
      BY <1>0, <1>3 DEF Events!ToldIsWatched, Events!Before
    <3>6. Events!SignalsAreWatched'
      <4>1. \A i \in DOMAIN v4' : i \in DOMAIN v4 \/ i = Len(v4')
        BY <3>1
      <4>2. Events!Before(SensorComposite)' = Events!Before(SensorComposite) /\ v2' = "on"
        BY <1>3, <2>2 DEF Events!Before
      <4>3. v4'[Len(v4')][1] = o
        BY <3>1
      <4> QED
        BY <1>0, <2>2, <3>1, <4>1, <4>2, <4>3 DEF Events!SignalsAreWatched
    <3> QED
      BY <3>2, <3>3, <3>4, <3>5, <3>6 DEF Events!SensorsInv
  <2>3. CASE ~(v2 = "on" /\ o \in Events!Before(SensorComposite))
    <3>1. v6[o] \notin SensorStates /\ UNCHANGED v4
      BY <1>0, <1>3, <2>3 DEF Events!ToldIsWatched
    <3>2. \A i \in DOMAIN v4 : v4[i][1] # o
      BY <1>0, <2>3 DEF Events!SignalsAreWatched
    <3>3. Events!SensorTypes'
      BY <1>0, <1>3, <2>1, <3>1 DEF Events!SensorTypes
    <3>4. Events!ToldIsWatched' /\ Events!SignalsAreWatched'
      BY <1>0, <1>3, <3>1 DEF Events!ToldIsWatched, Events!SignalsAreWatched,
        Events!Before
    <3>5. Events!LastSignalIsPresent'
      <4>1. \A i \in DOMAIN v4 : v4[i][1] \in Events!Offsets
        BY <1>0 DEF Events!SensorTypes
      <4> QED
        BY <1>0, <2>1, <3>1, <3>2, <4>1 DEF Events!LastSignalIsPresent
    <3>6. Events!NothingToCorrect'
      BY <1>0, <1>3, <2>1, <3>1, <3>2 DEF Events!NothingToCorrect
    <3> QED
      BY <3>3, <3>4, <3>5, <3>6 DEF Events!SensorsInv
  <2> QED
    BY <2>2, <2>3
<1>4. CASE Events!SensorSignal
  <2> DEFINE o == v4[1][1]
             v == v4[1][2]
  <2>1. /\ v4 # <<>> /\ v4' = Tail(v4)
        /\ UNCHANGED <<v1, v2, v3>>
        /\ v7 \subseteq v7'
        /\ \/ v \notin SensorStates /\ UNCHANGED v6
           \/ v \in SensorStates /\ v6' = [v6 EXCEPT ![o] = v]
           \/ v \in SensorStates /\ UNCHANGED v6 /\ <<"lost", o>> \in v7'
    BY <1>4 DEF Events!SensorSignal, Events!EventSent
  <2>2. o \in Events!Offsets /\ v \in Events!Values
    BY <1>0, <2>1 DEF Events!SensorTypes
  <2>3. /\ v4' \in Seq(Events!Offsets \X Events!Values \X Events!Values)
        /\ Len(v4') = Len(v4) - 1 /\ Len(v4) \in Nat \ {0}
        /\ DOMAIN v4 = 1..Len(v4) /\ DOMAIN v4' = 1..Len(v4) - 1
        /\ \A i \in DOMAIN v4' : i + 1 \in DOMAIN v4 /\ v4'[i] = v4[i + 1]
    BY <1>0, <2>1 DEF Events!SensorTypes
  <2> HIDE DEF o, v
  <2>4. Events!LastSignalIsPresent'
    <3> SUFFICES ASSUME NEW i \in DOMAIN v4',
                        \A j \in DOMAIN v4' : j > i => v4'[j][1] # v4'[i][1]
                 PROVE  v4'[i][2] = v3'[v4'[i][1]]
      BY DEF Events!LastSignalIsPresent
    <3>1. ASSUME NEW j \in DOMAIN v4, j > i + 1
          PROVE  v4[j][1] # v4[i + 1][1]
      <4>1. j - 1 \in DOMAIN v4' /\ j - 1 > i /\ v4'[j - 1] = v4[j]
        BY <2>3, <3>1
      <4> QED
        BY <2>3, <4>1
    <3> QED
      BY <1>0, <2>1, <2>3, <3>1 DEF Events!LastSignalIsPresent
  <2>5. Events!NothingToCorrect'
    <3> SUFFICES ASSUME NEW p \in Events!Offsets, \A i \in DOMAIN v4' : v4'[i][1] # p,
                        <<"lost", p>> \notin v7', v6'[p] \in SensorStates, v3'[p] \in SensorStates
                 PROVE  v6'[p] = v3'[p]
      BY DEF Events!NothingToCorrect
    <3>1. \A j \in DOMAIN v4 : j > 1 => v4[j][1] # p
      <4> SUFFICES ASSUME NEW j \in DOMAIN v4, j > 1
                   PROVE  v4[j][1] # p
        OBVIOUS
      <4>1. j - 1 \in DOMAIN v4' /\ v4'[j - 1] = v4[j]
        BY <2>3
      <4> QED
        BY <4>1
    <3>2. 1 \in DOMAIN v4
      BY <2>3
    <3>3. CASE p = o
      <4>1. v = v3[p]
        BY <1>0, <3>1, <3>2, <3>3 DEF Events!LastSignalIsPresent, o, v
      <4> QED
        BY <1>0, <2>1, <3>3, <4>1 DEF Events!SensorTypes
    <3>4. CASE p # o
      <4>1. v6'[p] = v6[p] /\ <<"lost", p>> \notin v7
        BY <1>0, <2>1, <2>2, <3>4 DEF Events!SensorTypes
      <4>2. \A j \in DOMAIN v4 : v4[j][1] # p
        BY <2>3, <3>1, <3>4 DEF o
      <4> QED
        BY <1>0, <2>1, <4>1, <4>2 DEF Events!NothingToCorrect
    <3> QED
      BY <3>3, <3>4
  <2>6. Events!ToldIsWatched' /\ Events!SignalsAreWatched'
    <3>1. 1 \in DOMAIN v4
      BY <2>3
    <3>2. v2 = "on" /\ o \in Events!Before(SensorComposite)
      BY <1>0, <3>1 DEF Events!SignalsAreWatched, o
    <3>3. Events!SignalsAreWatched'
      BY <1>0, <2>1, <2>3 DEF Events!SignalsAreWatched, Events!Before
    <3> QED
      BY <1>0, <2>1, <2>2, <3>2, <3>3 DEF Events!SensorTypes,
        Events!ToldIsWatched, Events!Before
  <2> QED
    BY <1>0, <2>1, <2>2, <2>3, <2>4, <2>5, <2>6 DEF Events!SensorsInv,
      Events!SensorTypes
<1>5. CASE Events!GetStateSensorReadings
  <2>1. PICK c \in 0..SensorComposite :
          v6' = [o \in Events!Offsets |->
                     IF o \in Events!Before(c) THEN IF v3[o] \in SensorStates
                       THEN v3[o] ELSE Events!Unknown
                     ELSE Events!Other]
    <3>1. PICK sensorRearmCnt \in 0..SensorComposite :
            v6' = [o \in Events!Offsets |->
                       IF o \in Events!Before(IF sensorRearmCnt = 0
                         THEN SensorComposite ELSE sensorRearmCnt)
                         THEN IF v3[o] \in SensorStates THEN v3[o] ELSE Events!Unknown
                       ELSE Events!Other]
      BY <1>5 DEF Events!GetStateSensorReadings
    <3> QED
      BY <3>1, SensorAssumption
  <2>2. v2 = "on" /\ UNCHANGED <<v1, v2, v3, v4, v7>>
    BY <1>5 DEF Events!GetStateSensorReadings
  <2>3. v6' \in [Events!Offsets -> Events!Values \cup {Events!Unknown}]
    BY <2>1 DEF Events!Values
  <2>4. \A o \in Events!Offsets : v6'[o] \in SensorStates
          => o \in Events!Before(SensorComposite) /\ v6'[o] = v3[o]
    BY <1>0, <2>1, SensorAssumption, FewerComposites DEF Events!Other,
      Events!Unknown
  <2> QED
    BY <1>0, <2>2, <2>3, <2>4 DEF Events!SensorsInv, Events!SensorTypes,
      Events!ToldIsWatched, Events!SignalsAreWatched, Events!Before,
      Events!LastSignalIsPresent, Events!NothingToCorrect
<1>6. CASE UNCHANGED Events!vars
  BY <1>0, <1>6 DEF Events!vars, Events!SensorsInv, Events!SensorTypes,
    Events!ToldIsWatched, Events!SignalsAreWatched, Events!Before,
    Events!LastSignalIsPresent, Events!NothingToCorrect
<1> QED
  BY <1>1, <1>2, <1>3, <1>4, <1>5, <1>6 DEF Events!Next, Events!PropertyChanges

LEMMA EventsStays ==
  (component = "events" => Events!SensorsInv) /\ [ResponderNext]_vars
    => (component = "events" => Events!SensorsInv)'
<1> SUFFICES ASSUME component' = "events", [ResponderNext]_vars,
                    component = "events" => Events!SensorsInv
             PROVE  Events!SensorsInv'
  OBVIOUS
<1>1. CASE EventsStep
  BY <1>1, EventsNext DEF EventsStep, Only
<1>2. CASE UNCHANGED vars
  BY <1>2, EventsNext, OthersElsewhere DEF vars, Events!vars
<1> QED
  BY <1>1, <1>2, OthersElsewhere

-----------------------------------------------------------------------------
\* PlatformEffecters: v1 is mapped, v2 is effecters, v3 is last, v4 is
\* host.

LEMMA EffectersInit == Effecters!Init => Effecters!EffecterInv
<1> SUFFICES ASSUME Effecters!Init
             PROVE  Effecters!EffecterInv
  OBVIOUS
<1>1. v1 \in 0..EffecterComposite
  <2>1. PICK services \in SUBSET Effecters!Offsets : v1 = Effecters!Generated(services)
    BY DEF Effecters!Init
  <2>2. 0 \in {n \in 0..EffecterComposite : 1..n \subseteq services}
    BY EffecterAssumption
  <2> DEFINE S == {n \in 0..EffecterComposite : 1..n \subseteq services}
  <2>3. S \in SUBSET (0..EffecterComposite) /\ S # {}
    BY <2>2
  <2>4. (CHOOSE x \in S : \A y \in S : x >= y) \in S
    <3> HIDE DEF S
    <3> QED
      BY <2>3, LargestOf, EffecterAssumption
  <2>5. v1 = (CHOOSE x \in S : \A y \in S : x >= y)
    BY <2>1 DEF Effecters!Generated, Effecters!Max
  <2> QED
    BY <2>3, <2>4, <2>5
<1> QED
  BY <1>1, EffecterAssumption DEF Effecters!Init, Effecters!EffecterInv,
    Effecters!EffecterTypes, Effecters!SuccessSetsAll,
    Effecters!NumericStaysSettable, Effecters!Unknown

LEMMA BeforeIsMapped ==
  ASSUME v1 \in 0..EffecterComposite, NEW n \in 0..EffecterComposite
  PROVE  Effecters!Before(n) = {o \in 1..n : o <= v1}
<1>1. \A a \in Int, b \in Int : Effecters!Min({a, b}) = IF a <= b THEN a ELSE b
  BY DEF Effecters!Min
<1>2. n \in Int /\ v1 \in Int
  BY EffecterAssumption
<1>3. Effecters!Min({n, v1}) = IF n <= v1 THEN n ELSE v1
  BY <1>1, <1>2
<1> QED
  BY <1>2, <1>3, EffecterAssumption DEF Effecters!Before

\* The loop succeeds only if it has gone past every field.
LEMMA LoopSucceeds ==
  ASSUME v1 \in 0..EffecterComposite, NEW n \in Effecters!Offsets,
           NEW fields \in [1..n -> Effecters!Fields],
         NEW fails \in SUBSET Effecters!Offsets, Effecters!EffecterLoop(fields,
           fails).rc = "success"
  PROVE  Effecters!EffecterLoop(fields, fails).done = {o \in Effecters!Before(n) : fields[o].set}
<1> DEFINE bad == {o \in Effecters!Before(n) :
                     fields[o].state \notin EffecterStates \/ (fields[o].set /\ o \in fails)}
           stop == Effecters!Min(bad \cup {EffecterComposite + 1})
<1>1. n \in 0..EffecterComposite /\ Len(fields) = n
  BY EffecterAssumption DEF Effecters!Offsets
<1>2. Effecters!Before(n) \subseteq 1..EffecterComposite
  BY <1>1, BeforeIsMapped, EffecterAssumption
<1>3. \A o \in bad : stop <= o
  <2>1. bad \cup {EffecterComposite + 1} \in SUBSET Nat /\ bad \cup {EffecterComposite + 1} # {}
    BY <1>2, EffecterAssumption
  <2> HIDE DEF bad
  <2> QED
    BY <2>1, SmallestOf DEF Effecters!Min
<1>4. stop \in Nat
  <2>1. bad \cup {EffecterComposite + 1} \in SUBSET Nat /\ bad \cup {EffecterComposite + 1} # {}
    BY <1>2, EffecterAssumption
  <2> HIDE DEF bad
  <2> QED
    BY <2>1, SmallestOf DEF Effecters!Min
<1>5. Effecters!EffecterLoop(fields, fails) =
        [rc |-> IF stop > EffecterComposite THEN "success"
                ELSE IF fields[stop].state \notin EffecterStates THEN "unsupported" ELSE "error",
         done |-> {o \in Effecters!Before(n) : o < stop /\ fields[o].set}]
  BY <1>1 DEF Effecters!EffecterLoop
<1> HIDE DEF stop, bad
<1>6. stop > EffecterComposite
  BY <1>5
<1> QED
  BY <1>2, <1>4, <1>5, <1>6, EffecterAssumption

LEMMA EffectersNext == Effecters!EffecterInv /\ [Effecters!Next]_Effecters!vars
    => Effecters!EffecterInv'
<1> SUFFICES ASSUME Effecters!EffecterInv, [Effecters!Next]_Effecters!vars
             PROVE  Effecters!EffecterInv'
  OBVIOUS
<1> USE DEF Effecters!EffecterInv
<1>1. CASE Effecters!SetStateEffecterStates
  <2> DEFINE Done(fields, fails) ==
          /\ v2' = [v2 EXCEPT !.state = [o \in Effecters!Offsets |->
               IF o \in Effecters!EffecterLoop(fields, fails).done THEN fields[o].state ELSE @[o]]]
          /\ v3' = [rc |-> Effecters!EffecterLoop(fields, fails).rc, fields |-> fields]
  <2>0. PICK n \in Effecters!Offsets : \E fields \in [1..n -> Effecters!Fields],
          fails \in SUBSET Effecters!Offsets :
          Done(fields, fails)
    BY <1>1 DEF Effecters!SetStateEffecterStates
  <2>1. PICK fields \in [1..n -> Effecters!Fields],
          fails \in SUBSET Effecters!Offsets : Done(fields, fails)
    BY <2>0
  <2>2. UNCHANGED <<v1, v4>> /\ v1 \in 0..EffecterComposite
    BY <1>1 DEF Effecters!SetStateEffecterStates, Effecters!EffecterTypes
  <2>3. /\ v2' = [state |-> v2'.state, numeric |-> v2.numeric]
        /\ v2'.state = [o \in Effecters!Offsets |->
             IF o \in Effecters!EffecterLoop(fields, fails).done THEN fields[o].state
             ELSE v2.state[o]]
    BY <2>1 DEF Effecters!EffecterTypes
  <2>4. n \in 0..EffecterComposite /\ Len(fields) = n
          /\ Effecters!Before(n) \subseteq Effecters!Offsets
          /\ Effecters!Before(n) \subseteq 1..n
    <3>1. n \in 0..EffecterComposite /\ Len(fields) = n
      BY EffecterAssumption DEF Effecters!Offsets
    <3> QED
      BY <2>2, <3>1, BeforeIsMapped, EffecterAssumption DEF Effecters!Offsets
  <2>5. Effecters!EffecterLoop(fields, fails).done \subseteq Effecters!Before(n)
    BY <2>4 DEF Effecters!EffecterLoop
  <2>6. v2'.state \in [Effecters!Offsets -> EffecterStates \cup {Effecters!Unknown}]
    <3>1. \A o \in Effecters!Before(n) : fields[o].state \in EffecterStates \cup {Effecters!Unknown}
      BY <2>4 DEF Effecters!Fields
    <3>2. \A o \in Effecters!Offsets : v2.state[o] \in EffecterStates \cup {Effecters!Unknown}
      BY DEF Effecters!EffecterTypes
    <3> QED
      BY <2>3, <2>5, <3>1, <3>2
  <2>7. Effecters!EffecterTypes'
    BY <2>1, <2>2, <2>3, <2>6 DEF Effecters!EffecterTypes
  <2>8. Effecters!SuccessSetsAll'
    <3> SUFFICES ASSUME v3'.rc = "success", NEW o \in Effecters!Before(n), fields[o].set
                 PROVE  v2'.state[o] = fields[o].state
      BY <2>1, <2>2, <2>4 DEF Effecters!SuccessSetsAll, Effecters!Before
    <3>1. o \in Effecters!EffecterLoop(fields, fails).done
      <4>1. Effecters!EffecterLoop(fields, fails).rc = "success"
        BY <2>1
      <4>2. Effecters!EffecterLoop(fields, fails).done = {p \in Effecters!Before(n) : fields[p].set}
        BY <2>2, <4>1, LoopSucceeds
      <4> QED
        BY <4>2
    <3> QED
      BY <2>3, <2>4, <3>1
  <2> QED
    BY <2>3, <2>7, <2>8 DEF Effecters!NumericStaysSettable
<1>2. CASE Effecters!SetNumericEffecterValue
  <2>1. PICK v \in 0..(2 * NumericWidth) : \E raw \in Effecters!rawValues(v) :
          Effecters!Accepted(v, raw) /\ v2' = [v2 EXCEPT !.numeric = raw]
    BY <1>2 DEF Effecters!SetNumericEffecterValue
  <2>2. PICK raw \in Effecters!rawValues(v) :
          Effecters!Accepted(v, raw) /\ v2' = [v2 EXCEPT !.numeric = raw]
    BY <2>1
  <2>3. v2' = [state |-> v2.state, numeric |-> raw] /\ UNCHANGED <<v1, v3>>
    BY <1>2, <2>2 DEF Effecters!SetNumericEffecterValue,
      Effecters!EffecterTypes
  <2> QED
    BY <2>2, <2>3 DEF Effecters!EffecterTypes, Effecters!SuccessSetsAll,
      Effecters!Before, Effecters!NumericStaysSettable, Effecters!Accepted
<1>3. CASE Effecters!GetNumericEffecterValue \/ UNCHANGED Effecters!vars
  BY <1>3 DEF Effecters!GetNumericEffecterValue, Effecters!vars,
    Effecters!EffecterTypes, Effecters!SuccessSetsAll, Effecters!Before,
    Effecters!NumericStaysSettable
<1> QED
  BY <1>1, <1>2, <1>3 DEF Effecters!Next

LEMMA EffectersStays ==
  (component = "effecters" => Effecters!EffecterInv) /\ [ResponderNext]_vars
    => (component = "effecters" => Effecters!EffecterInv)'
<1> SUFFICES ASSUME component' = "effecters", [ResponderNext]_vars,
                    component = "effecters" => Effecters!EffecterInv
             PROVE  Effecters!EffecterInv'
  OBVIOUS
<1>1. CASE EffectersStep
  BY <1>1, EffectersNext DEF EffectersStep, Only
<1>2. CASE UNCHANGED vars
  BY <1>2, EffectersNext, OthersElsewhere DEF vars, Effecters!vars
<1> QED
  BY <1>1, <1>2, OthersElsewhere

-----------------------------------------------------------------------------
\* BiosConfig: v1 is tables, v2 is base, v3 is dbus, v4 is signals, v5 is fresh,
\* v6 is mixed.

BiosV == BiosValues \cup {BiosDefault}

\* What the property has and which notifications are on their way
Heard(s) ==
  /\ DOMAIN s.dbus = Bios!Attrs /\ s.signals \in Seq(Bios!Attrs \X BiosV)
  /\ \A i \in DOMAIN s.signals :
       Bios!Overtaken(s, i) \/ s.signals[i][2] = s.dbus[s.signals[i][1]]

\* A property written: the notification is on its way unless nothing changed.
LEMMA DbusWritten ==
  ASSUME NEW s, Heard(s), NEW a \in Bios!Attrs, NEW v \in BiosV, NEW z,
         LET c == Bios!Changed(s.dbus, s.signals, a, v)
         IN  z.dbus = c.dbus /\ z.signals = c.signals
  PROVE  /\ Heard(z) /\ z.dbus[a] = v
         /\ \A b \in Bios!Attrs \ {a} : z.dbus[b] = s.dbus[b]
         /\ \A b : Bios!Notifying(s, b) => Bios!Notifying(z, b)
<1> DEFINE q == s.signals
           d == s.dbus
           A == Bios!Attrs \X BiosV
<1>1. /\ z.dbus = [d EXCEPT ![a] = v]
      /\ z.signals = IF d[a] = v THEN q ELSE Append(q, <<a, v>>)
  BY DEF Bios!Changed
<1>2. /\ DOMAIN d = Bios!Attrs /\ q \in Seq(A)
      /\ \A i \in DOMAIN q : (\E j \in DOMAIN q : j > i /\ q[j][1] = q[i][1]) \/ q[i][2] = d[q[i][1]]
  BY DEF Heard, Bios!Overtaken
<1>3. SUFFICES /\ DOMAIN z.dbus = Bios!Attrs /\ z.signals \in Seq(A)
               /\ \A i \in DOMAIN z.signals :
                    \/ \E j \in DOMAIN z.signals : j > i /\ z.signals[j][1] = z.signals[i][1]
                    \/ z.signals[i][2] = z.dbus[z.signals[i][1]]
               /\ z.dbus[a] = v
               /\ \A b \in Bios!Attrs \ {a} : z.dbus[b] = d[b]
               /\ \A b : (\E i \in DOMAIN q : q[i][1] = b)
                           => \E i \in DOMAIN z.signals : z.signals[i][1] = b
  BY DEF Heard, Bios!Overtaken, Bios!Notifying
<1>4. CASE d[a] = v
  <2>1. z.signals = q
    BY <1>1, <1>4
  <2>2. DOMAIN z.dbus = Bios!Attrs /\ \A b \in Bios!Attrs : z.dbus[b] = d[b]
    <3> HIDE DEF d
    <3> QED
      BY <1>1, <1>2, <1>4
  <2>3. \A i \in DOMAIN q : q[i][1] \in Bios!Attrs
    <3> SUFFICES ASSUME NEW i \in DOMAIN q PROVE q[i][1] \in Bios!Attrs
      OBVIOUS
    <3> HIDE DEF q
    <3>1. q[i] \in A
      BY <1>2
    <3> QED
      BY <3>1
  <2> HIDE DEF d, q
  <2> QED
    BY <1>2, <1>4, <2>1, <2>2, <2>3
<1>5. CASE d[a] # v
  <2> DEFINE e == <<a, v>>
  <2>1. z.signals = Append(q, e) /\ e \in A
    BY <1>1, <1>5
  <2>2. e[1] = a /\ e[2] = v
    OBVIOUS
  <2>3. \A i \in DOMAIN q : q[i][1] \in Bios!Attrs
    <3> SUFFICES ASSUME NEW i \in DOMAIN q PROVE q[i][1] \in Bios!Attrs
      OBVIOUS
    <3> HIDE DEF q
    <3>1. q[i] \in A
      BY <1>2
    <3> QED
      BY <3>1
  <2>4. /\ z.dbus[a] = v /\ DOMAIN z.dbus = Bios!Attrs
        /\ \A b \in Bios!Attrs \ {a} : z.dbus[b] = d[b]
    <3> HIDE DEF d
    <3> QED
      BY <1>1, <1>2
  <2> HIDE DEF q, A, e
  <2>5. /\ Append(q, e) \in Seq(A) /\ Len(q) \in Nat
        /\ DOMAIN q = 1..Len(q) /\ DOMAIN Append(q, e) = 1..(Len(q) + 1)
        /\ \A i \in 1..Len(q) : Append(q, e)[i] = q[i]
        /\ Append(q, e)[Len(q) + 1] = e
    BY <1>2, <2>1
  <2> DEFINE p == Append(q, e)
  <2> HIDE DEF d, p
  <2>6. ASSUME NEW i \in 1..(Len(q) + 1)
        PROVE  (\E j \in 1..(Len(q) + 1) : j > i /\ p[j][1] = p[i][1]) \/ p[i][2] = z.dbus[p[i][1]]
    <3>1. CASE i = Len(q) + 1
      BY <2>2, <2>4, <2>5, <3>1 DEF p
    <3>2. CASE i \in 1..Len(q)
      <4>1. p[i] = q[i]
        BY <2>5, <3>2 DEF p
      <4>2. CASE q[i][1] = a
        BY <2>2, <2>5, <3>2, <4>1, <4>2 DEF p
      <4>3. CASE q[i][1] # a
        <5>1. CASE q[i][2] = d[q[i][1]]
          BY <2>3, <2>4, <2>5, <3>2, <4>1, <4>3, <5>1
        <5>2. CASE \E j \in DOMAIN q : j > i /\ q[j][1] = q[i][1]
          BY <2>5, <4>1, <5>2 DEF p
        <5> QED
          BY <1>2, <2>5, <3>2, <5>1, <5>2
      <4> QED
        BY <4>2, <4>3
    <3> QED
      BY <2>5, <3>1, <3>2
  <2>7. \A b : (\E i \in DOMAIN q : q[i][1] = b) => \E i \in 1..(Len(q) + 1) : p[i][1] = b
    BY <2>5 DEF p
  <2>8. z.signals = p /\ p \in Seq(A) /\ DOMAIN p = 1..(Len(q) + 1)
    BY <2>1, <2>5 DEF p
  <2> QED
    BY <2>4, <2>6, <2>7, <2>8
<1> QED
  BY <1>4, <1>5

\* What one set leaves as it was
Kept(s, z) == z.tables.string = s.tables.string /\ z.tables.attr = s.tables.attr
                /\ DOMAIN z.tables.val = DOMAIN s.tables.val

CanSet(s, a, v, fails) ==
  a \in s.tables.attr \cap s.tables.string \cap DOMAIN s.tables.val /\ v \in BiosValid /\ ~fails

LEMMA NothingSet ==
  ASSUME NEW s, NEW f, NEW m, Bios!Agrees(s, f, m)
  PROVE  Bios!Agrees([s EXCEPT !.ok = FALSE], f, m)
<1> DEFINE z == [s EXCEPT !.ok = FALSE]
<1>1. /\ DOMAIN z = {"tables", "base", "dbus", "signals", "ok"}
      /\ z.tables = s.tables /\ z.base = s.base /\ z.dbus = s.dbus /\ z.signals = s.signals
  BY DEF Bios!Agrees
<1> HIDE DEF z
<1> QED
  BY <1>1 DEF Bios!Agrees, Bios!Overtaken, Bios!Notifying, z

\* A set through D-Bus makes the attribute fresh, or fails and does nothing.
LEMMA SetThroughDbus ==
  ASSUME NEW s, NEW f, NEW m, Bios!Agrees(s, f, m), NEW a \in Bios!Attrs, NEW v \in BiosV,
         NEW fails
  PROVE  LET z == Bios!SetAttrValue(s, a, v, TRUE, fails) IN
         /\ Bios!Agrees(z, IF CanSet(s, a, v, fails) THEN f \cup {a} ELSE f, m)
         /\ Kept(s, z) /\ (z.ok <=> CanSet(s, a, v, fails))
<1> DEFINE z == Bios!SetAttrValue(s, a, v, TRUE, fails)
<1>1. CASE ~CanSet(s, a, v, fails)
  <2>1. z = [s EXCEPT !.ok = FALSE]
    BY <1>1 DEF CanSet, Bios!SetAttrValue
  <2>2. DOMAIN s = {"tables", "base", "dbus", "signals", "ok"}
    BY DEF Bios!Agrees
  <2> HIDE DEF z
  <2>3. z.tables = s.tables /\ z.ok = FALSE
    BY <2>1, <2>2
  <2>4. Bios!Agrees(z, f, m)
    BY <2>1, NothingSet
  <2>5. (IF CanSet(s, a, v, fails) THEN f \cup {a} ELSE f) = f
    BY <1>1
  <2>6. Kept(s, z) /\ (z.ok <=> CanSet(s, a, v, fails))
    BY <1>1, <2>3 DEF Kept
  <2> QED
    BY <2>4, <2>5, <2>6 DEF z
<1>2. CASE CanSet(s, a, v, fails)
  <2> DEFINE new == [s.tables.val EXCEPT ![a] = v]
             c == Bios!Changed(s.dbus, s.signals, a, v)
  <2>1. z = [tables |-> [s.tables EXCEPT !.val = IF Bios!Checked(s.tables, new) THEN new ELSE @],
             base |-> IF Bios!Checked(s.tables, new) THEN new ELSE s.base,
             dbus |-> c.dbus, signals |-> c.signals, ok |-> TRUE]
    BY <1>2 DEF CanSet, Bios!SetAttrValue
  <2>2. /\ DOMAIN z = {"tables", "base", "dbus", "signals", "ok"}
        /\ z.tables = [s.tables EXCEPT !.val = IF Bios!Checked(s.tables, new) THEN new ELSE @]
        /\ z.base = IF Bios!Checked(s.tables, new) THEN new ELSE s.base
        /\ z.dbus = c.dbus /\ z.signals = c.signals /\ z.ok
    <3> HIDE DEF new, c, z
    <3> QED
      BY <2>1
  <2> HIDE DEF z
  <2>3. /\ DOMAIN s.tables = {"string", "attr", "val"} /\ s.tables.attr \subseteq Bios!Attrs
        /\ f \subseteq DOMAIN s.tables.val
        /\ ~m => /\ Bios!Checked(s.tables, s.tables.val)
                 /\ \A b \in DOMAIN s.tables.val :
                      /\ s.tables.val[b] \in BiosValid =>
                           b \in DOMAIN s.base /\ s.base[b] = s.tables.val[b]
                      /\ b \in f => Bios!Notifying(s, b) \/ s.tables.val[b] = s.dbus[b]
        /\ Heard(s)
    BY DEF Bios!Agrees, Heard, BiosV
  <2>4. /\ DOMAIN z.tables = {"string", "attr", "val"}
        /\ z.tables.attr = s.tables.attr /\ z.tables.string = s.tables.string
        /\ z.tables.val = IF Bios!Checked(s.tables, new) THEN new ELSE s.tables.val
    <3> HIDE DEF new, c
    <3> QED
      BY <2>2, <2>3
  <2>5. /\ Heard(z) /\ z.dbus[a] = v
        /\ \A b \in Bios!Attrs \ {a} : z.dbus[b] = s.dbus[b]
        /\ \A b : Bios!Notifying(s, b) => Bios!Notifying(z, b)
    BY <2>2, <2>3, DbusWritten
  <2>6. DOMAIN new = DOMAIN s.tables.val /\ DOMAIN z.tables.val = DOMAIN s.tables.val
    BY <2>4
  <2>7. /\ a \in DOMAIN s.tables.val /\ new[a] = v
        /\ \A b \in DOMAIN new \ {a} : new[b] = s.tables.val[b]
    BY <1>2 DEF CanSet
  <2>8. ASSUME ~m
        PROVE  /\ Bios!Checked(z.tables, z.tables.val)
               /\ \A b \in DOMAIN z.tables.val :
                    /\ z.tables.val[b] \in BiosValid =>
                         b \in DOMAIN z.base /\ z.base[b] = z.tables.val[b]
                    /\ b \in f \cup {a} => Bios!Notifying(z, b) \/ z.tables.val[b] = z.dbus[b]
    <3>1. Bios!Checked(s.tables, new) /\ DOMAIN new \subseteq Bios!Attrs
      <4> HIDE DEF new
      <4> QED
        BY <2>3, <2>6, <2>8 DEF Bios!Checked
    <3>2. z.tables.val = new /\ z.base = new
      <4> HIDE DEF new
      <4> QED
        BY <2>2, <2>4, <3>1
    <3> HIDE DEF new, c
    <3>3. Bios!Checked(z.tables, z.tables.val)
      BY <2>4, <3>1, <3>2 DEF Bios!Checked
    <3>4. ASSUME NEW b \in DOMAIN new, b \in f \cup {a}
          PROVE  Bios!Notifying(z, b) \/ new[b] = z.dbus[b]
      <4>1. CASE b = a
        BY <2>5, <2>7, <4>1
      <4>2. CASE b # a
        BY <2>3, <2>5, <2>6, <2>7, <2>8, <3>1, <3>4, <4>2
      <4> QED
        BY <4>1, <4>2
    <3> QED
      BY <3>2, <3>3, <3>4
  <2> HIDE DEF new, c
  <2>9. Bios!Agrees(z, f \cup {a}, m)
    BY <2>2, <2>3, <2>4, <2>5, <2>6, <2>7, <2>8 DEF Bios!Agrees, Heard, BiosV
  <2>10. Kept(s, z)
    BY <2>4, <2>6 DEF Kept
  <2> QED
    BY <1>2, <2>2, <2>9, <2>10 DEF z
<1> QED
  BY <1>1, <1>2

\* The last notification of an attribute has the value of its property.
LEMMA FirstHeard ==
  ASSUME NEW s, Heard(s), s.signals # <<>>, NEW z, z.dbus = s.dbus, z.signals = Tail(s.signals)
  PROVE  /\ Heard(z) /\ s.signals[1][1] \in Bios!Attrs
         /\ Bios!Notifying(z, s.signals[1][1]) \/ s.signals[1][2] = s.dbus[s.signals[1][1]]
         /\ \A b : b # s.signals[1][1] /\ Bios!Notifying(s, b) => Bios!Notifying(z, b)
<1> DEFINE q == s.signals
           p == z.signals
           A == Bios!Attrs \X BiosV
<1>1. /\ DOMAIN s.dbus = Bios!Attrs /\ q \in Seq(A) /\ q # <<>> /\ p = Tail(q) /\ z.dbus = s.dbus
      /\ \A i \in DOMAIN q : (\E j \in DOMAIN q : j > i /\ q[j][1] = q[i][1]) \/ q[i][2] = s.dbus[q[i][1]]
  BY DEF Heard, Bios!Overtaken
<1>2. SUFFICES /\ p \in Seq(A) /\ q[1][1] \in Bios!Attrs
               /\ \A i \in DOMAIN p :
                    (\E j \in DOMAIN p : j > i /\ p[j][1] = p[i][1]) \/ p[i][2] = s.dbus[p[i][1]]
               /\ (\E i \in DOMAIN p : p[i][1] = q[1][1]) \/ q[1][2] = s.dbus[q[1][1]]
               /\ \A b : b # q[1][1] /\ (\E i \in DOMAIN q : q[i][1] = b)
                           => \E i \in DOMAIN p : p[i][1] = b
  BY <1>1 DEF Heard, Bios!Overtaken, Bios!Notifying
<1> HIDE DEF p, q
<1>3. q[1] \in A
  <2> HIDE DEF A
  <2> QED
    BY <1>1
<1>4. q[1][1] \in Bios!Attrs
  BY <1>3
<1> HIDE DEF A
<1>5. /\ p \in Seq(A) /\ Len(q) \in Nat \ {0} /\ DOMAIN q = 1..Len(q) /\ DOMAIN p = 1..(Len(q) - 1)
      /\ \A i \in 1..(Len(q) - 1) : p[i] = q[i + 1]
  BY <1>1
<1>6. \A j \in 1..Len(q) : j > 1 => j - 1 \in DOMAIN p /\ p[j - 1] = q[j]
  <2> SUFFICES ASSUME NEW j \in 1..Len(q), j > 1 PROVE j - 1 \in DOMAIN p /\ p[j - 1] = q[j]
    OBVIOUS
  <2>1. j - 1 \in 1..(Len(q) - 1) /\ (j - 1) + 1 = j
    BY <1>5
  <2> QED
    BY <1>5, <2>1
<1>7. ASSUME NEW i \in DOMAIN p
      PROVE  (\E j \in DOMAIN p : j > i /\ p[j][1] = p[i][1]) \/ p[i][2] = s.dbus[p[i][1]]
  <2>1. i + 1 \in DOMAIN q /\ p[i] = q[i + 1] /\ i \in Nat
    BY <1>5
  <2>2. CASE q[i + 1][2] = s.dbus[q[i + 1][1]]
    BY <2>1, <2>2
  <2>3. CASE \E j \in DOMAIN q : j > i + 1 /\ q[j][1] = q[i + 1][1]
    <3>1. PICK j \in DOMAIN q : j > i + 1 /\ q[j][1] = q[i + 1][1]
      BY <2>3
    <3>2. j - 1 > i /\ j > 1 /\ j \in 1..Len(q)
      BY <1>5, <2>1, <3>1
    <3> QED
      BY <1>6, <2>1, <3>1, <3>2
  <2> QED
    BY <1>1, <2>1, <2>2, <2>3
<1>8. ASSUME NEW b, NEW i \in DOMAIN q, q[i][1] = b, i = 1 => b # q[1][1]
      PROVE  \E j \in DOMAIN p : p[j][1] = b
  <2>1. i > 1
    BY <1>5, <1>8
  <2> QED
    BY <1>5, <1>6, <1>8, <2>1
<1>9. (\E i \in DOMAIN p : p[i][1] = q[1][1]) \/ q[1][2] = s.dbus[q[1][1]]
  <2>1. 1 \in DOMAIN q
    BY <1>5
  <2>2. CASE \E j \in DOMAIN q : j > 1 /\ q[j][1] = q[1][1]
    BY <1>5, <1>6, <2>2
  <2> QED
    BY <1>1, <2>1, <2>2
<1> QED
  BY <1>4, <1>5, <1>7, <1>8, <1>9

\* A notification is ignored, stored out of bounds, or set.
LEMMA NotificationSettles ==
  ASSUME NEW s, NEW f, NEW m, Bios!Agrees(s, f, m), s.signals # <<>>, NEW z, NEW g,
         DOMAIN z = {"tables", "base", "dbus", "signals", "ok"},
         DOMAIN z.tables = {"string", "attr", "val"},
         z.tables.string = s.tables.string, z.tables.attr = s.tables.attr,
         z.dbus = s.dbus, z.signals = Tail(s.signals),
         LET a == s.signals[1][1]
             v == s.signals[1][2]
         IN  \/ z.tables.val = s.tables.val /\ z.base = s.base /\ g = f \ {a}
             \/ /\ z.tables.val = [s.tables.val EXCEPT ![a] = v] /\ v \notin BiosValid
                /\ z.base = s.base /\ g = f \ {a}
             \/ /\ z.tables.val = [s.tables.val EXCEPT ![a] = v] /\ g = f \cup {a}
                /\ a \in DOMAIN s.tables.val
                /\ z.base = z.tables.val \/ ~Bios!Checked(s.tables, z.tables.val)
  PROVE  Bios!Agrees(z, g, m)
<1> DEFINE a == s.signals[1][1]
           v == s.signals[1][2]
<1>1. /\ s.tables.attr \subseteq Bios!Attrs /\ f \subseteq DOMAIN s.tables.val
      /\ ~m => /\ Bios!Checked(s.tables, s.tables.val)
               /\ \A b \in DOMAIN s.tables.val :
                    /\ s.tables.val[b] \in BiosValid =>
                         b \in DOMAIN s.base /\ s.base[b] = s.tables.val[b]
                    /\ b \in f => Bios!Notifying(s, b) \/ s.tables.val[b] = s.dbus[b]
      /\ Heard(s)
  BY DEF Bios!Agrees, Heard, BiosV
<1>2. /\ Heard(z)
      /\ Bios!Notifying(z, a) \/ v = s.dbus[a]
      /\ \A b : b # a /\ Bios!Notifying(s, b) => Bios!Notifying(z, b)
  BY <1>1, FirstHeard
<1>3. \/ z.tables.val = s.tables.val /\ z.base = s.base /\ g = f \ {a}
      \/ /\ z.tables.val = [s.tables.val EXCEPT ![a] = v] /\ v \notin BiosValid
         /\ z.base = s.base /\ g = f \ {a}
      \/ /\ z.tables.val = [s.tables.val EXCEPT ![a] = v] /\ g = f \cup {a}
         /\ a \in DOMAIN s.tables.val
         /\ z.base = z.tables.val \/ ~Bios!Checked(s.tables, z.tables.val)
  OBVIOUS
<1> HIDE DEF a, v
<1>4. ASSUME ~m
      PROVE  /\ Bios!Checked(z.tables, z.tables.val)
             /\ \A b \in DOMAIN z.tables.val :
                  /\ z.tables.val[b] \in BiosValid =>
                       b \in DOMAIN z.base /\ z.base[b] = z.tables.val[b]
                  /\ b \in g => Bios!Notifying(z, b) \/ z.tables.val[b] = z.dbus[b]
  <2>1. DOMAIN z.tables.val = DOMAIN s.tables.val
    BY <1>3
  <2>2. Bios!Checked(z.tables, z.tables.val) /\ Bios!Checked(s.tables, z.tables.val)
    BY <1>1, <1>4, <2>1 DEF Bios!Checked
  <2>3. ASSUME NEW b \in DOMAIN z.tables.val, b # a
        PROVE  z.tables.val[b] = s.tables.val[b] /\ (b \in g <=> b \in f)
    BY <1>3, <2>1, <2>3
  <2>4. ASSUME a \in DOMAIN z.tables.val
        PROVE  /\ z.tables.val[a] \in BiosValid =>
                    a \in DOMAIN z.base /\ z.base[a] = z.tables.val[a]
               /\ a \in g => z.tables.val[a] = v
    BY <1>1, <1>3, <1>4, <2>1, <2>2, <2>4
  <2>5. ASSUME NEW b \in DOMAIN z.tables.val
        PROVE  z.tables.val[b] \in BiosValid => b \in DOMAIN z.base /\ z.base[b] = z.tables.val[b]
    <3>1. CASE b = a
      BY <2>4, <2>5, <3>1
    <3>2. CASE b # a
      BY <1>1, <1>3, <1>4, <2>1, <2>2, <2>3, <2>5, <3>2
    <3> QED
      BY <3>1, <3>2
  <2>6. ASSUME NEW b \in DOMAIN z.tables.val, b \in g
        PROVE  Bios!Notifying(z, b) \/ z.tables.val[b] = z.dbus[b]
    <3>1. CASE b = a
      BY <1>2, <2>4, <2>6, <3>1
    <3>2. CASE b # a
      BY <1>1, <1>2, <1>4, <2>1, <2>3, <2>6, <3>2
    <3> QED
      BY <3>1, <3>2
  <2> QED
    BY <2>2, <2>5, <2>6
<1>5. z.tables.attr \subseteq Bios!Attrs /\ g \subseteq DOMAIN z.tables.val
  BY <1>1, <1>3
<1>6. /\ DOMAIN z.dbus = Bios!Attrs /\ z.signals \in Seq(Bios!Attrs \X (BiosValues \cup {BiosDefault}))
      /\ \A i \in DOMAIN z.signals :
           Bios!Overtaken(z, i) \/ z.signals[i][2] = z.dbus[z.signals[i][1]]
  BY <1>2 DEF Heard, BiosV
<1> QED
  BY <1>4, <1>5, <1>6, Zenon DEF Bios!Agrees

-----------------------------------------------------------------------------
\* The pending attributes are set one after the other.
SetPending(s, a, c) ==
  Bios!SetAttrValue(s, a, Bios!OrDefault(a, c[a].value), TRUE, c[a].dbusFails)
Sets == INSTANCE FoldInduction WITH Op <- SetPending

LEMMA SetsFold ==
  ASSUME NEW s, NEW q, NEW c
  PROVE  LET set(t, a) == Bios!SetAttrValue(t, a, Bios!OrDefault(a, c[a].value), TRUE, c[a].dbusFails)
         IN  Bios!FoldLeft(set, s, q) = Sets!Fold(s, q, c)
  BY DEF Bios!FoldLeft, Bios!MapThenFoldSet, Bios!Max,
    Sets!Fold, Sets!Iter, Sets!Solves, Sets!Step, Sets!Largest, SetPending

LEMMA BiosSetAsSequence ==
  ASSUME NEW S, IsFiniteSet(S)
  PROVE  LET q == Bios!SetToSeq(S) IN
         q \in Seq(S) /\ \A a \in S : \E i \in DOMAIN q : q[i] = a
<1> DEFINE n == Cardinality(S)
           q == Bios!SetToSeq(S)
<1>0. Bios!Cardinality(S) = n
  BY DEF Cardinality, Bios!Cardinality
<1>1. n \in Nat /\ ExistsBijection(1..n, S)
  BY FS_CardinalityType
<1>2. PICK g \in Bijection(1..n, S) : TRUE
  BY <1>1 DEF ExistsBijection
<1>3. g \in [1..n -> S] /\ Bios!IsInjective(g)
  BY <1>2 DEF Bijection, Injection, IsInjective, Bios!IsInjective
<1>4. q \in [1..n -> S] /\ Bios!IsInjective(q)
  BY <1>0, <1>3 DEF Bios!SetToSeq
<1>5. q \in Injection(1..n, S)
  BY <1>4 DEF Injection, IsInjective, Bios!IsInjective
<1>6. Cardinality(1..n) = n
  BY <1>1, FS_Interval
<1>7. q \in Surjection(1..n, S)
  BY <1>5, <1>6, FS_Injection
<1>8. q \in Seq(S)
  BY <1>1, <1>4
<1> QED
  BY <1>4, <1>7, <1>8 DEF Surjection

LEMMA PendingSet ==
  ASSUME NEW s, NEW f, NEW m, Bios!Agrees(s, f, m), NEW S \in SUBSET Bios!Attrs, IsFiniteSet(S),
         NEW c \in [S -> [value : BiosValues, dbusFails : BOOLEAN]]
  PROVE  Bios!Agrees(Sets!Fold(s, Bios!SetToSeq(S), c),
           f \cup {a \in S : CanSet(s, a, Bios!OrDefault(a, c[a].value), c[a].dbusFails)}, m)
<1> DEFINE q == Bios!SetToSeq(S)
           n == Len(q)
           W(a) == Bios!OrDefault(a, c[a].value)
           Can(t, a) == CanSet(t, a, W(a), c[a].dbusFails)
           r == Sets!Iter(s, q, c)
           G(k) == f \cup {a \in S : Can(s, a) /\ \E i \in 1..k : q[i] = a}
           P(k) == Bios!Agrees(r[1..k], G(k), m) /\ Kept(s, r[1..k])
           K == {k \in Nat : k <= n => P(k)}
<1>1. q \in Seq(S) /\ \A a \in S : \E i \in DOMAIN q : q[i] = a
  BY BiosSetAsSequence
<1>2. n \in Nat /\ DOMAIN q = 1..n /\ \A i \in 1..n : q[i] \in S
  <2> HIDE DEF q
  <2> QED
    BY <1>1
<1> HIDE DEF q, n
<1>3. /\ r[{}] = s
      /\ \A k \in 1..n : r[1..k] = Bios!SetAttrValue(r[1..(k-1)], q[k], W(q[k]), TRUE, c[q[k]].dbusFails)
  <2>1. n \in Nat /\ DOMAIN q = 1..n
    BY <1>2
  <2>2. r[{}] = s
    BY <2>1, Sets!IterSteps
  <2>3. \A k \in 1..n : r[1..k] = SetPending(r[1..(k-1)], q[k], c)
    BY <2>1, Sets!IterSteps
  <2> HIDE DEF r
  <2> QED
    BY <2>2, <2>3 DEF SetPending
<1>4. \A a \in S : W(a) \in BiosV
  BY DEF Bios!OrDefault, BiosV
<1> HIDE DEF W, r
<1>5. 0 \in K
  <2>1. 1..0 = {}
    OBVIOUS
  <2>2. G(0) = f
    BY <2>1
  <2> HIDE DEF G
  <2>3. P(0)
    BY <1>3, <2>1, <2>2 DEF Kept
  <2> QED
    BY <2>3
<1>6. ASSUME NEW k \in K \cap Nat PROVE k + 1 \in K
  <2> SUFFICES ASSUME k + 1 <= n PROVE P(k + 1)
    OBVIOUS
  <2>1. P(k) /\ k + 1 \in 1..n /\ (k + 1) - 1 = k
    BY <1>2
  <2> DEFINE a == q[k + 1]
             x == r[1..k]
             y == r[1..(k + 1)]
  <2>2. y = Bios!SetAttrValue(x, a, W(a), TRUE, c[a].dbusFails) /\ a \in S
    BY <1>2, <1>3, <2>1
  <2>3. Can(x, a) <=> Can(s, a)
    BY <2>1 DEF Kept, CanSet
  <2>4. G(k + 1) = IF Can(s, a) THEN G(k) \cup {a} ELSE G(k)
    <3>1. \A i \in 1..(k + 1) : i \in 1..k \/ i = k + 1
      OBVIOUS
    <3>2. \A i \in 1..k : i \in 1..(k + 1)
      OBVIOUS
    <3>3. k + 1 \in 1..(k + 1)
      OBVIOUS
    <3> HIDE DEF Can
    <3>4. \A b : b \in G(k + 1) <=> b \in IF Can(s, a) THEN G(k) \cup {a} ELSE G(k)
      BY <2>2, <3>1, <3>2, <3>3
    <3> HIDE DEF G, a
    <3>5. CASE Can(s, a)
      BY <3>4, <3>5
    <3>6. CASE ~Can(s, a)
      BY <3>4, <3>6
    <3> QED
      BY <3>5, <3>6
  <2> HIDE DEF G, a, x, y
  <2>5. /\ Bios!Agrees(y, IF Can(x, a) THEN G(k) \cup {a} ELSE G(k), m) /\ Kept(x, y)
    <3>1. Bios!Agrees(x, G(k), m) /\ a \in Bios!Attrs /\ W(a) \in BiosV
      BY <1>4, <2>1, <2>2 DEF x
    <3> QED
      BY <2>2, <3>1, SetThroughDbus
  <2>6. Bios!Agrees(y, G(k + 1), m)
    BY <2>3, <2>4, <2>5
  <2>7. Kept(s, y)
    BY <2>1, <2>5 DEF Kept, x
  <2> QED
    BY <2>6, <2>7 DEF y
<1>7. Nat \subseteq K
  <2> HIDE DEF K
  <2> QED
    BY <1>5, <1>6, Sets!InductionOnSet
<1>8. Bios!Agrees(r[1..n], G(n), m)
  BY <1>2, <1>7
<1>9. G(n) = f \cup {a \in S : Can(s, a)}
  <2> HIDE DEF Can
  <2> QED
    BY <1>1, <1>2
<1>10. Sets!Fold(s, q, c) = r[1..n]
  BY <1>2 DEF Sets!Fold, r
<1> QED
  BY <1>8, <1>9, <1>10 DEF q, W

-----------------------------------------------------------------------------
LEMMA SameAgrees ==
  ASSUME NEW s, NEW f, NEW m, Bios!Agrees(s, f, m), NEW z,
         DOMAIN z = {"tables", "base", "dbus", "signals", "ok"},
         z.tables = s.tables, z.base = s.base, z.dbus = s.dbus, z.signals = s.signals
  PROVE  Bios!Agrees(z, f, m)
  BY DEF Bios!Agrees, Bios!Overtaken, Bios!Notifying

\* What the tables are built from the JSON files
LEMMA BuiltAgrees ==
  ASSUME NEW s, NEW f, NEW m, NEW known, NEW d, f = {}, s.signals = <<>>,
         DOMAIN s = {"tables", "base", "dbus", "signals", "ok"},
         DOMAIN s.dbus = Bios!Attrs,
         s.tables = [string |-> Bios!Attrs, attr |-> Bios!Attrs, val |-> Bios!Constructed(known, d)],
         ~m => s.base = s.tables.val
  PROVE  Bios!Agrees(s, f, m)
<1>1. DOMAIN Bios!Constructed(known, d) \subseteq Bios!Attrs
  BY DEF Bios!Constructed
<1> DEFINE val == Bios!Constructed(known, d)
<1> HIDE DEF val
<1>2. /\ DOMAIN s.tables = {"string", "attr", "val"} /\ s.tables.attr = Bios!Attrs
      /\ s.tables.string = Bios!Attrs /\ s.tables.val = val
  BY DEF val
<1>3. DOMAIN val \subseteq Bios!Attrs
  BY <1>1 DEF val
<1>4. <<>> \in Seq(Bios!Attrs \X (BiosValues \cup {BiosDefault})) /\ DOMAIN <<>> = {}
  OBVIOUS
<1> QED
  BY <1>2, <1>3, <1>4 DEF Bios!Agrees, Bios!Checked

LEMMA BiosInit == Bios!Init => Bios!BiosInv
<1> SUFFICES ASSUME Bios!Init PROVE Bios!Agrees(Bios!Now, v5, v6)
  BY DEF Bios!BiosInv
<1>1. /\ v3 \in [Bios!Attrs -> BiosValues] /\ v2 = v1.val /\ v4 = <<>> /\ v5 = {}
      /\ v1 = [string |-> Bios!Attrs, attr |-> Bios!Attrs, val |-> Bios!Constructed(<<>>, v3)]
  BY DEF Bios!Init
<1> DEFINE s == Bios!Now
<1>2. /\ DOMAIN s = {"tables", "base", "dbus", "signals", "ok"}
      /\ s.tables = v1 /\ s.base = v2 /\ s.dbus = v3 /\ s.signals = v4
  BY DEF Bios!Now
<1> HIDE DEF s
<1>3. Bios!Agrees(s, v5, v6)
  BY <1>1, <1>2, BuiltAgrees
<1> QED
  BY <1>3 DEF s

\* A step of the state becomes z.
LEMMA BiosNext == Bios!BiosInv /\ [Bios!Next]_Bios!vars => Bios!BiosInv'
<1> SUFFICES ASSUME Bios!BiosInv, [Bios!Next]_Bios!vars PROVE Bios!BiosInv'
  OBVIOUS
<1> DEFINE now == Bios!Now
           next == [tables |-> v1', base |-> v2', dbus |-> v3', signals |-> v4', ok |-> TRUE]
           Fields == {"tables", "base", "dbus", "signals", "ok"}
           Goal == Bios!Agrees(next, v5', v6')
<1>0. Bios!Agrees(now, v5, v6)
  BY DEF Bios!BiosInv
<1>00. SUFFICES Goal
  BY DEF Bios!BiosInv, Bios!Now, Bios!Agrees, Bios!Checked, Bios!Overtaken, Bios!Notifying, Bios!Attrs
<1>1. /\ DOMAIN now = Fields /\ now.tables = v1 /\ now.base = v2 /\ now.dbus = v3 /\ now.signals = v4
      /\ now = Bios!Now
  BY DEF Bios!Now
<1>2. /\ DOMAIN next = Fields /\ next.tables = v1' /\ next.base = v2' /\ next.dbus = v3'
      /\ next.signals = v4'
  OBVIOUS
<1> HIDE DEF now, next
<1>3. /\ DOMAIN v3 = Bios!Attrs /\ v4 \in Seq(Bios!Attrs \X BiosV)
      /\ DOMAIN v1 = {"string", "attr", "val"} /\ v1.attr \subseteq Bios!Attrs
  BY <1>0, <1>1 DEF Bios!Agrees, BiosV
\* The sets of one attribute or many
<1>4. ASSUME NEW z, Bios!Becomes(z), Bios!Agrees(z, v5', v6) PROVE Goal
  <2>1. next.tables = z.tables /\ next.base = z.base /\ next.dbus = z.dbus /\ next.signals = z.signals
        /\ v6' = v6
    BY <1>2, <1>4 DEF Bios!Becomes
  <2> QED
    BY <1>2, <1>4, <2>1, SameAgrees
<1>5. ASSUME Bios!Restart PROVE Goal
  <2>1. PICK known : /\ v1' = [string |-> Bios!Attrs, attr |-> Bios!Attrs,
                                val |-> Bios!Constructed(known, v3)]
                     /\ v4' = <<>> /\ v5' = {} /\ v3' = v3
                     /\ ~v6' => v2' = v1'.val
    BY <1>5 DEF Bios!Restart, Bios!Built
  <2> QED
    BY <1>2, <1>3, <2>1, BuiltAgrees
<1>6. ASSUME Bios!HostSetsAttribute PROVE Goal
  <2>1. PICK a \in Bios!Attrs, v \in BiosValues, fails \in BOOLEAN :
          LET z == Bios!SetAttrValue(now, a, v, TRUE, fails)
          IN  Bios!Becomes(z) /\ v5' = IF z.ok THEN v5 \cup {a} ELSE v5
    BY <1>1, <1>6 DEF Bios!HostSetsAttribute
  <2> DEFINE z == Bios!SetAttrValue(now, a, v, TRUE, fails)
  <2>2. v \in BiosV
    BY DEF BiosV
  <2>3. /\ Bios!Agrees(z, IF CanSet(now, a, v, fails) THEN v5 \cup {a} ELSE v5, v6)
        /\ z.ok <=> CanSet(now, a, v, fails)
    BY <1>0, <2>2, SetThroughDbus
  <2> HIDE DEF z
  <2>4. Bios!Becomes(z) /\ v5' = IF z.ok THEN v5 \cup {a} ELSE v5
    BY <2>1 DEF z
  <2>5. v5' = IF CanSet(now, a, v, fails) THEN v5 \cup {a} ELSE v5
    BY <2>3, <2>4
  <2> HIDE DEF Goal
  <2> QED
    BY <1>4, <2>3, <2>4, <2>5
<1>7. ASSUME Bios!PendingAttributes PROVE Goal
  <2>0. PICK S \in SUBSET Bios!Attrs :
          \E c \in [S -> [value : BiosValues, dbusFails : BOOLEAN]] :
          LET set(t, a) == Bios!SetAttrValue(t, a, Bios!OrDefault(a, c[a].value), TRUE, c[a].dbusFails)
              z == Bios!FoldLeft(set, now, Bios!SetToSeq(S))
          IN  Bios!Becomes(z) /\ v5' = v5 \cup {a \in S : set(now, a).ok}
    BY <1>7 DEF Bios!PendingAttributes, now
  <2>1. PICK c \in [S -> [value : BiosValues, dbusFails : BOOLEAN]] :
          LET set(t, a) == Bios!SetAttrValue(t, a, Bios!OrDefault(a, c[a].value), TRUE, c[a].dbusFails)
              z == Bios!FoldLeft(set, now, Bios!SetToSeq(S))
          IN  Bios!Becomes(z) /\ v5' = v5 \cup {a \in S : set(now, a).ok}
    BY <2>0
  <2> DEFINE z == Sets!Fold(now, Bios!SetToSeq(S), c)
             W(a) == Bios!OrDefault(a, c[a].value)
  <2>2. /\ Bios!Becomes(z)
        /\ v5' = v5 \cup {a \in S : Bios!SetAttrValue(now, a, W(a), TRUE, c[a].dbusFails).ok}
    BY <2>1, SetsFold
  <2>3. ASSUME NEW a \in S
        PROVE  Bios!SetAttrValue(now, a, W(a), TRUE, c[a].dbusFails).ok
                 <=> CanSet(now, a, W(a), c[a].dbusFails)
    <3>1. W(a) \in BiosV /\ a \in Bios!Attrs
      BY DEF Bios!OrDefault, BiosV
    <3> HIDE DEF W
    <3> QED
      BY <1>0, <3>1, SetThroughDbus
  <2>4. v5' = v5 \cup {a \in S : CanSet(now, a, W(a), c[a].dbusFails)}
    <3> HIDE DEF W
    <3> QED
      BY <2>2, <2>3
  <2>5. Bios!Agrees(z, v5 \cup {a \in S : CanSet(now, a, W(a), c[a].dbusFails)}, v6)
    <3>1. IsFiniteSet(S)
      BY BiosAssumption, FS_Subset DEF Bios!Attrs
    <3> QED
      BY <1>0, <3>1, PendingSet
  <2> HIDE DEF z, Goal, W
  <2> QED
    BY <1>4, <2>2, <2>4, <2>5
<1>8. ASSUME Bios!PropertyChanges PROVE Goal
  <2>1. PICK a \in Bios!Attrs, v \in BiosValues :
          /\ v # v3[a] /\ v3' = [v3 EXCEPT ![a] = v] /\ v4' = Append(v4, <<a, v>>)
          /\ v1' = v1 /\ v2' = v2 /\ v5' = v5 /\ v6' = v6
    BY <1>8 DEF Bios!PropertyChanges
  <2>2. v \in BiosV /\ Heard(now)
    BY <1>0 DEF BiosV, Heard, Bios!Agrees
  <2>3. LET c == Bios!Changed(now.dbus, now.signals, a, v)
        IN  next.dbus = c.dbus /\ next.signals = c.signals
    BY <1>1, <1>2, <2>1 DEF Bios!Changed
  <2>4. /\ Heard(next)
        /\ \A b \in Bios!Attrs \ {a} : next.dbus[b] = now.dbus[b]
        /\ \A b : Bios!Notifying(now, b) => Bios!Notifying(next, b)
    BY <2>2, <2>3, DbusWritten
  <2>5. Bios!Notifying(next, a)
    <3> DEFINE q == v4
    <3>1. next.signals = Append(q, <<a, v>>) /\ q \in Seq(Bios!Attrs \X BiosV)
      BY <1>2, <1>3, <2>1
    <3> DEFINE p == Append(q, <<a, v>>)
    <3>2. Len(q) + 1 \in DOMAIN p /\ p[Len(q) + 1] = <<a, v>>
      <4> DEFINE A == Bios!Attrs \X BiosV
                 e == <<a, v>>
      <4>1. e \in A
        BY <2>2
      <4> HIDE DEF A, e
      <4>2. q \in Seq(A)
        BY <3>1 DEF A
      <4> QED
        BY <4>1, <4>2 DEF e
    <3> HIDE DEF p
    <3>3. p[Len(q) + 1][1] = a
      BY <3>2
    <3> QED
      BY <3>1, <3>2, <3>3 DEF Bios!Notifying, p
  <2>6. /\ next.tables = now.tables /\ next.base = now.base /\ v5' = v5 /\ v6' = v6
    BY <1>1, <1>2, <2>1
  <2>7. /\ DOMAIN now.tables = {"string", "attr", "val"} /\ now.tables.attr \subseteq Bios!Attrs
        /\ v5 \subseteq DOMAIN now.tables.val
        /\ ~v6 => /\ Bios!Checked(now.tables, now.tables.val)
                  /\ \A b \in DOMAIN now.tables.val :
                       /\ now.tables.val[b] \in BiosValid =>
                            b \in DOMAIN now.base /\ now.base[b] = now.tables.val[b]
                       /\ b \in v5 => Bios!Notifying(now, b) \/ now.tables.val[b] = now.dbus[b]
    BY <1>0 DEF Bios!Agrees
  <2>8. ~v6 => \A b \in DOMAIN now.tables.val :
          b \in v5 => Bios!Notifying(next, b) \/ now.tables.val[b] = next.dbus[b]
    BY <2>4, <2>5, <2>7 DEF Bios!Checked
  <2> QED
    BY <1>2, <2>4, <2>6, <2>7, <2>8 DEF Bios!Agrees, Heard, BiosV
<1>9. ASSUME Bios!Notification PROVE Goal
  <2> DEFINE a == now.signals[1][1]
             v == now.signals[1][2]
             new == [now.tables.val EXCEPT ![a] = v]
             rest == [now EXCEPT !.signals = Tail(v4)]
             stored == [rest EXCEPT !.tables.val = IF a \in DOMAIN @ THEN [@ EXCEPT ![a] = v] ELSE @]
             ignored == a \notin v1.attr \cap v1.string \/ (BiosKinds[a] = "enum" /\ v \notin BiosValid)
  <2>1. PICK z : /\ v4 # <<>> /\ Bios!Becomes(z)
                 /\ v5' = IF z.ok THEN v5 \cup {a} ELSE v5 \ {a}
                 /\ z = IF ignored THEN [rest EXCEPT !.ok = FALSE]
                        ELSE Bios!SetAttrValue(stored, a, v, FALSE, FALSE)
    BY <1>1, <1>9 DEF Bios!Notification, Bios!Notified
  <2>2. /\ DOMAIN rest = Fields /\ rest.tables = v1 /\ rest.base = v2 /\ rest.dbus = v3
        /\ rest.signals = Tail(v4)
    BY <1>1
  <2> HIDE DEF rest, ignored, a, v
  <2>3. /\ DOMAIN stored = Fields /\ stored.base = v2 /\ stored.dbus = v3 /\ stored.signals = Tail(v4)
        /\ stored.tables = [v1 EXCEPT !.val = IF a \in DOMAIN @ THEN [@ EXCEPT ![a] = v] ELSE @]
    BY <2>2
  <2>4. new = [v1.val EXCEPT ![a] = v] /\ DOMAIN new = DOMAIN v1.val
    BY <1>1
  <2>5. /\ DOMAIN stored.tables = {"string", "attr", "val"}
        /\ stored.tables.string = v1.string /\ stored.tables.attr = v1.attr
        /\ stored.tables.val = IF a \in DOMAIN v1.val THEN new ELSE v1.val
    <3> HIDE DEF stored
    <3> QED
      BY <1>3, <2>3, <2>4
  <2> HIDE DEF new, stored
  <2> DEFINE Settles(y, g) ==
        /\ DOMAIN y.tables = {"string", "attr", "val"}
        /\ y.tables.string = v1.string /\ y.tables.attr = v1.attr
        /\ y.dbus = v3 /\ y.signals = Tail(v4)
        /\ \/ y.tables.val = v1.val /\ y.base = v2 /\ g = v5 \ {a}
           \/ y.tables.val = new /\ v \notin BiosValid /\ y.base = v2 /\ g = v5 \ {a}
           \/ /\ y.tables.val = new /\ g = v5 \cup {a} /\ a \in DOMAIN v1.val
              /\ y.base = y.tables.val \/ ~Bios!Checked(v1, y.tables.val)
  <2>6. Settles(z, v5')
    <3>1. CASE ignored
      <4>1. z = [rest EXCEPT !.ok = FALSE]
        BY <2>1, <3>1
      <4>2. /\ z.tables = v1 /\ z.base = v2 /\ z.dbus = v3 /\ z.signals = Tail(v4) /\ z.ok = FALSE
        BY <2>2, <4>1
      <4> QED
        BY <1>3, <2>1, <4>2
    <3>2. CASE ~ignored /\ (a \notin DOMAIN v1.val \/ v \notin BiosValid)
      <4>1. z = [stored EXCEPT !.ok = FALSE]
        <5>1. a \notin stored.tables.attr \cap stored.tables.string \cap DOMAIN stored.tables.val
              \/ v \notin BiosValid
          BY <2>4, <2>5, <3>2
        <5> QED
          BY <2>1, <3>2, <5>1 DEF Bios!SetAttrValue
      <4>2. /\ z.tables = stored.tables /\ z.base = v2 /\ z.dbus = v3 /\ z.signals = Tail(v4)
            /\ z.ok = FALSE
        BY <2>3, <4>1
      <4>3. v5' = v5 \ {a}
        BY <2>1, <4>2
      <4> QED
        BY <2>5, <3>2, <4>2, <4>3
    <3>3. CASE ~ignored /\ a \in DOMAIN v1.val /\ v \in BiosValid
      <4> DEFINE new2 == [stored.tables.val EXCEPT ![a] = v]
      <4>1. a \in stored.tables.attr \cap stored.tables.string \cap DOMAIN stored.tables.val
        BY <2>4, <2>5, <3>3 DEF ignored
      <4>2. z = [tables |-> [stored.tables EXCEPT
                               !.val = IF Bios!Checked(stored.tables, new2) THEN new2 ELSE @],
                 base |-> IF Bios!Checked(stored.tables, new2) THEN new2 ELSE stored.base,
                 dbus |-> stored.dbus, signals |-> stored.signals, ok |-> TRUE]
        BY <2>1, <3>3, <4>1 DEF Bios!SetAttrValue
      <4>3. /\ z.tables = [stored.tables EXCEPT
                               !.val = IF Bios!Checked(stored.tables, new2) THEN new2 ELSE @]
            /\ z.base = IF Bios!Checked(stored.tables, new2) THEN new2 ELSE v2
            /\ z.dbus = v3 /\ z.signals = Tail(v4) /\ z.ok
        <5> HIDE DEF new2
        <5> QED
          BY <2>3, <4>2
      <4>4. stored.tables.val = new /\ new2 = new
        <5>1. stored.tables.val = new
          BY <2>5, <3>3
        <5>2. new2 = [new EXCEPT ![a] = v]
          BY <5>1
        <5>3. [new EXCEPT ![a] = v] = new
          <6> DEFINE w == v1.val
          <6> HIDE DEF w
          <6>1. new = [w EXCEPT ![a] = v] /\ a \in DOMAIN w
            BY <2>4, <3>3 DEF w
          <6> QED
            BY <6>1
        <5> QED
          BY <5>1, <5>2, <5>3
      <4> HIDE DEF new2
      <4>5. z.tables.val = new /\ DOMAIN z.tables = {"string", "attr", "val"}
            /\ z.tables.string = v1.string /\ z.tables.attr = v1.attr
        BY <2>5, <4>3, <4>4
      <4>6. z.base = new \/ ~Bios!Checked(v1, new)
        BY <2>5, <4>3, <4>4 DEF Bios!Checked
      <4>7. v5' = v5 \cup {a}
        BY <2>1, <4>3
      <4> QED
        BY <3>3, <4>3, <4>5, <4>6, <4>7
    <3> QED
      BY <3>1, <3>2, <3>3
  <2>7. /\ next.tables = z.tables /\ next.base = z.base /\ next.dbus = z.dbus
        /\ next.signals = z.signals /\ v6' = v6 /\ v4 # <<>>
    BY <1>2, <2>1 DEF Bios!Becomes
  <2>8. Settles(next, v5')
    BY <2>6, <2>7
  <2>9. /\ next.tables.string = now.tables.string /\ next.tables.attr = now.tables.attr
        /\ DOMAIN next.tables = {"string", "attr", "val"}
        /\ next.dbus = now.dbus /\ next.signals = Tail(now.signals) /\ now.signals # <<>>
        /\ \/ next.tables.val = now.tables.val /\ next.base = now.base /\ v5' = v5 \ {a}
           \/ next.tables.val = new /\ v \notin BiosValid /\ next.base = now.base /\ v5' = v5 \ {a}
           \/ /\ next.tables.val = new /\ v5' = v5 \cup {a} /\ a \in DOMAIN now.tables.val
              /\ next.base = next.tables.val \/ ~Bios!Checked(now.tables, next.tables.val)
    BY <1>1, <2>7, <2>8
  <2>10. Bios!Agrees(next, v5', v6)
    BY <1>0, <1>2, <2>9, NotificationSettles DEF a, v, new
  <2> QED
    BY <2>7, <2>10
<1>10. ASSUME Bios!HostSetsTable PROVE Goal
  <2>1. /\ DOMAIN now.tables = {"string", "attr", "val"} /\ now.tables.attr \subseteq Bios!Attrs
        /\ v5 \subseteq DOMAIN now.tables.val
        /\ ~v6 => /\ Bios!Checked(now.tables, now.tables.val)
                  /\ \A b \in DOMAIN now.tables.val :
                       /\ now.tables.val[b] \in BiosValid =>
                            b \in DOMAIN now.base /\ now.base[b] = now.tables.val[b]
                       /\ b \in v5 => Bios!Notifying(now, b) \/ now.tables.val[b] = now.dbus[b]
        /\ Heard(now)
    BY <1>0 DEF Bios!Agrees, Heard, BiosV
  <2> DEFINE Offered == {{a} : a \in Bios!Attrs} \cup {Bios!Attrs}
  <2>0. \A A \in Offered : A \subseteq Bios!Attrs
    OBVIOUS
  <2>2. /\ DOMAIN v1' = {"string", "attr", "val"} /\ v1'.attr \subseteq Bios!Attrs
        /\ v3' = v3 /\ v4' = v4 /\ v6' = (v6 \/ ~Bios!Checked(v1', v1'.val))
        /\ \/ v1'.val = v1.val /\ v2' = v2 /\ v5' = v5
           \/ v2' = v1'.val /\ v5' \subseteq {a \in v5 \cap DOMAIN v1'.val : v1.val[a] = v1'.val[a]}
              /\ v1'.attr = v1.attr /\ v1'.string = v1.string /\ Bios!Checked(v1, v1'.val)
    <3>1. v3' = v3 /\ v4' = v4 /\ v6' = (v6 \/ ~Bios!Checked(v1', v1'.val))
      BY <1>10 DEF Bios!HostSetsTable
    <3>2. CASE \E A \in Offered : v1' = [v1 EXCEPT !.string = A] /\ v2' = v2 /\ v5' = v5
      BY <1>3, <3>1, <3>2
    <3>3. CASE \E A \in Offered : v1' = [v1 EXCEPT !.attr = A] /\ v2' = v2 /\ v5' = v5
      <4>1. PICK A \in Offered : v1' = [v1 EXCEPT !.attr = A] /\ v2' = v2 /\ v5' = v5
        BY <3>3
      <4>2. A \subseteq Bios!Attrs
        BY <2>0
      <4> HIDE DEF Offered
      <4> QED
        BY <1>3, <3>1, <4>1, <4>2
    <3>4. CASE \E A \in Offered : \E val \in [A -> BiosValid] :
                 /\ Bios!Checked(v1, val) /\ v1' = [v1 EXCEPT !.val = val] /\ v2' = val
                 /\ v5' = {a \in v5 \cap A : v1.val[a] = val[a]}
      <4>0. PICK A \in Offered : \E val \in [A -> BiosValid] :
                 /\ Bios!Checked(v1, val) /\ v1' = [v1 EXCEPT !.val = val] /\ v2' = val
                 /\ v5' = {a \in v5 \cap A : v1.val[a] = val[a]}
        BY <3>4
      <4>1. PICK val \in [A -> BiosValid] :
                 /\ Bios!Checked(v1, val) /\ v1' = [v1 EXCEPT !.val = val] /\ v2' = val
                 /\ v5' = {a \in v5 \cap A : v1.val[a] = val[a]}
        BY <4>0
      <4>2. DOMAIN val = A
        BY <4>1
      <4> HIDE DEF Offered
      <4>3. v1'.val = val /\ v1'.attr = v1.attr /\ v1'.string = v1.string
            /\ DOMAIN v1' = {"string", "attr", "val"}
        BY <1>3, <4>1
      <4> QED
        BY <1>3, <3>1, <4>1, <4>2, <4>3
    <3>5. \/ \E A \in Offered : v1' = [v1 EXCEPT !.string = A] /\ v2' = v2 /\ v5' = v5
          \/ \E A \in Offered : v1' = [v1 EXCEPT !.attr = A] /\ v2' = v2 /\ v5' = v5
          \/ \E A \in Offered : \E val \in [A -> BiosValid] :
                 /\ Bios!Checked(v1, val) /\ v1' = [v1 EXCEPT !.val = val] /\ v2' = val
                 /\ v5' = {a \in v5 \cap A : v1.val[a] = val[a]}
      BY <1>10, Zenon DEF Bios!HostSetsTable
    <3> QED
      BY <3>2, <3>3, <3>4, <3>5
  <2>3. /\ Heard(next) /\ \A b : Bios!Notifying(now, b) <=> Bios!Notifying(next, b)
    BY <1>1, <1>2, <2>1, <2>2 DEF Heard, Bios!Overtaken, Bios!Notifying
  <2>4. ASSUME ~v6'
        PROVE  /\ Bios!Checked(next.tables, next.tables.val)
               /\ \A b \in DOMAIN next.tables.val :
                    /\ next.tables.val[b] \in BiosValid =>
                         b \in DOMAIN next.base /\ next.base[b] = next.tables.val[b]
                    /\ b \in v5' => Bios!Notifying(next, b) \/ next.tables.val[b] = next.dbus[b]
    <3>1. ~v6 /\ Bios!Checked(next.tables, next.tables.val)
      BY <1>2, <2>2, <2>4
    <3>2. CASE v1'.val = v1.val /\ v2' = v2 /\ v5' = v5
      BY <1>1, <1>2, <2>1, <2>2, <2>3, <3>1, <3>2
    <3>3. CASE v2' = v1'.val /\ v5' \subseteq {a \in v5 \cap DOMAIN v1'.val : v1.val[a] = v1'.val[a]}
      <4>1. \A b \in v5' : b \in v5 /\ v1.val[b] = v1'.val[b]
        BY <3>3
      <4>2. \A b \in v5' : Bios!Notifying(next, b) \/ v1'.val[b] = v3'[b]
        BY <1>1, <1>2, <2>1, <2>2, <2>3, <3>1, <4>1
      <4> QED
        BY <1>1, <1>2, <2>1, <2>2, <2>3, <3>1, <3>3, <4>1, <4>2
    <3> QED
      BY <2>2, <3>2, <3>3
  <2> QED
    <3>1. v5' \subseteq DOMAIN next.tables.val
      BY <1>1, <1>2, <2>1, <2>2
    <3> QED
      BY <1>2, <2>2, <2>3, <2>4, <3>1 DEF Bios!Agrees, Heard, BiosV
<1>11. ASSUME UNCHANGED Bios!vars PROVE Goal
  <2>1. next = now /\ v5' = v5 /\ v6' = v6
    BY <1>11 DEF Bios!vars, Bios!Now, now, next
  <2> QED
    BY <1>0, <2>1
<1> HIDE DEF Goal
<1> QED
  <2>1. CASE Bios!Next
    BY <1>5, <1>6, <1>7, <1>8, <1>9, <1>10, <2>1 DEF Bios!Next
  <2>2. CASE UNCHANGED Bios!vars
    BY <1>11, <2>2
  <2> QED
    BY <2>1, <2>2

LEMMA BiosSafe == Bios!BiosInv => Bios!BaseFollowsTable /\ Bios!TableFollowsDbus
<1> SUFFICES ASSUME Bios!Agrees(Bios!Now, v5, v6)
             PROVE  Bios!BaseFollowsTable /\ Bios!TableFollowsDbus
  BY DEF Bios!BiosInv
<1> DEFINE s == Bios!Now
<1>1. s.tables = v1 /\ s.base = v2 /\ s.dbus = v3 /\ s.signals = v4
  BY DEF Bios!Now
<1> HIDE DEF s
<1>2. ~v6 => \A a \in DOMAIN v1.val :
            /\ v1.val[a] \in BiosValid => a \in DOMAIN v2 /\ v2[a] = v1.val[a]
            /\ a \in v5 => Bios!Notifying(s, a) \/ v1.val[a] = v3[a]
  BY <1>1 DEF Bios!Agrees, s
<1>3. ASSUME v4 = <<>>, NEW a PROVE ~Bios!Notifying(s, a)
  BY <1>1, <1>3 DEF Bios!Notifying
<1> QED
  BY <1>2, <1>3 DEF Bios!BaseFollowsTable, Bios!TableFollowsDbus

LEMMA BiosStays ==
  (component = "bios" => Bios!BiosInv) /\ [ResponderNext]_vars
    => (component = "bios" => Bios!BiosInv)'
<1> SUFFICES ASSUME component' = "bios", [ResponderNext]_vars,
                    component = "bios" => Bios!BiosInv
             PROVE  Bios!BiosInv'
  OBVIOUS
<1>1. CASE BiosStep
  BY <1>1, BiosNext DEF BiosStep, Only
<1>2. CASE UNCHANGED vars
  BY <1>2, BiosNext, OthersElsewhere DEF vars, Bios!vars
<1> QED
  BY <1>1, <1>2, OthersElsewhere

-----------------------------------------------------------------------------
\* FruPdr: v1 is present, v2 is fru, v3 is node, v4 is repo, v5 is pdrCreated,
\* v6 is answer, v7 is late.

LEMMA SameCardinality == \A S : Fru!Cardinality(S) = Cardinality(S)
  BY DEF Cardinality, Fru!Cardinality

FruPdrCount(r) == Cardinality(Fru!FruPdrs(r))

\* Appending a record
LEMMA RecordAppended ==
  ASSUME NEW r \in Seq(Fru!Record), NEW p \in Fru!Record
  PROVE  /\ Append(r, p) \in Seq(Fru!Record) /\ Len(Append(r, p)) = Len(r) + 1
         /\ Fru!Numbered(r) /\ p.handle = Len(r) + 1 => Fru!Numbered(Append(r, p))
         /\ Cardinality(Fru!FruPdrs(Append(r, p)))
              = Cardinality(Fru!FruPdrs(r)) + (IF p.kind = "fru" THEN 1 ELSE 0)
<1> DEFINE q == Append(r, p)
           R == Fru!Record
<1> HIDE DEF R
<1>1. /\ q \in Seq(R) /\ Len(q) = Len(r) + 1 /\ Len(r) \in Nat
      /\ DOMAIN r = 1..Len(r) /\ DOMAIN q = 1..(Len(r) + 1)
      /\ \A i \in 1..Len(r) : q[i] = r[i]
      /\ q[Len(r) + 1] = p
  <2>1. r \in Seq(R) /\ p \in R
    BY DEF R
  <2> QED
    BY <2>1
<1> HIDE DEF q
<1>2. Fru!Numbered(r) /\ p.handle = Len(r) + 1 => Fru!Numbered(q)
  BY <1>1 DEF Fru!Numbered
<1>3. IsFiniteSet(Fru!FruPdrs(r)) /\ Cardinality(Fru!FruPdrs(r)) \in Nat
  <2>1. IsFiniteSet(1..Len(r))
    BY <1>1, FS_Interval
  <2>2. Fru!FruPdrs(r) \subseteq 1..Len(r)
    BY <1>1 DEF Fru!FruPdrs
  <2> QED
    BY <2>1, <2>2, FS_Subset, FS_CardinalityType
<1>4. CASE p.kind = "fru"
  <2>1. Fru!FruPdrs(q) = Fru!FruPdrs(r) \cup {Len(r) + 1} /\ Len(r) + 1 \notin Fru!FruPdrs(r)
    BY <1>1, <1>4 DEF Fru!FruPdrs
  <2>2. Cardinality(Fru!FruPdrs(q)) = Cardinality(Fru!FruPdrs(r)) + 1
    BY <1>3, <2>1, FS_AddElement
  <2> QED
    BY <1>1, <1>2, <1>4, <2>2 DEF q, R
<1>5. CASE p.kind # "fru"
  <2>1. Fru!FruPdrs(q) = Fru!FruPdrs(r)
    BY <1>1, <1>5 DEF Fru!FruPdrs
  <2> QED
    BY <1>1, <1>2, <1>3, <1>5, <2>1 DEF q, R
<1> QED
  BY <1>4, <1>5

\* What pldm_pdr_add adds
Kinds == {"locator", "generated", "assoc"}

LEMMA OneAdded ==
  ASSUME NEW r \in Seq(Fru!Record), NEW kind \in Kinds
  PROVE  LET z == Fru!Added(r, kind) IN
         /\ z \in Seq(Fru!Record) /\ (Fru!Numbered(r) => Fru!Numbered(z))
         /\ FruPdrCount(z) = FruPdrCount(r)
<1> DEFINE p == [handle |-> Fru!NewHandle(r), kind |-> kind]
<1>1. Len(r) \in Nat /\ DOMAIN r = 1..Len(r) /\ (Fru!Numbered(r) => Fru!NewHandle(r) = Len(r) + 1)
      /\ Fru!NewHandle(r) \in Nat
  <2>1. CASE r = <<>>
    BY <2>1 DEF Fru!NewHandle
  <2>2. CASE r # <<>>
    <3> DEFINE R == Fru!Record
    <3>1. \A x \in R : x.handle \in Nat
      BY DEF Fru!Record
    <3>2. r \in Seq(R)
      OBVIOUS
    <3> HIDE DEF R
    <3>3. Len(r) \in Nat \ {0} /\ DOMAIN r = 1..Len(r) /\ r[Len(r)] \in R
      BY <2>2, <3>2
    <3>4. Fru!Last(r) = r[Len(r)]
      BY DEF Fru!Last
    <3> QED
      BY <2>2, <3>1, <3>3, <3>4 DEF Fru!NewHandle, Fru!Numbered
  <2> QED
    BY <2>1, <2>2
<1>2. p \in Fru!Record /\ p.handle = Fru!NewHandle(r) /\ p.kind = kind
  BY <1>1 DEF Fru!Record, Kinds
<1>3. Fru!Added(r, kind) = Append(r, p)
  BY DEF Fru!Added
<1> HIDE DEF p
<1>4. FruPdrCount(r) \in Nat
  <2>1. IsFiniteSet(1..Len(r))
    BY <1>1, FS_Interval
  <2>2. Fru!FruPdrs(r) \subseteq 1..Len(r)
    BY <1>1 DEF Fru!FruPdrs
  <2> QED
    BY <2>1, <2>2, FS_Subset, FS_CardinalityType DEF FruPdrCount
<1>5. /\ Append(r, p) \in Seq(Fru!Record)
      /\ Fru!Numbered(r) /\ p.handle = Len(r) + 1 => Fru!Numbered(Append(r, p))
      /\ Cardinality(Fru!FruPdrs(Append(r, p))) = Cardinality(Fru!FruPdrs(r)) + 0
  <2>1. kind # "fru"
    BY DEF Kinds
  <2> QED
    BY <1>2, <2>1, RecordAppended
<1> QED
  BY <1>1, <1>2, <1>3, <1>4, <1>5 DEF FruPdrCount, Kinds

Adds == INSTANCE FoldInduction WITH Op <- LAMBDA r, kind, none : Fru!Added(r, kind)

LEMMA AddsFold ==
  ASSUME NEW r, NEW q
  PROVE  Fru!FoldLeft(Fru!Added, r, q) = Adds!Fold(r, q, 0)
  BY DEF Fru!FoldLeft, Fru!MapThenFoldSet, Fru!Max,
    Adds!Fold, Adds!Iter, Adds!Solves, Adds!Step, Adds!Largest

LEMMA AllAdded ==
  ASSUME NEW r \in Seq(Fru!Record), NEW q, NEW n \in Nat, DOMAIN q = 1..n,
         \A i \in 1..n : q[i] \in Kinds
  PROVE  LET z == Fru!FoldLeft(Fru!Added, r, q) IN
         /\ z \in Seq(Fru!Record) /\ (Fru!Numbered(r) => Fru!Numbered(z))
         /\ FruPdrCount(z) = FruPdrCount(r)
<1> DEFINE I == [k \in 0..n |-> {z \in Seq(Fru!Record) :
                   (Fru!Numbered(r) => Fru!Numbered(z)) /\ FruPdrCount(z) = FruPdrCount(r)}]
<1>1. r \in I[0]
  OBVIOUS
<1>2. ASSUME NEW k \in 1..n, NEW x \in I[k-1] PROVE Fru!Added(x, q[k]) \in I[k]
  <2>1. k - 1 \in 0..n
    OBVIOUS
  <2>2. x \in Seq(Fru!Record) /\ (Fru!Numbered(r) => Fru!Numbered(x)) /\ FruPdrCount(x) = FruPdrCount(r)
    BY <2>1
  <2>3. LET z == Fru!Added(x, q[k]) IN
        /\ z \in Seq(Fru!Record) /\ (Fru!Numbered(x) => Fru!Numbered(z))
        /\ FruPdrCount(z) = FruPdrCount(x)
    BY <2>2, OneAdded
  <2> QED
    BY <2>2, <2>3
<1>3. Adds!Fold(r, q, 0) \in I[n]
  <2>1. \A k \in 1..n : \A x \in I[k-1] : Fru!Added(x, q[k]) \in I[k]
    BY <1>2
  <2> HIDE DEF I
  <2> QED
    BY <1>1, <2>1, Adds!FoldInvariant
<1> QED
  BY <1>3, AddsFold

LEMMA PdrsGenerated ==
  ASSUME NEW r \in Seq(Fru!Record)
  PROVE  LET z == Fru!GeneratePdrs(r) IN
         /\ z \in Seq(Fru!Record) /\ (Fru!Numbered(r) => Fru!Numbered(z))
         /\ FruPdrCount(z) = FruPdrCount(r)
<1> DEFINE K == Kinds
           a == <<"locator">>
           b == [i \in 1..GeneratedPdrs |-> "generated"]
           q == a \o b
<1>1. GeneratedPdrs \in Nat
  BY FruAssumption
<1>2. a \in Seq(K) /\ b \in Seq(K)
  <2>1. "locator" \in K /\ "generated" \in K
    BY DEF Kinds
  <2> HIDE DEF K
  <2>2. a \in Seq(K)
    BY <2>1
  <2>3. b \in Seq(K)
    BY <1>1, <2>1
  <2> QED
    BY <2>2, <2>3
<1> HIDE DEF a, b, K
<1>3. q \in Seq(K)
  BY <1>2, ConcatProperties
<1> HIDE DEF q
<1>4. Len(q) \in Nat /\ DOMAIN q = 1..Len(q) /\ \A i \in 1..Len(q) : q[i] \in K
  BY <1>3
<1>5. Fru!GeneratePdrs(r) = Fru!FoldLeft(Fru!Added, r, q)
  BY DEF Fru!GeneratePdrs, q, a, b
<1> QED
  BY <1>4, <1>5, AllAdded DEF K

\* One object: a record set and its PDR, when it has records.
Populates(s, t, numbered) ==
  /\ DOMAIN t = {"fru", "node", "repo"}
  /\ Fru!Counted(t.fru, t.repo) /\ t.fru.isBuilt = s.fru.isBuilt
  /\ numbered => t.fru.rh = Len(t.repo) /\ Fru!Numbered(t.repo)

LEMMA ObjectsKnown ==
  ASSUME NEW n \in Fru!Names
  PROVE  Fru!Object(n).records \in Seq(Nat)
<1> DEFINE O == [name : STRING, type : STRING, parent : STRING, records : Seq(Nat)]
<1>1. \A o \in O : o.records \in Seq(Nat)
  OBVIOUS
<1>2. FruObjects \in Seq(O)
  BY FruAssumption
<1> HIDE DEF O
<1>3. \A i \in DOMAIN FruObjects : FruObjects[i] \in O
  BY <1>2
<1>4. \E o \in Fru!Range(FruObjects) : o.name = n
  BY DEF Fru!Names, Fru!Range
<1>5. Fru!Object(n) \in Fru!Range(FruObjects)
  BY <1>4 DEF Fru!Object
<1> QED
  BY <1>1, <1>3, <1>5 DEF Fru!Range

LEMMA RecordsPopulated ==
  ASSUME NEW s, NEW t, NEW numbered \in BOOLEAN, Populates(s, t, numbered), NEW n \in Fru!Names
  PROVE  Populates(s, Fru!PopulateRecords(t, n), numbered)
<1> DEFINE x == Fru!Object(n).records
           z == Fru!PopulateRecords(t, n)
           k == t.fru.rsi + 1
           p == [handle |-> t.fru.rh + 1, kind |-> "fru"]
           T == Fru!Entry
           b == [i \in DOMAIN x |-> [rsi |-> k, size |-> x[i]]]
<1>1. x \in Seq(Nat)
  BY ObjectsKnown
<1>2. CASE x = <<>>
  BY <1>2 DEF Fru!PopulateRecords
<1>3. CASE x # <<>>
  <2>1. z = [t EXCEPT !.fru.rsi = @ + 1, !.fru.rh = @ + 1, !.repo = Append(@, p),
                      !.fru.table = @ \o b]
    BY <1>3 DEF Fru!PopulateRecords
  <2>2. /\ DOMAIN t = {"fru", "node", "repo"}
        /\ DOMAIN t.fru = {"isBuilt", "table", "rsi", "rh", "padBytes", "checksum"}
        /\ t.fru.rsi \in Nat /\ t.fru.rh \in Nat /\ t.fru.table \in Seq(T)
        /\ Fru!RecordSets(t.fru.table) = 1..t.fru.rsi
        /\ t.repo \in Seq(Fru!Record) /\ Cardinality(Fru!FruPdrs(t.repo)) = t.fru.rsi
        /\ t.fru.isBuilt = s.fru.isBuilt
        /\ numbered => t.fru.rh = Len(t.repo) /\ Fru!Numbered(t.repo)
    BY SameCardinality DEF Populates, Fru!Counted
  <2> HIDE DEF b, p, x, z
  <2>3. /\ DOMAIN z = {"fru", "node", "repo"} /\ z.repo = Append(t.repo, p)
        /\ DOMAIN z.fru = {"isBuilt", "table", "rsi", "rh", "padBytes", "checksum"}
        /\ z.fru.rsi = t.fru.rsi + 1 /\ z.fru.rh = t.fru.rh + 1 /\ z.fru.isBuilt = t.fru.isBuilt
        /\ z.fru.table = t.fru.table \o b
    BY <2>1, <2>2
  <2>4. p \in Fru!Record /\ p.kind = "fru" /\ p.handle = t.fru.rh + 1
    BY <2>2 DEF p, Fru!Record
  <2>5. /\ z.repo \in Seq(Fru!Record) /\ Len(z.repo) = Len(t.repo) + 1
        /\ numbered => Fru!Numbered(z.repo)
        /\ Cardinality(Fru!FruPdrs(z.repo)) = t.fru.rsi + 1
    BY <2>2, <2>3, <2>4, RecordAppended
  <2>6. /\ b \in Seq(T) /\ DOMAIN b = 1..Len(b) /\ Len(b) \in Nat \ {0}
        /\ \A i \in DOMAIN b : b[i].rsi = k
    <3>1. DOMAIN x = 1..Len(x) /\ Len(x) \in Nat \ {0} /\ \A i \in DOMAIN x : x[i] \in Nat
      BY <1>1, <1>3
    <3>2. \A i \in DOMAIN x : [rsi |-> k, size |-> x[i]] \in T
      BY <2>2, <3>1 DEF Fru!Entry
    <3> HIDE DEF T
    <3>3. b \in Seq(T)
      BY <3>1, <3>2 DEF b
    <3>4. DOMAIN b = DOMAIN x /\ \A i \in DOMAIN b : b[i].rsi = k
      BY DEF b
    <3>5. Len(b) = Len(x)
      BY <3>1, <3>3, <3>4
    <3> QED
      BY <3>1, <3>3, <3>4, <3>5
  <2> DEFINE a == t.fru.table
             c == a \o b
  <2>7. /\ c \in Seq(T) /\ DOMAIN a = 1..Len(a) /\ Len(a) \in Nat /\ DOMAIN c = 1..(Len(a) + Len(b))
        /\ \A i \in 1..Len(a) : c[i] = a[i]
        /\ \A i \in 1..Len(b) : c[Len(a) + i] = b[i]
    <3>1. a \in Seq(T) /\ b \in Seq(T)
      BY <2>2, <2>6
    <3> HIDE DEF a, T
    <3> QED
      BY <3>1, ConcatProperties
  <2>8. Fru!RecordSets(c) = 1..k
    <3>1. {a[i].rsi : i \in DOMAIN a} = 1..t.fru.rsi
      BY <2>2 DEF Fru!RecordSets
    <3> HIDE DEF a, c, T
    <3>2. ASSUME NEW i \in DOMAIN c PROVE c[i].rsi \in {a[j].rsi : j \in DOMAIN a} \cup {k}
      <4>1. CASE i \in 1..Len(a)
        BY <2>7, <4>1
      <4>2. CASE i \notin 1..Len(a)
        <5>1. i - Len(a) \in 1..Len(b) /\ Len(a) + (i - Len(a)) = i
          BY <2>6, <2>7, <4>2
        <5> QED
          BY <2>6, <2>7, <5>1
      <4> QED
        BY <4>1, <4>2
    <3>3. ASSUME NEW y \in {a[j].rsi : j \in DOMAIN a} PROVE y \in {c[i].rsi : i \in DOMAIN c}
      <4>1. PICK j \in DOMAIN a : y = a[j].rsi
        OBVIOUS
      <4>2. j \in DOMAIN c /\ c[j] = a[j]
        BY <2>6, <2>7
      <4> QED
        BY <4>1, <4>2
    <3>4. k \in {c[i].rsi : i \in DOMAIN c}
      <4>1. Len(a) + 1 \in DOMAIN c /\ c[Len(a) + 1] = b[1] /\ 1 \in DOMAIN b
        BY <2>6, <2>7
      <4> QED
        BY <2>6, <4>1
    <3>5. {c[i].rsi : i \in DOMAIN c} = {a[j].rsi : j \in DOMAIN a} \cup {k}
      BY <3>2, <3>3, <3>4
    <3>6. 1..k = 1..t.fru.rsi \cup {k}
      BY <2>2
    <3> QED
      BY <3>1, <3>5, <3>6 DEF Fru!RecordSets
  <2>9. Fru!Counted(z.fru, z.repo)
    <3>1. k \in Nat /\ z.fru.rsi = k /\ z.fru.rh \in Nat /\ z.fru.table = c
      BY <2>2, <2>3
    <3> HIDE DEF c, k
    <3> QED
      BY <2>3, <2>5, <2>7, <2>8, <3>1, SameCardinality DEF Fru!Counted, k
  <2>10. numbered => z.fru.rh = Len(z.repo)
    BY <2>2, <2>3, <2>5
  <2> QED
    BY <2>2, <2>3, <2>5, <2>9, <2>10 DEF Populates, z
<1> QED
  BY <1>2, <1>3

\* buildFRUTable, object after object
BuildOne(t, o, c) ==
  IF o.name \notin c.present THEN t
  ELSE LET u == [t EXCEPT !.node = Fru!UpdateAssociationTree(@, o.name)] IN
       IF o.name \in c.unknown THEN u ELSE Fru!PopulateRecords(u, o.name)
Objects == INSTANCE FoldInduction WITH Op <- BuildOne

LEMMA ObjectsFold ==
  ASSUME NEW s, NEW c
  PROVE  LET one(t, o) ==
               IF o.name \notin c.present THEN t
               ELSE LET u == [t EXCEPT !.node = Fru!UpdateAssociationTree(@, o.name)] IN
                    IF o.name \in c.unknown THEN u ELSE Fru!PopulateRecords(u, o.name)
         IN  Fru!FoldLeft(one, s, FruObjects) = Objects!Fold(s, FruObjects, c)
  BY DEF Fru!FoldLeft, Fru!MapThenFoldSet, Fru!Max,
    Objects!Fold, Objects!Iter, Objects!Solves, Objects!Step, Objects!Largest, BuildOne

LEMMA ObjectBuilt ==
  ASSUME NEW s, NEW t, NEW numbered \in BOOLEAN, Populates(s, t, numbered),
         NEW i \in DOMAIN FruObjects, NEW c
  PROVE  Populates(s, BuildOne(t, FruObjects[i], c), numbered)
<1> DEFINE o == FruObjects[i]
           u == [t EXCEPT !.node = Fru!UpdateAssociationTree(@, o.name)]
<1>1. o.name \in Fru!Names
  BY DEF Fru!Names
<1> HIDE DEF o
<1>2. Populates(s, u, numbered)
  <2>1. DOMAIN t = {"fru", "node", "repo"}
    BY DEF Populates
  <2>2. DOMAIN u = {"fru", "node", "repo"} /\ u.fru = t.fru /\ u.repo = t.repo
    BY <2>1
  <2> HIDE DEF u
  <2> QED
    BY <2>2 DEF Populates
<1> HIDE DEF u
<1>3. Populates(s, Fru!PopulateRecords(u, o.name), numbered)
  BY <1>1, <1>2, RecordsPopulated
<1>4. BuildOne(t, o, c) \in {t, u, Fru!PopulateRecords(u, o.name)}
  BY DEF BuildOne, u
<1> QED
  BY <1>2, <1>3, <1>4 DEF o

LEMMA TableBuilt ==
  ASSUME NEW s, NEW numbered \in BOOLEAN, Populates(s, s, numbered), NEW c
  PROVE  LET z == Fru!Build(s, c) IN
         /\ z.fru.isBuilt /\ Fru!Counted(z.fru, z.repo) /\ (numbered => Fru!Numbered(z.repo))
         /\ DOMAIN z = {"fru", "node", "repo"}
<1> DEFINE n == Len(FruObjects)
           r == Objects!Iter(s, FruObjects, c)
           P(k) == Populates(s, r[1..k], numbered)
           K == {k \in Nat : k <= n => P(k)}
           all == Objects!Fold(s, FruObjects, c)
<1>1. n \in Nat /\ DOMAIN FruObjects = 1..n
  <2> DEFINE O == [name : STRING, type : STRING, parent : STRING, records : Seq(Nat)]
  <2>1. FruObjects \in Seq(O)
    BY FruAssumption
  <2> HIDE DEF O
  <2> QED
    BY <2>1
<1>2. /\ r[{}] = s
      /\ \A k \in 1..n : r[1..k] = BuildOne(r[1..(k-1)], FruObjects[k], c)
  <2> HIDE DEF n
  <2> QED
    BY <1>1, Objects!IterSteps
<1> HIDE DEF r, n
<1>3. 0 \in K
  <2>1. 1..0 = {}
    OBVIOUS
  <2> QED
    BY <1>2, <2>1
<1>4. ASSUME NEW k \in K \cap Nat PROVE k + 1 \in K
  <2> SUFFICES ASSUME k + 1 <= n PROVE P(k + 1)
    OBVIOUS
  <2>1. P(k) /\ k + 1 \in 1..n /\ (k + 1) - 1 = k
    BY <1>1
  <2>2. r[1..(k + 1)] = BuildOne(r[1..k], FruObjects[k + 1], c)
    BY <1>2, <2>1
  <2> QED
    BY <1>1, <2>1, <2>2, ObjectBuilt
<1>5. Nat \subseteq K
  <2> HIDE DEF K
  <2> QED
    BY <1>3, <1>4, Objects!InductionOnSet
<1>6. Populates(s, all, numbered)
  <2>1. all = r[1..n]
    BY <1>1 DEF Objects!Fold, r
  <2> QED
    BY <1>1, <1>5, <2>1
<1> HIDE DEF all
<1> DEFINE parents == {m \in Fru!Names : \E j \in DOMAIN all.node : Fru!Object(j).parent = m}
           q == [i \in 1..Cardinality(parents) |-> "assoc"]
           z == [all EXCEPT !.fru.isBuilt = TRUE, !.repo = Fru!FoldLeft(Fru!Added, @, q)]
<1>7. Fru!Build(s, c) = z
  <2>1. Fru!Cardinality(parents) = Cardinality(parents)
    BY SameCardinality
  <2> QED
    BY <2>1, ObjectsFold DEF Fru!Build, all
<1>8. Cardinality(parents) \in Nat
  <2>1. IsFiniteSet(1..n)
    BY <1>1, FS_Interval
  <2>2. IsFiniteSet({FruObjects[i].name : i \in 1..n})
    <3> DEFINE f == [i \in 1..n |-> FruObjects[i].name]
               T == {FruObjects[i].name : i \in 1..n}
    <3>1. f \in Surjection(1..n, T)
      BY DEF Surjection
    <3> HIDE DEF f, T
    <3> QED
      BY <2>1, <3>1, FS_Surjection DEF T
  <2>3. parents \subseteq {FruObjects[i].name : i \in 1..n}
    BY <1>1 DEF Fru!Names
  <2> HIDE DEF parents
  <2> QED
    BY <2>2, <2>3, FS_Subset, FS_CardinalityType
<1> DEFINE m == Cardinality(parents)
<1> HIDE DEF parents
<1>9. DOMAIN q = 1..m /\ \A i \in 1..m : q[i] \in Kinds
  BY DEF Kinds
<1>10. /\ DOMAIN all = {"fru", "node", "repo"}
       /\ Fru!Counted(all.fru, all.repo)
       /\ numbered => Fru!Numbered(all.repo)
  BY <1>6 DEF Populates
<1> HIDE DEF q, m
<1>11. LET y == Fru!FoldLeft(Fru!Added, all.repo, q) IN
       /\ y \in Seq(Fru!Record) /\ (Fru!Numbered(all.repo) => Fru!Numbered(y))
       /\ FruPdrCount(y) = FruPdrCount(all.repo)
  <2>1. all.repo \in Seq(Fru!Record)
    BY <1>10 DEF Fru!Counted
  <2>2. m \in Nat
    BY <1>8 DEF m
  <2> QED
    BY <1>9, <2>1, <2>2, AllAdded
<1> DEFINE y == Fru!FoldLeft(Fru!Added, all.repo, q)
<1>12. z = [all EXCEPT !.fru.isBuilt = TRUE, !.repo = y]
  OBVIOUS
<1> HIDE DEF y, z
<1>13. /\ z.repo = y /\ z.fru = [all.fru EXCEPT !.isBuilt = TRUE]
       /\ DOMAIN z = {"fru", "node", "repo"}
  BY <1>10, <1>12
<1>14. /\ DOMAIN z.fru = DOMAIN all.fru /\ z.fru.isBuilt /\ z.fru.rsi = all.fru.rsi
       /\ z.fru.rh = all.fru.rh /\ z.fru.table = all.fru.table
  <2>1. DOMAIN all.fru = {"isBuilt", "table", "rsi", "rh", "padBytes", "checksum"}
    BY <1>10 DEF Fru!Counted
  <2> QED
    BY <1>13, <2>1
<1>15. Fru!Counted(z.fru, z.repo)
  BY <1>10, <1>11, <1>13, <1>14, SameCardinality DEF Fru!Counted, FruPdrCount, y
<1> QED
  BY <1>7, <1>10, <1>11, <1>13, <1>14, <1>15 DEF y

-----------------------------------------------------------------------------
\* What a command may find or make of the table before it looks at it
LEMMA OutcomeKnown ==
  ASSUME Fru!FruInv, NEW s \in Fru!Outcomes
  PROVE  /\ Fru!Counted(s.fru, s.repo) /\ DOMAIN s = {"fru", "node", "repo"}
         /\ ~s.fru.isBuilt => s.fru.rh = 0 /\ (v5 \/ s.repo = <<>>)
         /\ v7 \/ (v5 /\ ~v2.isBuilt /\ s.fru.isBuilt) \/ Fru!Numbered(s.repo)
<1>1. /\ Fru!Counted(v2, v4) /\ (~v2.isBuilt => v2.rh = 0 /\ (v5 \/ v4 = <<>>))
      /\ v7 \/ Fru!Numbered(v4)
  BY DEF Fru!FruInv
<1> DEFINE now == Fru!Now
<1>2. DOMAIN now = {"fru", "node", "repo"} /\ now.fru = v2 /\ now.repo = v4
  BY DEF Fru!Now
<1>3. CASE s = now
  BY <1>1, <1>2, <1>3
<1>4. CASE ~v2.isBuilt /\ \E u \in SUBSET v1 : s = Fru!Build(now, [present |-> v1, unknown |-> u])
  <2>1. PICK c : s = Fru!Build(now, c)
    BY <1>4
  <2> HIDE DEF now
  <2>2. Populates(now, now, ~v5)
    BY <1>1, <1>2, <1>4 DEF Populates, Fru!Numbered
  <2>3. /\ s.fru.isBuilt /\ Fru!Counted(s.fru, s.repo) /\ (~v5 => Fru!Numbered(s.repo))
        /\ DOMAIN s = {"fru", "node", "repo"}
    BY <2>1, <2>2, TableBuilt
  <2> QED
    BY <1>4, <2>3
<1> QED
  BY <1>3, <1>4 DEF Fru!Outcomes

LEMMA ResizeCounts ==
  ASSUME NEW f, NEW r, Fru!Counted(f, r)
  PROVE  LET z == Fru!TableResize(f) IN
         Fru!Counted(z, r) /\ z.isBuilt = f.isBuilt /\ z.rh = f.rh
<1> DEFINE z == Fru!TableResize(f)
<1>1. DOMAIN f = {"isBuilt", "table", "rsi", "rh", "padBytes", "checksum"}
  BY DEF Fru!Counted
<1>2. /\ DOMAIN z = DOMAIN f /\ z.isBuilt = f.isBuilt /\ z.rh = f.rh /\ z.rsi = f.rsi
      /\ z.table = f.table
  BY <1>1 DEF Fru!TableResize
<1> HIDE DEF z
<1> QED
  BY <1>2 DEF Fru!Counted, z

LEMMA FruInit == Fru!Init => Fru!FruInv
<1> SUFFICES ASSUME Fru!Init PROVE Fru!FruInv
  OBVIOUS
<1>1. /\ v2 = [isBuilt |-> FALSE, table |-> <<>>, rsi |-> 0, rh |-> 0, padBytes |-> 0,
               checksum |-> <<>>]
      /\ v4 = <<>>
  BY DEF Fru!Init
<1>2. /\ DOMAIN v2 = {"isBuilt", "table", "rsi", "rh", "padBytes", "checksum"}
      /\ v2.table = <<>> /\ v2.rsi = 0 /\ v2.rh = 0
  BY <1>1
<1>3. <<>> \in Seq(Fru!Entry) /\ <<>> \in Seq(Fru!Record) /\ DOMAIN <<>> = {}
  OBVIOUS
<1>4. Fru!RecordSets(v2.table) = 1..0 /\ Fru!FruPdrs(v4) = {}
  BY <1>1, <1>2, <1>3 DEF Fru!RecordSets, Fru!FruPdrs
<1>5. Fru!Cardinality(Fru!FruPdrs(v4)) = 0
  BY <1>4, FS_EmptySet, SameCardinality
<1>6. Fru!Counted(v2, v4)
  BY <1>1, <1>2, <1>3, <1>4, <1>5 DEF Fru!Counted
<1> QED
  BY <1>1, <1>2, <1>3, <1>6 DEF Fru!FruInv, Fru!Numbered

LEMMA FruNext == Fru!FruInv /\ [Fru!Next]_Fru!vars => Fru!FruInv'
<1> SUFFICES ASSUME Fru!FruInv, [Fru!Next]_Fru!vars PROVE Fru!FruInv'
  OBVIOUS
<1> DEFINE Goal == /\ Fru!Counted(v2', v4')
                   /\ ~v2'.isBuilt => v2'.rh = 0 /\ (v5' \/ v4' = <<>>)
                   /\ v7' \/ Fru!Numbered(v4')
<1>0. /\ Fru!Counted(v2, v4) /\ (~v2.isBuilt => v2.rh = 0 /\ (v5 \/ v4 = <<>>))
      /\ v7 \/ Fru!Numbered(v4)
  BY DEF Fru!FruInv
<1>00. SUFFICES Goal
  BY DEF Fru!FruInv, Fru!Counted, Fru!RecordSets, Fru!FruPdrs, Fru!Record, Fru!Entry, Fru!Numbered
<1>1. ASSUME NEW s \in Fru!Outcomes, v4' = s.repo, v5' = v5,
             v2' = s.fru \/ v2' = Fru!TableResize(s.fru),
             v7' = (v7 \/ (v5 /\ ~v2.isBuilt /\ v2'.isBuilt))
      PROVE  Goal
  <2>1. /\ Fru!Counted(s.fru, s.repo)
        /\ ~s.fru.isBuilt => s.fru.rh = 0 /\ (v5 \/ s.repo = <<>>)
        /\ v7 \/ (v5 /\ ~v2.isBuilt /\ s.fru.isBuilt) \/ Fru!Numbered(s.repo)
    BY <1>1, OutcomeKnown
  <2>2. Fru!Counted(v2', s.repo) /\ v2'.isBuilt = s.fru.isBuilt /\ v2'.rh = s.fru.rh
    BY <1>1, <2>1, ResizeCounts
  <2> QED
    BY <1>1, <2>1, <2>2
<1>2. ASSUME Fru!Metadata PROVE Goal
  <2>1. PICK s \in Fru!Outcomes :
          LET f == Fru!TableResize(s.fru) IN
          Fru!Becomes([s EXCEPT !.fru = f],
            <<"metadata", Fru!Size(f.table), f.rsi, Len(f.table), f.checksum>>)
    BY <1>2 DEF Fru!Metadata
  <2>2. DOMAIN s = {"fru", "node", "repo"} /\ v5' = v5
    BY <1>2, OutcomeKnown DEF Fru!Metadata
  <2> DEFINE z == [s EXCEPT !.fru = Fru!TableResize(s.fru)]
  <2>3. z.fru = Fru!TableResize(s.fru) /\ z.repo = s.repo
    BY <2>2
  <2>4. \E a : Fru!Becomes(z, a)
    BY <2>1
  <2> HIDE DEF z, Goal
  <2>5. /\ v2' = z.fru /\ v4' = z.repo /\ v7' = (v7 \/ (v5 /\ ~v2.isBuilt /\ z.fru.isBuilt))
    BY <2>4 DEF Fru!Becomes
  <2> QED
    BY <1>1, <2>2, <2>3, <2>5
<1>3. ASSUME Fru!RecordTable PROVE Goal
  <2>1. PICK s \in Fru!Outcomes :
          \/ \E a : Fru!Becomes(s, a)
          \/ \E a : Fru!Becomes([s EXCEPT !.fru = Fru!TableResize(s.fru)], a)
    <3>1. PICK s \in Fru!Outcomes, badLength \in BOOLEAN :
            IF badLength THEN Fru!Becomes(s, <<"table", "badLength">>)
            ELSE LET f == Fru!TableResize(s.fru) IN
                 Fru!Becomes([s EXCEPT !.fru = f], <<"table", f.table, f.padBytes, f.checksum>>)
      BY <1>3 DEF Fru!RecordTable
    <3> QED
      BY <3>1
  <2>2. DOMAIN s = {"fru", "node", "repo"} /\ v5' = v5
    BY <1>3, OutcomeKnown DEF Fru!RecordTable
  <2> DEFINE z == [s EXCEPT !.fru = Fru!TableResize(s.fru)]
  <2>3. z.fru = Fru!TableResize(s.fru) /\ z.repo = s.repo
    BY <2>2
  <2>4. (\E a : Fru!Becomes(s, a)) \/ (\E a : Fru!Becomes(z, a))
    BY <2>1
  <2> HIDE DEF z, Goal
  <2>5. \E y \in {s, z} :
          v2' = y.fru /\ v4' = y.repo /\ v7' = (v7 \/ (v5 /\ ~v2.isBuilt /\ y.fru.isBuilt))
    BY <2>4 DEF Fru!Becomes
  <2> QED
    BY <1>1, <2>2, <2>3, <2>5
<1>4. ASSUME Fru!ByOption PROVE Goal
  <2>1. PICK s \in Fru!Outcomes : \E a : Fru!Becomes(s, a)
    BY <1>4 DEF Fru!ByOption
  <2>2. v5' = v5
    BY <1>4 DEF Fru!ByOption
  <2>3. v2' = s.fru /\ v4' = s.repo /\ v7' = (v7 \/ (v5 /\ ~v2.isBuilt /\ s.fru.isBuilt))
    BY <2>1 DEF Fru!Becomes
  <2> HIDE DEF Goal
  <2> QED
    BY <1>1, <2>2, <2>3
<1>5. ASSUME Fru!GetPdr PROVE Goal
  <2>1. PICK s \in Fru!Outcomes :
          \E a : Fru!Becomes(IF v5 THEN s ELSE Fru!FirstGetPdr(s), a)
    <3>1. PICK s \in Fru!Outcomes :
            LET t == IF v5 THEN s ELSE Fru!FirstGetPdr(s) IN
            \E handle \in {0} \cup {r.handle : r \in Fru!Range(t.repo)} :
              LET i == Fru!Found(t.repo, handle) IN
              Fru!Becomes(t, <<"pdr", t.repo[i], Fru!NextHandle(t.repo, i)>>)
      BY <1>5 DEF Fru!GetPdr
    <3> QED
      BY <3>1
  <2>2. v5' = TRUE
    BY <1>5 DEF Fru!GetPdr
  <2>3. /\ Fru!Counted(s.fru, s.repo) /\ DOMAIN s = {"fru", "node", "repo"}
        /\ ~s.fru.isBuilt => s.fru.rh = 0 /\ (v5 \/ s.repo = <<>>)
        /\ v7 \/ (v5 /\ ~v2.isBuilt /\ s.fru.isBuilt) \/ Fru!Numbered(s.repo)
    BY OutcomeKnown
  <2> DEFINE z == Fru!FirstGetPdr(s)
  <2>4. z.fru = s.fru /\ z.repo = Fru!GeneratePdrs(s.repo)
    BY <2>3 DEF Fru!FirstGetPdr
  <2>5. Fru!Counted(z.fru, z.repo) /\ (Fru!Numbered(s.repo) => Fru!Numbered(z.repo))
    <3>1. s.repo \in Seq(Fru!Record)
      BY <2>3 DEF Fru!Counted
    <3>2. LET y == Fru!GeneratePdrs(s.repo) IN
          /\ y \in Seq(Fru!Record) /\ (Fru!Numbered(s.repo) => Fru!Numbered(y))
          /\ FruPdrCount(y) = FruPdrCount(s.repo)
      BY <3>1, PdrsGenerated
    <3> HIDE DEF z
    <3> QED
      BY <2>3, <2>4, <3>2, SameCardinality DEF Fru!Counted, FruPdrCount
  <2> HIDE DEF z
  <2>6. PICK y \in {s, z} : (y = z => ~v5 \/ z = s) /\ \E a : Fru!Becomes(y, a)
    BY <2>1 DEF z
  <2>7. v2' = y.fru /\ v4' = y.repo /\ v7' = (v7 \/ (v5 /\ ~v2.isBuilt /\ y.fru.isBuilt))
    BY <2>6 DEF Fru!Becomes
  <2> QED
    BY <2>2, <2>3, <2>4, <2>5, <2>7
<1>6. ASSUME Fru!PresenceChanges \/ UNCHANGED Fru!vars PROVE Goal
  <2>1. v2' = v2 /\ v4' = v4 /\ v5' = v5 /\ v7' = v7
    BY <1>6 DEF Fru!PresenceChanges, Fru!vars
  <2> QED
    BY <1>0, <2>1
<1> HIDE DEF Goal
<1> QED
  <2>1. CASE Fru!Next
    BY <1>2, <1>3, <1>4, <1>5, <1>6, <2>1 DEF Fru!Next
  <2>2. CASE UNCHANGED Fru!vars
    BY <1>6, <2>2
  <2> QED
    BY <2>1, <2>2

\* The record after the one at a position, when handles are positions
LEMMA NextFound ==
  ASSUME NEW r \in Seq(Fru!Record), Fru!Numbered(r), NEW i \in 1..Len(r)
  PROVE  /\ i < Len(r) => /\ Fru!NextHandle(r, i) = i + 1
                          /\ Fru!Found(r, i + 1) = i + 1
         /\ i = Len(r) => Fru!NextHandle(r, i) = 0
<1>1. Len(r) \in Nat /\ DOMAIN r = 1..Len(r)
  <2> DEFINE R == Fru!Record
  <2>1. r \in Seq(R)
    OBVIOUS
  <2> HIDE DEF R
  <2> QED
    BY <2>1
<1>2. \A j \in 1..Len(r) : r[j].handle = j
  BY <1>1 DEF Fru!Numbered
<1>3. ASSUME i < Len(r) PROVE Fru!Found(r, i + 1) = i + 1
  <2> DEFINE h == i + 1
             I == {j \in 1..Len(r) : r[j].handle = h}
  <2>1. h \in Nat /\ h # 0 /\ h \in 1..Len(r)
    BY <1>1, <1>3
  <2>2. I = {h}
    BY <1>2, <2>1
  <2>3. Fru!Min(I) = h
    BY <2>1, <2>2 DEF Fru!Min
  <2>4. Fru!Found(r, h) = IF I # {} THEN Fru!Min(I) ELSE 0
    BY <2>1 DEF Fru!Found, Fru!SelectInSeq
  <2> QED
    BY <2>2, <2>3, <2>4
<1>4. ASSUME i < Len(r) PROVE Fru!NextHandle(r, i) = i + 1
  <2>1. i + 1 \in 1..Len(r)
    BY <1>1, <1>4
  <2>2. r[i + 1].handle = i + 1
    BY <1>2, <2>1
  <2> QED
    BY <1>4, <2>2 DEF Fru!NextHandle
<1>5. i = Len(r) => Fru!NextHandle(r, i) = 0
  BY <1>1 DEF Fru!NextHandle
<1> QED
  BY <1>3, <1>4, <1>5

LEMMA WalkEnds ==
  ASSUME v4 \in Seq(Fru!Record), Fru!Numbered(v4), v4 # <<>>
  PROVE  Fru!Walk = [i \in DOMAIN v4 |-> i]
<1> DEFINE n == Len(v4)
           H(w, k) == Fru!NextHandle(v4, Fru!Last(w[k-1]))
           E(w) == w = [k \in Nat |->
                          IF k = 0 THEN <<1>>
                          ELSE IF H(w, k) = 0 THEN w[k-1]
                               ELSE Append(w[k-1], Fru!Found(v4, H(w, k)))]
           L(k) == IF k < n THEN k + 1 ELSE n
           g == [k \in Nat |-> [i \in 1..L(k) |-> i]]
<1>1. n \in Nat \ {0} /\ DOMAIN v4 = 1..n
  <2> DEFINE R == Fru!Record
  <2>1. v4 \in Seq(R)
    OBVIOUS
  <2> HIDE DEF R
  <2> QED
    BY <2>1
<1>2. Fru!Walk = (CHOOSE w : E(w))[n]
  BY DEF Fru!Walk
<1>3. \A i \in 1..n : /\ i < n => Fru!NextHandle(v4, i) = i + 1 /\ Fru!Found(v4, i + 1) = i + 1
                      /\ i = n => Fru!NextHandle(v4, i) = 0
  BY NextFound
<1> HIDE DEF n
<1>4. ASSUME NEW w, NEW k \in Nat \ {0}, w[k-1] = g[k-1]
      PROVE  g[k] = IF H(w, k) = 0 THEN w[k-1] ELSE Append(w[k-1], Fru!Found(v4, H(w, k)))
  <2> DEFINE m == L(k-1)
             x == [i \in 1..m |-> i]
  <2>1. k - 1 \in Nat /\ m \in 1..n /\ m \in Nat \ {0} /\ w[k-1] = x
    BY <1>1, <1>4
  <2>2. x \in Seq(Nat) /\ Len(x) = m
    BY <2>1
  <2>3. H(w, k) = Fru!NextHandle(v4, m)
    <3>1. Fru!Last(x) = m
      BY <2>1, <2>2 DEF Fru!Last
    <3> QED
      BY <2>1, <3>1
  <2>4. CASE m < n
    <3>1. L(k) = m + 1
      BY <1>1, <2>4
    <3>2. Append(x, m + 1) = [i \in 1..(m + 1) |-> i]
      BY <2>1, <2>2
    <3>3. H(w, k) = m + 1 /\ m + 1 # 0 /\ Fru!Found(v4, m + 1) = m + 1
      BY <1>3, <2>1, <2>3, <2>4
    <3>4. g[k] = [i \in 1..(m + 1) |-> i]
      BY <3>1
    <3> HIDE DEF H, g, x, L
    <3> QED
      BY <2>1, <3>2, <3>3, <3>4
  <2>5. CASE m = n
    <3>1. L(k) = m
      BY <1>1, <2>5
    <3>2. H(w, k) = 0
      BY <1>3, <2>1, <2>3, <2>5
    <3> QED
      BY <2>1, <3>1, <3>2
  <2> QED
    BY <1>1, <2>1, <2>4, <2>5
<1>5. g[0] = <<1>>
  <2>1. L(0) = 1
    BY <1>1
  <2>2. [i \in 1..1 |-> i] = <<1>>
    OBVIOUS
  <2> QED
    BY <2>1, <2>2
<1>6. E(g)
  <2> DEFINE f == [k \in Nat |-> IF k = 0 THEN <<1>>
                                ELSE IF H(g, k) = 0 THEN g[k-1]
                                     ELSE Append(g[k-1], Fru!Found(v4, H(g, k)))]
  <2>1. \A k \in Nat : g[k] = f[k]
    <3> SUFFICES ASSUME NEW k \in Nat PROVE g[k] = f[k]
      OBVIOUS
    <3>1. CASE k = 0
      BY <1>5, <3>1
    <3>2. CASE k # 0
      <4>1. g[k] = IF H(g, k) = 0 THEN g[k-1] ELSE Append(g[k-1], Fru!Found(v4, H(g, k)))
        <5> HIDE DEF g, H
        <5> QED
          BY <1>4, <3>2
      <4> QED
        BY <3>2, <4>1
    <3> QED
      BY <3>1, <3>2
  <2>2. DOMAIN g = Nat /\ g = [k \in Nat |-> g[k]]
    OBVIOUS
  <2> HIDE DEF g, H
  <2> QED
    BY <2>1, <2>2
<1> DEFINE w == CHOOSE x : E(x)
           K == {k \in Nat : w[k] = g[k]}
<1>7. E(w)
  <2> HIDE DEF E
  <2> QED
    BY <1>6
<1> HIDE DEF w
<1>8. 0 \in K
  BY <1>5, <1>7
<1>9. ASSUME NEW k \in K \cap Nat PROVE k + 1 \in K
  <2>1. k + 1 \in Nat \ {0} /\ (k + 1) - 1 = k /\ w[k] = g[k]
    OBVIOUS
  <2>2. w[k+1] = IF H(w, k + 1) = 0 THEN w[(k+1)-1]
                 ELSE Append(w[(k+1)-1], Fru!Found(v4, H(w, k + 1)))
    <3>1. \A j \in Nat \ {0} : w[j] = IF H(w, j) = 0 THEN w[j-1]
                                     ELSE Append(w[j-1], Fru!Found(v4, H(w, j)))
      <4> HIDE DEF H
      <4> QED
        BY <1>7
    <3> HIDE DEF H
    <3> QED
      BY <2>1, <3>1
  <2> HIDE DEF g, H
  <2>3. w[k+1] = g[k+1]
    BY <1>4, <2>1, <2>2
  <2> QED
    BY <2>1, <2>3
<1>10. Nat \subseteq K
  <2> HIDE DEF K
  <2> QED
    BY <1>8, <1>9, Objects!InductionOnSet
<1>11. w[n] = g[n] /\ L(n) = n
  BY <1>1, <1>10
<1> QED
  BY <1>1, <1>2, <1>11 DEF w

LEMMA FruSafe == Fru!FruInv => Fru!WalkSeesAll /\ Fru!CountsAgree
<1> SUFFICES ASSUME Fru!FruInv PROVE Fru!WalkSeesAll /\ Fru!CountsAgree
  OBVIOUS
<1>1. Fru!Counted(v2, v4) /\ (v7 \/ Fru!Numbered(v4))
  BY DEF Fru!FruInv
<1>2. Fru!WalkSeesAll
  <2>1. v4 \in Seq(Fru!Record)
    BY <1>1 DEF Fru!Counted
  <2> QED
    BY <1>1, <2>1, WalkEnds DEF Fru!WalkSeesAll
<1>3. /\ v2.rsi \in Nat /\ {v2.table[i].rsi : i \in DOMAIN v2.table} = 1..v2.rsi
      /\ Fru!Cardinality(Fru!FruPdrs(v4)) = v2.rsi
  BY <1>1 DEF Fru!Counted, Fru!RecordSets
<1>4. {r.rsi : r \in Fru!Range(v2.table)} = {v2.table[i].rsi : i \in DOMAIN v2.table}
  BY DEF Fru!Range
<1>5. Cardinality(1..v2.rsi) = v2.rsi
  BY <1>3, FS_Interval
<1>6. Fru!Cardinality({r.rsi : r \in Fru!Range(v2.table)}) = v2.rsi
  BY <1>3, <1>4, <1>5, SameCardinality
<1> QED
  BY <1>2, <1>3, <1>6 DEF Fru!CountsAgree, Fru!FruPdrs

LEMMA FruStays ==
  (component = "fru" => Fru!FruInv) /\ [ResponderNext]_vars
    => (component = "fru" => Fru!FruInv)'
<1> SUFFICES ASSUME component' = "fru", [ResponderNext]_vars,
                    component = "fru" => Fru!FruInv
             PROVE  Fru!FruInv'
  OBVIOUS
<1>1. CASE FruStep
  BY <1>1, FruNext DEF FruStep, Only
<1>2. CASE UNCHANGED vars
  BY <1>2, FruNext, OthersElsewhere DEF vars, Fru!vars
<1> QED
  BY <1>1, <1>2, OthersElsewhere

-----------------------------------------------------------------------------
\* PldmDaemon: v1 is instance, v2 is tapeRecorder, v3 is index, v4 is tid,
\* v5 is wire, v6 is requester, v7 is exitCode, v8 is recorded, v9 is
\* arrived.

-----------------------------------------------------------------------------
(* Daemon!Answers *)

\* recvMsg counts one more arrival and leaves the earlier ones.
LEMMA OneMoreArrival ==
  ASSUME Daemon!AnswersInv, NEW from, NEW m, Daemon!Received(from, m),
         m[1] \in {"request", "response", "malformed"}
  PROVE  /\ v1' = v1 + 1
         /\ from \in DOMAIN Daemon!MappedTids
         /\ v9' \in Seq(Daemon!Arrivals)
         /\ Len(v9') = v1'
         /\ \A i \in 1..v1 : v9'[i] = v9[i]
         /\ v9'[v1'] = [from |-> from, kind |-> m[1]]
<1>1. [from |-> from, kind |-> m[1]] \in Daemon!Arrivals
  BY DEF Daemon!Received, Daemon!Arrivals
<1> QED
  BY <1>1, AppendProperties DEF Daemon!Received, Daemon!AnswersInv

\* What was answered and passed on so far stays true of the longer history.
LEMMA EarlierOnesStay ==
  ASSUME Daemon!AnswersInv, v1' = v1 + 1,
         \A i \in 1..v1 : v9'[i] = v9[i]
  PROVE  /\ \A i \in 1..Len(v5) :
              /\ v5[i].n \in 1..v1'
              /\ v9'[v5[i].n] = [from |-> v5[i].to, kind |-> "request"]
         /\ \A i \in 1..Len(v6) :
              /\ v6[i].n \in 1..v1'
              /\ v9'[v6[i].n]
                   = [from |-> v6[i].from, kind |-> "response"]
<1>1. v1' \in Nat /\ \A n \in 1..v1 : n \in 1..v1'
  BY DEF Daemon!AnswersInv
<1>2. ASSUME NEW i \in 1..Len(v5)
      PROVE  /\ v5[i].n \in 1..v1
             /\ v9[v5[i].n] = [from |-> v5[i].to, kind |-> "request"]
  BY DEF Daemon!AnswersInv, Daemon!OneAnswerToItsSender
<1>3. ASSUME NEW i \in 1..Len(v6)
      PROVE  /\ v6[i].n \in 1..v1
             /\ v9[v6[i].n]
                  = [from |-> v6[i].from, kind |-> "response"]
  BY DEF Daemon!AnswersInv, Daemon!OneAnswerToItsSender
<1> QED
  BY <1>1, <1>2, <1>3

LEMMA AnswersStep == Daemon!AnswersInv /\ [Daemon!Next]_Daemon!vars => Daemon!AnswersInv'
<1> SUFFICES ASSUME Daemon!AnswersInv, [Daemon!Next]_Daemon!vars
             PROVE  Daemon!AnswersInv'
  OBVIOUS
<1>1. ASSUME NEW from \in Sources, NEW m \in Daemon!Sendable, Daemon!Request(from, m)
      PROVE  Daemon!AnswersInv'
  <2>1. PICK answer \in Daemon!Answers(m), sent \in BOOLEAN :
          v5' = IF sent
                  THEN Append(v5, [to |-> from, n |-> v1',
                                     cc |-> answer.cc, data |-> answer.data])
                  ELSE v5
    BY <1>1 DEF Daemon!Request, Daemon!Addressee
  <2>2. /\ Daemon!Received(from, m) /\ m[1] = "request"
        /\ v6' = v6
    BY <1>1 DEF Daemon!Request
  <2>3. /\ v1' = v1 + 1
        /\ from \in DOMAIN Daemon!MappedTids
        /\ v9' \in Seq(Daemon!Arrivals)
        /\ Len(v9') = v1'
        /\ \A i \in 1..v1 : v9'[i] = v9[i]
        /\ v9'[v1'] = [from |-> from, kind |-> "request"]
    BY <2>2, OneMoreArrival
  <2>4. CASE v5' = v5
    <3>1. /\ \A i \in 1..Len(v5) : v5[i].n \in 1..v1'
          /\ \A i \in 1..Len(v6) : v6[i].n \in 1..v1'
      BY <2>3, EarlierOnesStay
    <3>2. Daemon!OneAnswerToItsSender'
      BY <2>2, <2>3, <2>4, EarlierOnesStay DEF Daemon!AnswersInv,
        Daemon!OneAnswerToItsSender
    <3> QED
      BY <2>2, <2>3, <2>4, <3>1, <3>2 DEF Daemon!AnswersInv
  <2>5. CASE v5' = Append(v5, [to |-> from, n |-> v1',
                                   cc |-> answer.cc, data |-> answer.data])
    <3> DEFINE r == [to |-> from, n |-> v1', cc |-> answer.cc, data |-> answer.data]
    <3>1. r \in Daemon!Responses /\ r.n = v1' /\ r.to = from
      <4>1. answer \in Daemon!AnswersToAll
        BY DEF Daemon!AnswersToAll, Daemon!Sendable
      <4>2. v1' \in Nat
        BY <2>3 DEF Daemon!AnswersInv
      <4>3. \A t \in DOMAIN Daemon!MappedTids, k \in Nat, a \in Daemon!AnswersToAll :
              [to |-> t, n |-> k, cc |-> a.cc, data |-> a.data] \in Daemon!Responses
        BY DEF Daemon!Responses
      <4> QED
        BY <4>1, <4>2, <4>3, <2>3
    <3> HIDE DEF r
    <3>2. /\ v5' \in Seq(Daemon!Responses)
          /\ Len(v5') = Len(v5) + 1
          /\ \A i \in 1..Len(v5) : v5'[i] = v5[i]
          /\ v5'[Len(v5) + 1] = r
      BY <3>1, <2>5, AppendProperties DEF Daemon!AnswersInv, r
    <3>3. v1' \in Nat /\ v1' \in 1..v1' /\ Len(v5) \in Nat /\ \A i \in 1..Len(v5) : v5[i].n < v1'
      BY <2>3 DEF Daemon!AnswersInv
    <3>4. ASSUME NEW i \in 1..Len(v5')
          PROVE  /\ v5'[i].n \in 1..v1'
                 /\ v9'[v5'[i].n] = [from |-> v5'[i].to, kind |-> "request"]
      <4>1. CASE i = Len(v5) + 1
        BY <4>1, <3>1, <3>2, <3>3, <2>3
      <4>2. CASE i # Len(v5) + 1
        <5>1. i \in 1..Len(v5) /\ v5'[i] = v5[i]
          BY <4>2, <3>2, <3>3
        <5> QED
          BY <5>1, <2>3, EarlierOnesStay
      <4> QED
        BY <4>1, <4>2
    <3>5. ASSUME NEW i \in 1..Len(v5'), NEW j \in 1..Len(v5'), i < j
          PROVE  v5'[i].n < v5'[j].n
      <4>1. i \in 1..Len(v5) /\ v5'[i].n = v5[i].n
        BY <3>2, <3>3, <3>5
      <4>2. CASE j = Len(v5) + 1
        BY <4>1, <4>2, <3>1, <3>2, <3>3
      <4>3. CASE j # Len(v5) + 1
        <5>1. j \in 1..Len(v5) /\ v5'[j].n = v5[j].n
          BY <4>3, <3>2, <3>3
        <5> QED
          BY <4>1, <5>1, <3>5 DEF Daemon!AnswersInv,
            Daemon!OneAnswerToItsSender
      <4> QED
        BY <4>2, <4>3
    <3> QED
      BY <3>2, <3>3, <3>4, <3>5, <2>2, <2>3, EarlierOnesStay DEF
        Daemon!AnswersInv, Daemon!OneAnswerToItsSender
  <2> QED
    BY <2>1, <2>4, <2>5
<1>2. ASSUME NEW from \in Sources, NEW m \in Daemon!Sendable, Daemon!ResponseArrives(from, m)
      PROVE  Daemon!AnswersInv'
  <2>1. /\ Daemon!Received(from, m) /\ m[1] = "response"
        /\ v5' = v5
        /\ v6' = Append(v6, [from |-> from, n |-> v1'])
    BY <1>2 DEF Daemon!ResponseArrives
  <2>2. /\ v1' = v1 + 1
        /\ from \in DOMAIN Daemon!MappedTids
        /\ v9' \in Seq(Daemon!Arrivals)
        /\ Len(v9') = v1'
        /\ \A i \in 1..v1 : v9'[i] = v9[i]
        /\ v9'[v1'] = [from |-> from, kind |-> "response"]
    BY <2>1, OneMoreArrival
  <2> DEFINE r == [from |-> from, n |-> v1']
  <2>3. r \in Daemon!ToRequester /\ r.n = v1' /\ r.from = from
    BY <2>2 DEF Daemon!AnswersInv, Daemon!ToRequester
  <2> HIDE DEF r
  <2>4. /\ v6' \in Seq(Daemon!ToRequester)
        /\ Len(v6') = Len(v6) + 1
        /\ \A i \in 1..Len(v6) : v6'[i] = v6[i]
        /\ v6'[Len(v6) + 1] = r
    BY <2>1, <2>3, AppendProperties DEF Daemon!AnswersInv, r
  <2> QED
    BY <2>1, <2>2, <2>3, <2>4 DEF Daemon!AnswersInv,
      Daemon!OneAnswerToItsSender
<1>3. ASSUME NEW from \in Sources, NEW m \in Daemon!Sendable, Daemon!Malformed(from, m)
      PROVE  Daemon!AnswersInv'
  <2>1. /\ Daemon!Received(from, m) /\ m[1] = "malformed"
        /\ UNCHANGED <<v5, v6>>
    BY <1>3 DEF Daemon!Malformed
  <2>2. /\ v1' = v1 + 1
        /\ v9' \in Seq(Daemon!Arrivals)
        /\ Len(v9') = v1'
        /\ \A i \in 1..v1 : v9'[i] = v9[i]
    BY <2>1, OneMoreArrival
  <2> QED
    BY <2>1, <2>2, EarlierOnesStay DEF Daemon!AnswersInv,
      Daemon!OneAnswerToItsSender
<1>4. ASSUME UNCHANGED <<v1, v5, v6, v9>>
      PROVE  Daemon!AnswersInv'
  BY <1>4 DEF Daemon!AnswersInv, Daemon!OneAnswerToItsSender
<1> QED
  BY <1>1, <1>2, <1>3, <1>4 DEF Daemon!Next, Daemon!Start, Daemon!SocketLost,
    Daemon!ReceiveFails, Daemon!OwnRequest, Daemon!vars

-----------------------------------------------------------------------------
(* The flight recorder *)

LEMMA PlaceIsModulo ==
  ASSUME TapeEntries \in Nat \ {0}, NEW i \in 0..TapeEntries - 1, NEW k \in 1..TapeEntries
  PROVE  (i - k + TapeEntries) % TapeEntries = Daemon!Place(i, k)
<1>1. CASE k <= i
  BY <1>1 DEF Daemon!Place
<1>2. CASE i < k
  BY <1>2 DEF Daemon!Place
<1> QED
  BY <1>1, <1>2

\* saveRecord puts one more record where the oldest is, if the tape is full.
LEMMA OneMoreRecord ==
  ASSUME TapeEntries \in Nat \ {0}, NEW tape \in [0..TapeEntries - 1 -> Daemon!Records],
         NEW i \in 0..TapeEntries - 1, NEW rs \in Seq(Daemon!Records), NEW r \in Daemon!Records,
         Daemon!OnTape(tape, i, rs)
  PROVE  /\ [tape EXCEPT ![i] = r] \in [0..TapeEntries - 1 -> Daemon!Records]
         /\ Daemon!Wrapped(i) \in 0..TapeEntries - 1
         /\ Append(rs, r) \in Seq(Daemon!Records)
         /\ Daemon!OnTape([tape EXCEPT ![i] = r], Daemon!Wrapped(i), Append(rs, r))
<1> DEFINE rs2 == Append(rs, r)
<1>1. /\ rs2 \in Seq(Daemon!Records)
      /\ Len(rs2) = Len(rs) + 1 /\ Len(rs) \in Nat
      /\ \A j \in 1..Len(rs) : rs2[j] = rs[j]
      /\ rs2[Len(rs) + 1] = r
  BY AppendProperties
<1>2. Daemon!Wrapped(i) \in 0..TapeEntries - 1
  BY DEF Daemon!Wrapped
<1> HIDE DEF rs2
<1>3. ASSUME NEW k \in 1..TapeEntries, k <= Len(rs2)
      PROVE  [tape EXCEPT ![i] = r][Daemon!Place(Daemon!Wrapped(i), k)] = rs2[Len(rs2) + 1 - k]
  <2>1. CASE k = 1
    <3>1. Daemon!Place(Daemon!Wrapped(i), k) = i
      BY <2>1 DEF Daemon!Place, Daemon!Wrapped
    <3> QED
      BY <3>1, <2>1, <1>1
  <2>2. CASE k # 1
    <3>1. /\ k - 1 \in 1..TapeEntries /\ k - 1 <= Len(rs)
          /\ Daemon!Place(Daemon!Wrapped(i), k) = Daemon!Place(i, k - 1)
          /\ Daemon!Place(i, k - 1) \in 0..TapeEntries - 1
          /\ Daemon!Place(i, k - 1) # i
      BY <2>2, <1>1, <1>3 DEF Daemon!Place, Daemon!Wrapped
    <3>2. tape[Daemon!Place(i, k - 1)] = rs[Len(rs) + 1 - (k - 1)]
      BY <3>1 DEF Daemon!OnTape
    <3>3. rs2[Len(rs2) + 1 - k] = rs[Len(rs) + 1 - (k - 1)]
      <4>1. /\ Len(rs2) + 1 - k = Len(rs) + 1 - (k - 1)
            /\ Len(rs) + 1 - (k - 1) \in 1..Len(rs)
        BY <3>1, <2>2, <1>1
      <4> QED
        BY <4>1, <1>1
    <3> QED
      BY <3>1, <3>2, <3>3
  <2> QED
    BY <2>1, <2>2
<1> QED
  BY <1>1, <1>2, <1>3 DEF Daemon!OnTape, rs2

\* The daemon saves one record for a message, or two if it answers.
LEMMA SavedOne ==
  ASSUME TapeEntries \in Nat \ {0}, Daemon!TapeInv, NEW r \in Daemon!Records,
           Daemon!saveRecords(<<r>>),
         v1' \in Nat
  PROVE  Daemon!TapeInv'
<1>1. /\ v8' = Append(v8, r)
      /\ v2' = [v2 EXCEPT ![v3] = r]
      /\ v3' = Daemon!Wrapped(v3)
  BY AppendIsConcat DEF Daemon!saveRecords, Daemon!TapeInv
<1> QED
  BY <1>1, OneMoreRecord DEF Daemon!TapeInv

LEMMA SavedTwo ==
  ASSUME TapeEntries \in Nat \ {0}, Daemon!TapeInv, NEW r1 \in Daemon!Records,
           NEW r2 \in Daemon!Records,
         Daemon!saveRecords(<<r1, r2>>), v1' \in Nat
  PROVE  Daemon!TapeInv'
<1> DEFINE tape1 == [v2 EXCEPT ![v3] = r1]
           i1 == Daemon!Wrapped(v3)
           rs1 == Append(v8, r1)
<1>1. /\ tape1 \in [0..TapeEntries - 1 -> Daemon!Records]
      /\ i1 \in 0..TapeEntries - 1
      /\ rs1 \in Seq(Daemon!Records)
      /\ Daemon!OnTape(tape1, i1, rs1)
  BY OneMoreRecord DEF Daemon!TapeInv
<1>2. v8' = Append(rs1, r2)
  <2>1. v8' = v8 \o <<r1, r2>>
    BY DEF Daemon!saveRecords
  <2>2. v8 \in Seq(Daemon!Records)
    BY DEF Daemon!TapeInv
  <2> QED
    BY <2>1, <2>2
<1>3. /\ v2' = [tape1 EXCEPT ![i1] = r2]
      /\ v3' = Daemon!Wrapped(i1)
  BY DEF Daemon!saveRecords, Daemon!TapeInv
<1> HIDE DEF tape1, i1, rs1
<1> QED
  BY <1>1, <1>2, <1>3, OneMoreRecord DEF Daemon!TapeInv

LEMMA TapeStep ==
  ASSUME TapeEntries \in Nat \ {0}
  PROVE  Daemon!TapeInv /\ [Daemon!Next]_Daemon!vars => Daemon!TapeInv'
<1> SUFFICES ASSUME Daemon!TapeInv, [Daemon!Next]_Daemon!vars
             PROVE  Daemon!TapeInv'
  OBVIOUS
<1>1. ASSUME NEW from \in Sources, NEW m \in Daemon!Sendable, Daemon!Received(from, m)
      PROVE  /\ v1' \in Nat
             /\ [rq |-> FALSE, n |-> v1'] \in Daemon!Records
             /\ [rq |-> TRUE, n |-> v1'] \in Daemon!Records
  <2>1. v1' \in Nat
    BY <1>1 DEF Daemon!Received, Daemon!TapeInv
  <2>2. \A k \in Nat : [rq |-> FALSE, n |-> k] \in Daemon!Records /\ [rq |-> TRUE,
          n |-> k] \in Daemon!Records
    BY Zenon DEF Daemon!Records
  <2> QED
    BY <2>1, <2>2
<1>2. ASSUME NEW from \in Sources, NEW m \in Daemon!Sendable, Daemon!Request(from, m)
      PROVE  Daemon!TapeInv'
  BY <1>1, <1>2, SavedTwo DEF Daemon!Request
<1>3. ASSUME NEW from \in Sources, NEW m \in Daemon!Sendable, Daemon!ResponseArrives(from, m)
      PROVE  Daemon!TapeInv'
  BY <1>1, <1>3, SavedOne DEF Daemon!ResponseArrives
<1>4. ASSUME NEW from \in Sources, NEW m \in Daemon!Sendable, Daemon!Malformed(from, m)
      PROVE  Daemon!TapeInv'
  BY <1>1, <1>4, SavedOne DEF Daemon!Malformed
<1>5. ASSUME UNCHANGED <<v1, v2, v3, v8>>
      PROVE  Daemon!TapeInv'
  BY <1>5 DEF Daemon!TapeInv, Daemon!OnTape
<1>6. CASE Daemon!OwnRequest
  <2>1. v8 \in Seq(Daemon!Records) /\ v1' = v1 /\ v1 \in Nat
    BY <1>6 DEF Daemon!OwnRequest, Daemon!TapeInv
  <2>2. MaxMessages + Len(v8) \in Nat
    BY TapeAssumption, <2>1
  <2>3. \A k \in Nat : [rq |-> TRUE, n |-> k] \in Daemon!Records
    BY Zenon DEF Daemon!Records
  <2>4. [rq |-> TRUE, n |-> MaxMessages + Len(v8)] \in Daemon!Records
    BY <2>2, <2>3
  <2> QED
    BY <1>6, <2>1, <2>4, SavedOne DEF Daemon!OwnRequest
<1> QED
  BY <1>2, <1>3, <1>4, <1>5, <1>6 DEF Daemon!Next, Daemon!Start, Daemon!SocketLost,
    Daemon!ReceiveFails, Daemon!vars

LEMMA DaemonInit == Daemon!Init => Daemon!DaemonInv
<1>1. Daemon!Init => Daemon!AnswersInv
  BY DEF Daemon!Init, Daemon!AnswersInv, Daemon!OneAnswerToItsSender
<1>2. Daemon!Blank \in Daemon!Records
  BY 0 \in Nat, Zenon DEF Daemon!Blank, Daemon!Records
<1>3. Daemon!Init => Daemon!TapeInv
  BY TapeAssumption, <1>2 DEF Daemon!Init, Daemon!TapeInv, Daemon!OnTape,
    Daemon!FreshTape
<1> QED
  BY <1>1, <1>3 DEF Daemon!DaemonInv

LEMMA DaemonNext == Daemon!DaemonInv /\ [Daemon!Next]_Daemon!vars => Daemon!DaemonInv'
  BY TapeAssumption, AnswersStep, TapeStep DEF Daemon!DaemonInv

\* What is on the tape is what EveryMessageOnTape says.
LEMMA DaemonSafe == Daemon!DaemonInv => Daemon!MessagesAnsweredAndOnTape
<1>1. Daemon!TapeInv => Daemon!EveryMessageOnTape
  BY TapeAssumption, PlaceIsModulo DEF Daemon!TapeInv, Daemon!OnTape,
    Daemon!EveryMessageOnTape
<1> QED
  BY <1>1 DEF Daemon!DaemonInv, Daemon!AnswersInv,
    Daemon!MessagesAnsweredAndOnTape

LEMMA DaemonStays ==
  (component = "daemon" => Daemon!DaemonInv) /\ [ResponderNext]_vars
    => (component = "daemon" => Daemon!DaemonInv)'
<1> SUFFICES ASSUME component' = "daemon", [ResponderNext]_vars,
                    component = "daemon" => Daemon!DaemonInv
             PROVE  Daemon!DaemonInv'
  OBVIOUS
<1>1. CASE DaemonStep
  BY <1>1, DaemonNext DEF DaemonStep, Only
<1>2. CASE UNCHANGED vars
  BY <1>2, DaemonNext, OthersElsewhere DEF vars, Daemon!vars
<1> QED
  BY <1>1, <1>2, OthersElsewhere

-----------------------------------------------------------------------------
\* An exchange with the host that neither the host nor the code itself cuts short,
\* in one of the ways HostPdr!UndisturbedExchange lists, reads every record
\* announced and uses live nodes only, whatever the records of the host and the
\* order of its announcements (HostPDRHandler::fetchPDR, processHostPDRs).
THEOREM UndisturbedExchangeHolds == ResponderSpec => []UndisturbedExchange
<1>1. ResponderInit => (component = "host" => HostPdrs!HostInv)
  BY HostPdrsInit DEF ResponderInit
<1>2. (component = "host" => HostPdrs!HostInv) => UndisturbedExchange
  BY HostPdrsSafe DEF UndisturbedExchange, HostPdrs!HostInv
<1> QED
  BY <1>1, <1>2, HostPdrsStays, PTL DEF ResponderSpec

\* When every signal has been handled, the host has been told the present state
\* of each sensor it watches (sendStateSensorEvent, sensorCache).
THEOREM HostUpToDateHolds == ResponderSpec => []HostUpToDate
<1>1. ResponderInit => (component = "events" => Events!SensorsInv)
  BY EventsInit DEF ResponderInit
<1>2. (component = "events" => Events!SensorsInv) => HostUpToDate
  BY DEF HostUpToDate, Events!SensorsInv, Events!NothingToCorrect,
    Events!HostUpToDate
<1> QED
  BY <1>1, <1>2, EventsStays, PTL DEF ResponderSpec

\* A set that succeeds has set every field it names, and a numeric effecter is
\* never set outside its settable range (setStateEffecterStates,
\* setNumericEffecterValue).
THEOREM EffectersObeyedHolds == ResponderSpec => []EffectersObeyed
<1>1. ResponderInit => (component = "effecters" => Effecters!EffecterInv)
  BY EffectersInit DEF ResponderInit
<1>2. (component = "effecters" => Effecters!EffecterInv) => EffectersObeyed
  BY DEF EffectersObeyed, Effecters!EffecterInv
<1> QED
  BY <1>1, <1>2, EffectersStays, PTL DEF ResponderSpec

\* The settings manager shows the values of the tables and the tables those of the
\* properties once the notifications are in, for any attributes and whatever the
\* host, the manager and the owners of the properties write and in what order
\* (setAttrValue, constructPendingAttribute, processBiosAttrChangeNotification).
THEOREM BiosValuesAgreeHolds == ResponderSpec => []BiosValuesAgree
<1>1. ResponderInit => (component = "bios" => Bios!BiosInv)
  BY BiosInit DEF ResponderInit
<1>2. (component = "bios" => Bios!BiosInv) => BiosValuesAgree
  BY BiosSafe DEF BiosValuesAgree
<1> QED
  BY <1>1, <1>2, BiosStays, PTL DEF ResponderSpec

\* A walk of GetPDR meets every record once and ends, and the counts of
\* GetFRURecordTableMetadata are those of the table and of the repository, for
\* any inventory, however many PDRs the JSON files describe, and whichever
\* command builds the table after however many failed lookups (buildFRUTable,
\* populateRecords, getPDR).
THEOREM FruAndPdrsAgreeHolds == ResponderSpec => []FruAndPdrsAgree
<1>1. ResponderInit => (component = "fru" => Fru!FruInv)
  BY FruInit DEF ResponderInit
<1>2. (component = "fru" => Fru!FruInv) => FruAndPdrsAgree
  BY FruSafe DEF FruAndPdrsAgree
<1> QED
  BY <1>1, <1>2, FruStays, PTL DEF ResponderSpec

\* Each request is answered once at most, and to the endpoint it came from, and
\* the flight recorder holds the last messages in their order, the daemon's own
\* requests among them (main, recvMsg, FlightRecorder::saveRecord).
THEOREM MessagesAnsweredAndOnTapeHolds == ResponderSpec => []MessagesAnsweredAndOnTape
<1>1. ResponderInit => (component = "daemon" => Daemon!DaemonInv)
  BY DaemonInit DEF ResponderInit
<1>2. (component = "daemon" => Daemon!DaemonInv) => MessagesAnsweredAndOnTape
  BY DaemonSafe DEF MessagesAnsweredAndOnTape, Daemon!DaemonInv
<1> QED
  BY <1>1, <1>2, DaemonStays, PTL DEF ResponderSpec
=============================================================================
