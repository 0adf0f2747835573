----------------------------- MODULE OemProofs ------------------------------
(***************************************************************************)
(* What the runs of MCComponents check of the components of OemComponents, *)
(* proved for every value of their constants.  Each component has an       *)
(* inductive invariant in its own module (IbmInv, HostDataInv, ...), which *)
(* the lemmas <component>Init and <component>Next establish and keep.      *)
(***************************************************************************)
EXTENDS OemComponents, FiniteSetTheorems, SequenceTheorems, TLAPS

\* Each step is one of the component that runs.
LEMMA StepsOfOne ==
  /\ InbandStep => Only("inband")
  /\ BootStep => Only("boot")
  /\ IbmStep => Only("ibm")
  /\ HostDataStep => Only("ibmfiles")
  /\ FilesStep => Only("fileio")
  /\ SoftOffStep => Only("softoff")
  /\ PcieStep => Only("pcie")
  /\ ResDumpStep => Only("resdump")
  /\ CsrStep => Only("csr")
  BY DEF InbandStep, BootStep, IbmStep, HostDataStep, FilesStep, SoftOffStep,
    PcieStep, ResDumpStep, CsrStep

\* Only its own steps and steps that stutter concern a component.
LEMMA OthersElsewhere ==
  ASSUME [OemNext]_vars
  PROVE  /\ component' = "inband" => component = "inband" /\ (InbandStep \/ UNCHANGED vars)
         /\ component' = "ibm" => component = "ibm" /\ (IbmStep \/ UNCHANGED vars)
         /\ component' = "ibmfiles" => component = "ibmfiles" /\ (HostDataStep \/ UNCHANGED vars)
         /\ component' = "fileio" => component = "fileio" /\ (FilesStep \/ UNCHANGED vars)
         /\ component' = "softoff" => component = "softoff" /\ (SoftOffStep \/ UNCHANGED vars)
         /\ component' = "pcie" => component = "pcie" /\ (PcieStep \/ UNCHANGED vars)
         /\ component' = "resdump" => component = "resdump" /\ (ResDumpStep \/ UNCHANGED vars)
         /\ component' = "csr" => component = "csr" /\ (CsrStep \/ UNCHANGED vars)
  BY StepsOfOne DEF OemNext, vars, Only

-----------------------------------------------------------------------------
\* InbandUpdate: v1 is cu, v2 is deferred, v3 is staged, v4 is dirs, v5 is
\* child, v6 is images, v7 is told, v8 is host.

\* What the module takes from FiniteSets is what the library's theorems are about.
LEMMA SameFiniteSets ==
  ASSUME NEW S
  PROVE  /\ Inband!Cardinality(S) = Cardinality(S)
         /\ Inband!IsFiniteSet(S) <=> IsFiniteSet(S)
<1>1. Inband!Cardinality(S) = Cardinality(S)
  BY Zenon DEF Inband!Cardinality, Cardinality
<1>2. Inband!IsFiniteSet(S) <=> IsFiniteSet(S)
  BY Zenon DEF Inband!IsFiniteSet, IsFiniteSet
<1> QED
  BY <1>1, <1>2

\* A finite set as a sequence has each of its elements once.
LEMMA SetAsSequence ==
  ASSUME NEW S, IsFiniteSet(S)
  PROVE  /\ Inband!SetToSeq(S) \in Seq(S)
         /\ Inband!IsInjective(Inband!SetToSeq(S))
         /\ Inband!Range(Inband!SetToSeq(S)) = S
<1> DEFINE n == Cardinality(S)
           f == Inband!SetToSeq(S)
<1>1. n \in Nat /\ ExistsBijection(1..n, S)
  BY FS_CardinalityType
<1>2. PICK g \in Bijection(1..n, S) : TRUE
  BY <1>1 DEF ExistsBijection
<1>3. g \in [1..n -> S] /\ Inband!IsInjective(g)
  BY <1>2 DEF Bijection, Injection, IsInjective, Inband!IsInjective
<1>4. f \in [1..n -> S] /\ Inband!IsInjective(f)
  BY <1>3, SameFiniteSets DEF Inband!SetToSeq
<1>5. f \in Injection(1..n, S)
  BY <1>4 DEF Injection, IsInjective, Inband!IsInjective
<1>6. Cardinality(1..n) = n
  BY <1>1, FS_Interval
<1>7. f \in Surjection(1..n, S)
  BY <1>5, <1>6, FS_Injection
<1>8. f \in Seq(S)
  BY <1>1, <1>4
<1>9. Inband!Range(f) = S
  BY <1>4, <1>7 DEF Surjection, Inband!Range
<1> QED
  BY <1>4, <1>8, <1>9

\* What the files are before anything is written.
LEMMA NoFiles ==
  /\ <<>> \in Seq(Nat) /\ <<>> \in Seq(Inband!File)
  /\ Inband!Empty \in [Lids -> Seq(Nat)]
  /\ Inband!NoDirs \in Inband!Dirs
  /\ Inband!IsFiniteSet(Inband!NoDirs.lids) /\ Inband!IsFiniteSet(Inband!NoDirs.hostfw)
<1>1. <<>> \in Seq(Nat) /\ <<>> \in Seq(Inband!File)
  OBVIOUS
<1>2. Inband!Empty \in [Lids -> Seq(Nat)]
  BY <1>1, Zenon DEF Inband!Empty
<1>3. Inband!NoDirs \in Inband!Dirs
  BY <1>1 DEF Inband!NoDirs, Inband!Dirs
<1>4. Inband!IsFiniteSet(Inband!NoDirs.lids) /\ Inband!IsFiniteSet(Inband!NoDirs.hostfw)
  BY FS_EmptySet, SameFiniteSets DEF Inband!NoDirs
<1> QED
  BY <1>1, <1>2, <1>3, <1>4

\* Each process is of an update, and each update has a process of its number.
LEMMA ProcessesKnown ==
  /\ Inband!Processes' = Inband!Processes
  /\ \A p \in Inband!Processes : /\ Inband!UpdateOf(p) \in 1..MaxUpdates
                                /\ Inband!UpdateOf(p)' = Inband!UpdateOf(p)
  /\ \A u \in 1..MaxUpdates :
       /\ u \in Inband!Processes /\ u + MaxUpdates \in Inband!Processes
       /\ Inband!UpdateOf(u) = u /\ Inband!UpdateOf(u + MaxUpdates) = u
  BY InbandAssumption DEF InbandAssumption, Inband!Processes, Inband!UpdateOf

LEMMA InbandInit == Inband!Init => Inband!InbandInv
<1> SUFFICES ASSUME Inband!Init
             PROVE  Inband!InbandInv
  OBVIOUS
<1>1. /\ v1 \in [inProgress: BOOLEAN, newImageId: Nat \union {NoImage},
                match: Nat \union {NoImage}]
      /\ v1.inProgress = FALSE /\ v2 = {} /\ v6 = <<>> /\ v7 = "END"
      /\ v3 = Inband!Empty /\ v4 = Inband!NoDirs
      /\ v5 = [p \in Inband!Processes |-> "none"]
  BY DEF Inband!Init
<1>2. v8 \in [update: 0..MaxUpdates, sent: [Lids -> 0..2], clean: BOOLEAN]
  <2>1. 0 \in 0..MaxUpdates /\ [l \in Lids |-> 0] \in [Lids -> 0..2]
    BY InbandAssumption DEF InbandAssumption
  <2> QED
    BY <2>1 DEF Inband!Init
<1>3. Inband!InbandTypes
  BY <1>1, <1>2, NoFiles DEF Inband!InbandTypes, Inband!Children
<1>4. Inband!AbortClears /\ Inband!EndMeansDone /\ Inband!ImageIsWhole
  BY <1>1 DEF Inband!AbortClears, Inband!EndMeansDone, Inband!ImageIsWhole
<1>5. ~Inband!ChildIn({"squash", "extract", "publish"})
      /\ ~Inband!ChildIn({"extract", "publish"})
      /\ ~Inband!ChildIn({"clean"}) /\ ~Inband!ChildIn({"publish"})
  BY <1>1 DEF Inband!ChildIn
<1>6. Inband!CleanUpdate
  BY <1>1, <1>5 DEF Inband!CleanUpdate, Inband!Alone, Inband!ChunksStaged,
    Inband!FilesStored, Inband!MadeOnce, Inband!NothingLeft, Inband!Begun,
    Inband!Assembling
<1> QED
  BY <1>3, <1>4, <1>6 DEF Inband!InbandInv

\* The images are as whole as they were when what was put into them stays.
LEMMA ImagesKept ==
  ASSUME Inband!InbandInv, v8' = v8, v6' = [i \in DOMAIN v6 |-> v6'[i]],
         \A i \in DOMAIN v6 :
           v6[i] \in Inband!Image =>
             /\ v6'[i] \in Inband!Image
             /\ v6'[i].content = v6[i].content
             /\ v6'[i].of = v6[i].of /\ v6'[i].clean = v6[i].clean
  PROVE  /\ v6' \in Seq(Inband!Image) /\ Inband!ImageIsWhole'
         /\ \A i \in DOMAIN v6' : v6'[i].of <= v8'.update
         /\ Inband!Published' <=> Inband!Published
<1>1. /\ v6 \in Seq(Inband!Image) /\ Inband!ImageIsWhole
      /\ \A i \in DOMAIN v6 : v6[i].of <= v8.update
  BY DEF Inband!InbandInv, Inband!InbandTypes
<1>2. \A i \in DOMAIN v6 : v6[i] \in Inband!Image
  BY <1>1
<1>3. v6' \in Seq(Inband!Image)
  <2>1. DOMAIN v6 = 1..Len(v6) /\ Len(v6) \in Nat
    BY <1>1
  <2> QED
    BY <1>2, <2>1, IsASeq
<1>4. Inband!ImageIsWhole'
  BY <1>1, <1>2 DEF Inband!ImageIsWhole
<1> QED
  BY <1>1, <1>2, <1>3, <1>4 DEF Inband!Published

\* The files stored are those received as long as neither change.
LEMMA StoredKept ==
  ASSUME v8'.update = v8.update, v8'.sent = v8.sent
  PROVE  /\ v4' = v4 => (Inband!Stored' <=> Inband!Stored)
         /\ Inband!AllSent' <=> Inband!AllSent
<1>1. /\ Inband!Received(Lids \ BmcLids)' = Inband!Received(Lids \ BmcLids)
      /\ Inband!Received(Lids \intersect BmcLids)'
           = Inband!Received(Lids \intersect BmcLids)
  BY DEF Inband!Received
<1>2. ASSUME v4' = v4
      PROVE  /\ v4'.lids = v4.lids /\ Inband!Range(v4.tar)' = Inband!Range(v4.tar)
             /\ Inband!IsInjective(v4.tar)' <=> Inband!IsInjective(v4.tar)
  BY <1>2
<1>3. Inband!AllSent' <=> Inband!AllSent
  BY DEF Inband!AllSent
<1> QED
  BY <1>1, <1>2, <1>3 DEF Inband!Stored

LEMMA InbandStart ==
  ASSUME Inband!InbandInv, Inband!StartUpdate
  PROVE  Inband!InbandInv'
<1> USE DEF Inband!InbandInv, Inband!StartUpdate
<1>1. Inband!InbandTypes'
  <2>1. v1' \in [inProgress: BOOLEAN, newImageId: Nat \union {NoImage},
        match: Nat \union {NoImage}]
    BY DEF Inband!InbandTypes, Inband!Dirs, Inband!Children
  <2>2. v8.update \in Nat /\ v8'.update = v8.update + 1 /\ v8'.update \in 0..MaxUpdates
    BY InbandAssumption DEF InbandAssumption, Inband!InbandTypes
  <2>3. v8'.sent \in [Lids -> 0..2] /\ v8'.clean \in BOOLEAN
    BY DEF Inband!Undisturbed
  <2>4. v8' \in [update: 0..MaxUpdates, sent: [Lids -> 0..2], clean: BOOLEAN]
    BY <2>2, <2>3
  <2>5. \A i \in DOMAIN v6 : v6[i].of <= v8'.update
    <3> TAKE i \in DOMAIN v6
    <3>1. v6[i] \in Inband!Image /\ v6[i].of <= v8.update
      BY DEF Inband!InbandTypes, Inband!Dirs, Inband!Children
    <3> QED
      BY <2>2, <3>1 DEF Inband!Image
  <2>6. ASSUME NEW u \in Inband!Processes, v5[u] # "none"
        PROVE  Inband!UpdateOf(u) <= v8'.update
    <3>1. Inband!UpdateOf(u) \in Nat /\ Inband!UpdateOf(u) <= v8.update
      BY <2>6, ProcessesKnown DEF Inband!InbandTypes
    <3> QED
      BY <2>2, <3>1
  <2> QED
    BY <2>1, <2>2, <2>4, <2>5, <2>6 DEF Inband!InbandTypes, Inband!Dirs, Inband!Children
<1>2. Inband!AbortClears' /\ Inband!EndMeansDone' /\ Inband!ImageIsWhole'
  BY DEF Inband!AbortClears, Inband!EndMeansDone, Inband!ImageIsWhole
<1>3. ASSUME v8'.clean
      PROVE  Inband!CleanUpdate'
  <2>1. /\ \A u \in Inband!Processes : v5[u] = "none"
        /\ \A i \in DOMAIN v6 : v6[i].state \notin {"added", "activating"}
        /\ v2 = {} /\ v3 = Inband!Empty /\ v4 = Inband!NoDirs
    BY <1>3 DEF Inband!Undisturbed, Inband!AbortClears
  <2>2. /\ v8'.update = v8.update + 1 /\ v8.update \in Nat
        /\ \A l \in Lids : v8'.sent[l] = 0
        /\ v7 # "START" /\ v1'.inProgress
    BY InbandAssumption DEF InbandAssumption, Inband!InbandTypes
  <2>3. ~Inband!Published'
    BY <2>2 DEF Inband!Published, Inband!InbandTypes
  <2>4. ~Inband!ChildIn({"squash", "extract", "publish"})'
        /\ ~Inband!ChildIn({"extract", "publish"})' /\ ~Inband!ChildIn({"clean"})'
           /\ ~Inband!ChildIn({"publish"})'
    BY <2>1 DEF Inband!ChildIn
  <2>5. Inband!Alone'
    BY <2>1, <2>2, <2>3 DEF Inband!Alone
  <2>6. Inband!ChunksStaged'
    BY <2>1, <2>2 DEF Inband!ChunksStaged, Inband!Empty
  <2>7. Inband!FilesStored'
    <3>1. Inband!Received(Lids \ BmcLids)' = {}
          /\ Inband!Received(Lids \intersect BmcLids)' = {}
      BY <2>2 DEF Inband!Received
    <3>2. /\ v4'.lids = {} /\ v4'.hostfw = {} /\ v4'.tar = <<>>
          /\ Inband!Range(<<>>) = {} /\ Inband!IsInjective(<<>>)
      BY <2>1 DEF Inband!NoDirs, Inband!Range, Inband!IsInjective
    <3>3. Inband!Range(v4'.tar) = {} /\ Inband!IsInjective(v4'.tar)
      BY <3>2
    <3> QED
      BY <2>1, <2>2, <2>3, <2>4, <3>1, <3>2, <3>3 DEF Inband!FilesStored,
        Inband!Stored, Inband!Assembling
  <2>8. Inband!MadeOnce' /\ Inband!NothingLeft'
    BY <2>1, <2>2, <2>3, <2>4 DEF Inband!MadeOnce, Inband!NothingLeft,
      Inband!Assembling
  <2> QED
    BY <2>5, <2>6, <2>7, <2>8 DEF Inband!CleanUpdate
<1> QED
  BY <1>1, <1>2, <1>3

LEMMA InbandStarted ==
  ASSUME Inband!InbandInv, Inband!processStartUpdate
  PROVE  Inband!InbandInv'
<1> USE DEF Inband!InbandInv, Inband!processStartUpdate
<1>0. /\ v6' \in Seq(Inband!Image) /\ Inband!ImageIsWhole'
      /\ \A i \in DOMAIN v6' : v6'[i].of <= v8'.update
      /\ Inband!Published' <=> Inband!Published
  <2>1. v6' = [i \in DOMAIN v6 |-> v6'[i]]
    OBVIOUS
  <2>2. ASSUME NEW i \in DOMAIN v6, v6[i] \in Inband!Image
        PROVE  /\ v6'[i] \in Inband!Image /\ v6'[i].content = v6[i].content
               /\ v6'[i].of = v6[i].of /\ v6'[i].clean = v6[i].clean
    BY <2>2 DEF Inband!Image
  <2> QED
    BY <2>1, <2>2, ImagesKept
<1>1. Inband!InbandTypes'
  BY <1>0 DEF Inband!InbandTypes, Inband!Dirs, Inband!Children
<1>2. Inband!AbortClears' /\ Inband!EndMeansDone'
  BY DEF Inband!AbortClears, Inband!EndMeansDone
<1>4. ASSUME v8.clean
      PROVE  Inband!CleanUpdate'
  <2> USE DEF Inband!CleanUpdate
  <2>1. v2' = {} /\ \A u \in Inband!Processes : v5'[u] = "none"
    BY <1>4 DEF Inband!Alone, Inband!InbandTypes
  <2>2. ~Inband!Published'
    BY <1>4, <1>0 DEF Inband!Alone
  <2>3. ~Inband!ChildIn({"extract", "publish"})
        /\ ~Inband!ChildIn({"squash", "extract", "publish"})'
           /\ ~Inband!ChildIn({"extract", "publish"})'
              /\ ~Inband!ChildIn({"clean"})' /\ ~Inband!ChildIn({"publish"})'
    BY <2>1 DEF Inband!ChildIn
  <2>4. Inband!Alone'
    <3>1. \A i \in DOMAIN v6' : v6'[i].state \notin {"added", "activating"}
      <4> TAKE i \in DOMAIN v6'
      <4>1. i \in DOMAIN v6 /\ v6[i] \in Inband!Image
        BY DEF Inband!InbandTypes, Inband!Dirs, Inband!Children
      <4> QED
        BY <4>1 DEF Inband!Image
    <3> QED
      BY <1>4, <2>1, <3>1 DEF Inband!Alone
  <2>5. Inband!ChunksStaged'
    BY <1>4 DEF Inband!ChunksStaged, Inband!Begun
  <2>6. Inband!FilesStored'
    <3>1. /\ Inband!Stored' <=> Inband!Stored
          /\ Inband!AllSent' <=> Inband!AllSent
      BY StoredKept
    <3> QED
      BY <1>4, <2>1, <2>2, <2>3, <1>0, <3>1 DEF Inband!FilesStored, Inband!Begun,
        Inband!Assembling, Inband!Alone
  <2>7. Inband!MadeOnce' /\ Inband!NothingLeft'
    BY <2>1, <2>2, <2>3 DEF Inband!MadeOnce, Inband!NothingLeft, Inband!Assembling
  <2> QED
    BY <2>4, <2>5, <2>6, <2>7
<1> QED
  BY <1>0, <1>1, <1>2, <1>4

LEMMA InbandEnd ==
  ASSUME Inband!InbandInv, Inband!EndUpdate
  PROVE  Inband!InbandInv'
<1> USE DEF Inband!InbandInv, Inband!EndUpdate
<1>1. /\ v8 \in [update: 0..MaxUpdates, sent: [Lids -> 0..2], clean: BOOLEAN]
      /\ v8' = [v8 EXCEPT !.clean = v8.clean /\ ~Inband!AtWork(v8.update)]
  BY DEF Inband!InbandTypes
<1>2. /\ v8' \in [update: 0..MaxUpdates, sent: [Lids -> 0..2], clean: BOOLEAN]
      /\ v8'.update = v8.update /\ v8'.sent = v8.sent
      /\ v8'.clean = (v8.clean /\ ~Inband!AtWork(v8.update))
  BY <1>1 DEF Inband!AtWork
<1>3. Inband!InbandTypes'
  BY <1>2 DEF Inband!InbandTypes, Inband!Dirs, Inband!Children
<1>4. Inband!AbortClears' /\ Inband!EndMeansDone' /\ Inband!ImageIsWhole'
  BY DEF Inband!AbortClears, Inband!EndMeansDone, Inband!ImageIsWhole
<1>5. ASSUME v8'.clean
      PROVE  Inband!CleanUpdate'
  <2> USE DEF Inband!CleanUpdate
  <2>0. v8.clean
    BY <1>2, <1>5
  <2>1. \A u \in Inband!Processes : v5[u] = "none"
    <3> TAKE u \in Inband!Processes
    <3>1. v5[u] # "none" => u = v8.update
      BY <2>0 DEF Inband!Alone
    <3>2. u \in 1..MaxUpdates => Inband!UpdateOf(u) = u
      BY ProcessesKnown
    <3>3. u = v8.update => u \in 1..MaxUpdates
      BY <1>1, InbandAssumption DEF InbandAssumption, Inband!Processes
    <3> QED
      BY <1>2, <1>5, <3>1, <3>2, <3>3 DEF Inband!AtWork
  <2>3. ~Inband!ChildIn({"extract", "publish"})' /\ ~Inband!ChildIn({"clean"})'
        /\ ~Inband!ChildIn({"squash", "extract", "publish"})
           /\ ~Inband!ChildIn({"extract", "publish"})
              /\ ~Inband!ChildIn({"clean"}) /\ ~Inband!ChildIn({"publish"})
    BY <2>1 DEF Inband!ChildIn
  <2>4. Inband!Alone'
    BY <1>2, <2>0, <2>1 DEF Inband!Alone
  <2>5. Inband!ChunksStaged'
    BY <1>2, <2>0 DEF Inband!ChunksStaged, Inband!Begun
  <2>6. Inband!FilesStored'
    <3>1. /\ Inband!Stored' <=> Inband!Stored
          /\ Inband!AllSent' <=> Inband!AllSent
      BY <1>2, StoredKept
    <3>2. Inband!AllSent
      BY DEF Inband!AllSent
    <3>3. Inband!Published' <=> Inband!Published
      BY <1>2 DEF Inband!Published
    <3> QED
      BY <2>0, <2>3, <3>1, <3>2, <3>3 DEF Inband!FilesStored, Inband!Begun,
        Inband!ChildIn
  <2>7. Inband!MadeOnce' /\ Inband!NothingLeft'
    <3>1. Inband!Published' <=> Inband!Published
      BY <1>2 DEF Inband!Published
    <3> QED
      BY <2>0, <2>3, <3>1 DEF Inband!MadeOnce, Inband!NothingLeft, Inband!Assembling,
        Inband!Begun, Inband!ChildIn
  <2> QED
    BY <2>4, <2>5, <2>6, <2>7
<1> QED
  BY <1>3, <1>4, <1>5

LEMMA InbandEnded ==
  ASSUME Inband!InbandInv, Inband!processEndUpdate
  PROVE  Inband!InbandInv'
<1> USE DEF Inband!InbandInv, Inband!processEndUpdate
<1>1. Inband!InbandTypes'
  <2>1. /\ v1' \in [inProgress: BOOLEAN, newImageId: Nat \union {NoImage},
                  match: Nat \union {NoImage}]
        /\ v7' \in {"START", "END", "ABORT", "FAIL"}
    BY DEF Inband!InbandTypes, Inband!Dirs, Inband!Children
  <2>2. /\ v5' \in Inband!Children
        /\ \A u \in Inband!Processes : v5'[u] # "none" => Inband!UpdateOf(u) <= v8.update
    <3>1. /\ v5 \in Inband!Children
          /\ \A u \in Inband!Processes : v5[u] # "none" => Inband!UpdateOf(u) <= v8.update
          /\ v8.update \in 0..MaxUpdates /\ v8.update >= 1
      BY DEF Inband!InbandTypes, Inband!Dirs, Inband!Children
    <3>2. \A p \in Inband!Processes : Inband!UpdateOf(p) \in Nat
      BY ProcessesKnown
    <3>3. v8.update <= v8.update /\ v8.update + MaxUpdates \in Nat
      BY <3>1, InbandAssumption DEF InbandAssumption
    <3>4. Inband!Forked \in Inband!Processes => Inband!UpdateOf(Inband!Forked) <= v8.update
      <4> SUFFICES ASSUME Inband!Forked \in Inband!Processes
                   PROVE  Inband!UpdateOf(Inband!Forked) <= v8.update
        OBVIOUS
      <4>1. Inband!Forked \in {v8.update, v8.update + MaxUpdates}
        BY DEF Inband!Forked
      <4> QED
        BY <3>1, <4>1, InbandAssumption DEF InbandAssumption, Inband!UpdateOf,
          Inband!Processes
    <3>5. v5' = v5 \/ v5' = [v5 EXCEPT ![Inband!Forked] = "squash"]
      OBVIOUS
    <3> QED
      BY <3>1, <3>4, <3>5, ProcessesKnown DEF Inband!Children
  <2> QED
    BY <2>1, <2>2 DEF Inband!InbandTypes, Inband!Dirs, Inband!Children
<1>2. Inband!AbortClears' /\ Inband!EndMeansDone' /\ Inband!ImageIsWhole'
  BY DEF Inband!AbortClears, Inband!EndMeansDone, Inband!ImageIsWhole,
    Inband!InbandTypes
<1>3. ASSUME v8.clean
      PROVE  Inband!CleanUpdate'
  <2> USE DEF Inband!CleanUpdate
  <2>0. v2 = {"end"} /\ v2' = {} /\ \A u \in Inband!Processes : v5[u] = "none"
    BY <1>3 DEF Inband!Alone, Inband!InbandTypes
  <2>1. \A u \in Inband!Processes :
          v5'[u] = IF v5' # v5 /\ u = v8.update THEN "squash" ELSE "none"
    <3>1. v5 \in Inband!Children /\ v8.update \in 0..MaxUpdates
      BY DEF Inband!InbandTypes
    <3>2. v8.update \in Inband!Processes => Inband!Forked = v8.update
      BY <2>0 DEF Inband!Forked
    <3>3. v8.update \notin Inband!Processes =>
            /\ v8.update = 0
            /\ Inband!Forked \in {0, MaxUpdates}
      BY <3>1, InbandAssumption DEF InbandAssumption, Inband!Processes, Inband!Forked
    <3>4. v8.update >= 1
      BY <2>0 DEF Inband!InbandTypes
    <3> QED
      BY <2>0, <3>1, <3>2, <3>3, <3>4 DEF Inband!Children
  <2>2. /\ ~Inband!ChildIn({"extract", "publish"})
           /\ ~Inband!ChildIn({"extract", "publish"})'
        /\ ~Inband!ChildIn({"clean"}) /\ ~Inband!ChildIn({"clean"})'
        /\ ~Inband!ChildIn({"publish"})'
        /\ v7' # "START"
           /\ v7' # v7 => ~Inband!ChildIn({"squash", "extract", "publish"})'
    BY <2>0, <2>1 DEF Inband!ChildIn
  <2>3. /\ Inband!Published' <=> Inband!Published
        /\ Inband!Begun' => v7' = "START" /\ v7 = "START" /\ v1' = v1
    BY <2>0 DEF Inband!Published, Inband!Begun
  <2>4. Inband!Alone'
    BY <1>3, <2>0, <2>1 DEF Inband!Alone
  <2>5. Inband!ChunksStaged'
    BY <1>3, <2>3 DEF Inband!ChunksStaged, Inband!Begun
  <2>6. Inband!FilesStored'
    <3>1. /\ Inband!Stored' <=> Inband!Stored
          /\ Inband!AllSent' <=> Inband!AllSent
      BY StoredKept
    <3> QED
      BY <1>3, <2>0, <2>1, <2>2, <2>3, <3>1 DEF Inband!FilesStored, Inband!Begun,
        Inband!Assembling
  <2>7. Inband!MadeOnce' /\ Inband!NothingLeft'
    BY <1>3, <2>0, <2>1, <2>2, <2>3 DEF Inband!MadeOnce, Inband!NothingLeft,
      Inband!Assembling, Inband!Begun
  <2> QED
    BY <2>4, <2>5, <2>6, <2>7
<1> QED
  BY <1>1, <1>2, <1>3

\* Nothing of this update is at work, and it is not begun.
LEMMA NothingAtWork ==
  ASSUME \A u \in Inband!Processes : v5'[u] = "none", "end" \notin v2', ~Inband!Begun',
         "start" \notin v2', Inband!InbandInv, v6' = v6, v8' = v8, v8.clean
  PROVE  Inband!CleanUpdate'
<1>1. Inband!Alone'
  BY DEF Inband!Alone, Inband!InbandInv, Inband!CleanUpdate
<1>2. ~Inband!ChildIn({"squash", "extract", "publish"})'
      /\ ~Inband!ChildIn({"extract", "publish"})'
      /\ ~Inband!ChildIn({"clean"})' /\ ~Inband!ChildIn({"publish"})'
  BY DEF Inband!ChildIn
<1> QED
  BY <1>1, <1>2 DEF Inband!CleanUpdate, Inband!ChunksStaged, Inband!FilesStored,
    Inband!MadeOnce, Inband!NothingLeft, Inband!Assembling

\* The place of the child of an update, when it moves.
LEMMA ChildMoves ==
  ASSUME Inband!InbandTypes, NEW u \in Inband!Processes, v5[u] # "none",
         NEW to \in {"none", "squash", "extract", "publish", "clean"},
         v5' = [v5 EXCEPT ![u] = to]
  PROVE  /\ v5' \in Inband!Children /\ v5'[u] = to
         /\ \A w \in Inband!Processes : w # u => v5'[w] = v5[w]
         /\ \A w \in Inband!Processes : v5'[w] # "none" => Inband!UpdateOf(w) <= v8.update
         /\ v8.clean /\ Inband!Alone =>
              /\ v2 = {} /\ u = v8.update
              /\ \A w \in Inband!Processes : w # u => v5[w] = "none" /\ v5'[w] = "none"
  BY DEF Inband!InbandTypes, Inband!Children, Inband!Alone

LEMMA InbandChildFails ==
  ASSUME Inband!InbandInv, NEW u \in Inband!Processes, v5[u] # "none", Inband!ChildFails(u)
  PROVE  Inband!InbandInv'
<1> USE DEF Inband!InbandInv, Inband!ChildFails
<1>1. Inband!InbandTypes'
  BY DEF Inband!InbandTypes, Inband!Dirs, Inband!Children
<1>2. Inband!AbortClears' /\ Inband!EndMeansDone' /\ Inband!ImageIsWhole'
  BY DEF Inband!AbortClears, Inband!EndMeansDone, Inband!ImageIsWhole
<1>3. ASSUME v8.clean
      PROVE  Inband!CleanUpdate'
  <2>1. v2' = {} /\ \A w \in Inband!Processes : v5'[w] = "none"
    <3>1. v8.clean /\ Inband!Alone /\ v2' = v2 /\ v5' = [v5 EXCEPT ![u] = "none"]
      BY <1>3 DEF Inband!CleanUpdate
    <3> QED
      BY <3>1, ChildMoves
  <2>2. ~Inband!Begun'
    BY <2>1 DEF Inband!Begun
  <2> QED
    BY <1>3, <2>1, <2>2, NothingAtWork
<1> QED
  BY <1>1, <1>2, <1>3

LEMMA InbandSquash ==
  ASSUME Inband!InbandInv, NEW u \in Inband!Processes, Inband!Squash(u)
  PROVE  Inband!InbandInv'
<1>0. CASE Inband!ChildFails(u)
  BY <1>0, InbandChildFails DEF Inband!Squash
<1>1. CASE ~Inband!ChildFails(u)
  <2>0. /\ v5[u] = "squash" /\ v5' = [v5 EXCEPT ![u] = "extract"] /\ v4.made
        /\ v4' = [v4 EXCEPT !.hostfw = v4.hostfw \union v4.lids]
        /\ v1' = v1 /\ v2' = v2 /\ v3' = v3 /\ v6' = v6 /\ v7' = v7 /\ v8' = v8
    BY <1>1 DEF Inband!Squash
  <2> USE <2>0 DEF Inband!InbandInv
  <2>1. Inband!InbandTypes'
    <3>0. /\ v4 \in Inband!Dirs
          /\ v5 \in Inband!Children
          /\ \A w \in Inband!Processes : v5[w] # "none" => Inband!UpdateOf(w) <= v8.update
          /\ Inband!IsFiniteSet(v4.lids) /\ Inband!IsFiniteSet(v4.hostfw)
      BY DEF Inband!InbandTypes, Inband!Dirs, Inband!Children
    <3>1. /\ v4' \in Inband!Dirs
          /\ v4'.lids = v4.lids /\ v4'.hostfw = v4.hostfw \union v4.lids
      BY <3>0 DEF Inband!Dirs, Inband!Children
    <3>2. Inband!IsFiniteSet(v4'.hostfw) /\ Inband!IsFiniteSet(v4'.lids)
      BY <3>0, <3>1, SameFiniteSets, FS_Union
    <3>3. v5' \in Inband!Children
          /\ \A w \in Inband!Processes : v5'[w] # "none" => Inband!UpdateOf(w) <= v8.update
      BY <3>0 DEF Inband!Dirs, Inband!Children
    <3> QED
      BY <3>1, <3>2, <3>3 DEF Inband!InbandTypes, Inband!Dirs, Inband!Children
  <2>2. v7 # "ABORT" /\ v4 # Inband!NoDirs
    BY DEF Inband!AbortClears, Inband!NoDirs
  <2>3. Inband!AbortClears' /\ Inband!EndMeansDone' /\ Inband!ImageIsWhole'
    BY <2>2 DEF Inband!AbortClears, Inband!EndMeansDone, Inband!ImageIsWhole
  <2>4. ASSUME v8.clean
        PROVE  Inband!CleanUpdate'
    <3> USE DEF Inband!CleanUpdate
    <3>1. /\ v2 = {} /\ u = v8.update
          /\ \A w \in Inband!Processes : v5[w] = IF w = u THEN "squash" ELSE "none"
          /\ \A w \in Inband!Processes : v5'[w] = IF w = u THEN "extract" ELSE "none"
      <4>1. Inband!InbandTypes /\ v8.clean /\ Inband!Alone
        BY <2>4
      <4>2. /\ v5'[u] = "extract" /\ v2 = {} /\ u = v8.update
            /\ \A w \in Inband!Processes : w # u => v5[w] = "none" /\ v5'[w] = "none"
        BY <4>1, ChildMoves
      <4> QED
        BY <4>2
    <3>2. /\ Inband!Assembling /\ ~Inband!ChildIn({"extract", "publish"})
             /\ ~Inband!ChildIn({"clean"})
          /\ ~Inband!ChildIn({"clean"})'
             /\ Inband!ChildIn({"extract", "publish"})' /\ ~Inband!ChildIn({"publish"})'
      BY <3>1 DEF Inband!Assembling, Inband!ChildIn
    <3>3. v7 = "START" /\ ~Inband!Published /\ ~Inband!Published'
      BY <2>2, <2>4, <3>2 DEF Inband!NothingLeft, Inband!Published
    <3>4. Inband!Stored /\ v4.hostfw = {} /\ Inband!AllSent /\ v1.inProgress
      BY <2>4, <3>2, <3>3 DEF Inband!FilesStored, Inband!Begun
    <3>5. v4'.lids = v4.lids /\ v4'.tar = v4.tar /\ v4'.made = v4.made
          /\ v4'.hostfw = v4.lids
      BY <3>4 DEF Inband!InbandTypes, Inband!Dirs, Inband!Children
    <3>6. Inband!Stored' /\ Inband!AllSent'
      BY <3>4, <3>5 DEF Inband!Stored, Inband!Received, Inband!AllSent
    <3>7. Inband!Alone' /\ Inband!ChunksStaged'
      BY <2>4, <3>1, <3>3 DEF Inband!Alone, Inband!ChunksStaged, Inband!Begun
    <3>8. Inband!FilesStored' /\ Inband!MadeOnce' /\ Inband!NothingLeft'
      BY <3>2, <3>3, <3>4, <3>5, <3>6 DEF Inband!FilesStored, Inband!MadeOnce,
        Inband!NothingLeft
    <3> QED
      BY <3>7, <3>8
  <2> QED
    BY <2>1, <2>3, <2>4
<1> QED
  BY <1>0, <1>1

LEMMA InbandExtract ==
  ASSUME Inband!InbandInv, NEW u \in Inband!Processes, Inband!Extract(u)
  PROVE  Inband!InbandInv'
<1>0. CASE Inband!ChildFails(u)
  BY <1>0, InbandChildFails DEF Inband!Extract
<1>1. CASE ~Inband!ChildFails(u)
  <2>0. /\ v5[u] = "extract" /\ v5' = [v5 EXCEPT ![u] = "publish"] /\ v4.tar # <<>>
        /\ v4' = [v4 EXCEPT !.update = v4.tar]
        /\ v1' = v1 /\ v2' = v2 /\ v3' = v3 /\ v6' = v6 /\ v7' = v7 /\ v8' = v8
    BY <1>1 DEF Inband!Extract
  <2> USE <2>0 DEF Inband!InbandInv
  <2>1. Inband!InbandTypes'
    <3>1. v4 \in Inband!Dirs
      BY DEF Inband!InbandTypes
    <3>2. v4' \in Inband!Dirs /\ v4'.lids = v4.lids /\ v4'.hostfw = v4.hostfw
      BY <3>1 DEF Inband!Dirs
    <3> QED
      BY <3>2, ChildMoves DEF Inband!InbandTypes
  <2>2. v7 # "ABORT" /\ v4 # Inband!NoDirs
    BY DEF Inband!AbortClears, Inband!NoDirs
  <2>3. Inband!AbortClears' /\ Inband!EndMeansDone' /\ Inband!ImageIsWhole'
    BY <2>2 DEF Inband!AbortClears, Inband!EndMeansDone, Inband!ImageIsWhole
  <2>4. ASSUME v8.clean
        PROVE  Inband!CleanUpdate'
    <3> USE DEF Inband!CleanUpdate
    <3>1. /\ v2 = {} /\ u = v8.update
          /\ \A w \in Inband!Processes : v5[w] = IF w = u THEN "extract" ELSE "none"
          /\ \A w \in Inband!Processes : v5'[w] = IF w = u THEN "publish" ELSE "none"
      BY ZenonT(30), <2>4, ChildMoves
    <3>2. /\ Inband!Assembling /\ Inband!ChildIn({"extract", "publish"})
          /\ ~Inband!ChildIn({"clean"})' /\ Inband!ChildIn({"extract", "publish"})'
      BY <3>1 DEF Inband!Assembling, Inband!ChildIn
    <3>3. v7 = "START" /\ ~Inband!Published /\ ~Inband!Published'
      BY <2>2, <2>4, <3>2 DEF Inband!NothingLeft, Inband!Published
    <3>4. Inband!Stored /\ Inband!AllSent /\ v1.inProgress /\ v4.made
          /\ v4.hostfw = v4.lids
      BY <2>4, <3>2, <3>3 DEF Inband!FilesStored, Inband!Begun, Inband!MadeOnce
    <3>5. /\ v4'.lids = v4.lids /\ v4'.tar = v4.tar /\ v4'.made = v4.made
          /\ v4'.hostfw = v4.hostfw /\ v4'.update = v4.tar
      BY DEF Inband!InbandTypes, Inband!Dirs
    <3>6. Inband!Stored' /\ Inband!AllSent'
      BY <3>4, <3>5 DEF Inband!Stored, Inband!Received, Inband!AllSent
    <3>7. Inband!Alone' /\ Inband!ChunksStaged'
      BY <2>4, <3>1, <3>3 DEF Inband!Alone, Inband!ChunksStaged, Inband!Begun
    <3>8. Inband!FilesStored' /\ Inband!MadeOnce' /\ Inband!NothingLeft'
      BY <3>2, <3>3, <3>4, <3>5, <3>6 DEF Inband!FilesStored, Inband!MadeOnce,
        Inband!NothingLeft
    <3> QED
      BY <3>7, <3>8
  <2> QED
    BY <2>1, <2>3, <2>4
<1> QED
  BY <1>0, <1>1

LEMMA InbandCleanup ==
  ASSUME Inband!InbandInv, NEW u \in Inband!Processes, Inband!Cleanup(u)
  PROVE  Inband!InbandInv'
<1> USE DEF Inband!InbandInv, Inband!Cleanup
<1>1. Inband!InbandTypes'
  BY ChildMoves, NoFiles DEF Inband!InbandTypes
<1>2. Inband!AbortClears' /\ Inband!EndMeansDone' /\ Inband!ImageIsWhole'
  BY DEF Inband!AbortClears, Inband!EndMeansDone, Inband!ImageIsWhole
<1>3. ASSUME v8.clean
      PROVE  Inband!CleanUpdate'
  <2> USE DEF Inband!CleanUpdate
  <2>1. v2 = {} /\ \A w \in Inband!Processes : v5'[w] = "none"
    BY <1>3, ChildMoves
  <2>2. /\ ~Inband!ChildIn({"squash", "extract", "publish"})'
           /\ ~Inband!ChildIn({"extract", "publish"})'
        /\ ~Inband!ChildIn({"clean"})' /\ ~Inband!ChildIn({"publish"})'
           /\ Inband!ChildIn({"clean"})
    BY <2>1 DEF Inband!ChildIn
  <2>3. Inband!Published /\ Inband!Published'
    BY <1>3, <2>2 DEF Inband!MadeOnce, Inband!Published
  <2>4. Inband!Alone' /\ Inband!ChunksStaged'
    BY <1>3, <2>1 DEF Inband!Alone, Inband!ChunksStaged, Inband!Begun
  <2>5. Inband!FilesStored'
    BY <1>3, <2>2, <2>3 DEF Inband!FilesStored, Inband!Begun, Inband!AllSent
  <2>6. Inband!MadeOnce' /\ Inband!NothingLeft'
    BY <2>1, <2>2, <2>3 DEF Inband!MadeOnce, Inband!NothingLeft
  <2> QED
    BY <2>4, <2>5, <2>6
<1> QED
  BY <1>1, <1>2, <1>3

LEMMA InbandAbort ==
  ASSUME Inband!InbandInv, Inband!AbortUpdate
  PROVE  Inband!InbandInv'
<1> USE DEF Inband!InbandInv, Inband!AbortUpdate, Inband!Cleared
<1>1. Inband!InbandTypes'
  <2>1. v1' \in [inProgress: BOOLEAN, newImageId: Nat \union {NoImage},
        match: Nat \union {NoImage}]
    BY DEF Inband!InbandTypes
  <2> QED
    BY <2>1, NoFiles DEF Inband!InbandTypes
<1>2. Inband!AbortClears' /\ Inband!EndMeansDone' /\ Inband!ImageIsWhole'
  BY DEF Inband!AbortClears, Inband!EndMeansDone, Inband!ImageIsWhole,
    Inband!InbandTypes
<1>3. ASSUME v8.clean
      PROVE  Inband!CleanUpdate'
  <2> USE DEF Inband!CleanUpdate
  <2>1. ~Inband!Begun' /\ v7' # "START" /\ v4' = Inband!NoDirs
    BY DEF Inband!Begun
  <2>2. Inband!Alone'
    BY <1>3 DEF Inband!Alone
  <2>3. Inband!ChildIn({"clean"})' => Inband!Published'
    BY <1>3 DEF Inband!MadeOnce, Inband!ChildIn, Inband!Published
  <2> QED
    BY <2>1, <2>2, <2>3 DEF Inband!ChunksStaged, Inband!FilesStored,
      Inband!MadeOnce, Inband!NothingLeft
<1> QED
  BY <1>1, <1>2, <1>3

\* What the files received of all LIDs make is whole.
LEMMA AssembledWhole ==
  ASSUME v4 \in Inband!Dirs, Inband!IsFiniteSet(v4.lids), Inband!Stored, Inband!AllSent
  PROVE  Inband!Whole(v4.tar \o Inband!SetToSeq(v4.lids), v8.update)
<1> DEFINE t == v4.tar
           s == Inband!SetToSeq(v4.lids)
           c == t \o s
           n == Len(c)
           F == <<v8.update, v8.update>>
           f == [k \in 1..n |-> c[k][1]]
<1>1. /\ t \in Seq(Inband!File) /\ v4.lids \subseteq Inband!File
  BY DEF Inband!Dirs
<1>2. /\ s \in Seq(v4.lids) /\ Inband!IsInjective(s) /\ Inband!Range(s) = v4.lids
  BY SetAsSequence, SameFiniteSets
<1> HIDE DEF s
<1>3. /\ \A k \in 1..Len(t) : \E l \in Lids : l \in BmcLids /\ t[k] = <<l, F>>
      /\ \A l \in Lids : l \in BmcLids => \E k \in 1..Len(t) : t[k] = <<l, F>>
      /\ \A j, k \in 1..Len(t) : t[j] = t[k] => j = k
  <2>1. DOMAIN t = 1..Len(t)
    BY <1>1
  <2>2. Inband!Range(t) = {<<l, F>> : l \in Lids \intersect BmcLids}
    BY DEF Inband!Stored, Inband!Received, Inband!AllSent
  <2>3. {t[k] : k \in 1..Len(t)} = {<<l, F>> : l \in Lids \intersect BmcLids}
    <3> HIDE DEF t, F
    <3> QED
      BY <2>1, <2>2 DEF Inband!Range
  <2>4. Inband!IsInjective(t)
    BY DEF Inband!Stored
  <2>5. \A j, k \in 1..Len(t) : t[j] = t[k] => j = k
    <3> HIDE DEF t
    <3> QED
      BY <2>1, <2>4 DEF Inband!IsInjective
  <2> HIDE DEF t, F
  <2> QED
    BY <2>3, <2>5
<1>4. /\ \A k \in 1..Len(s) : \E l \in Lids : l \notin BmcLids /\ s[k] = <<l, F>>
      /\ \A l \in Lids : l \notin BmcLids => \E k \in 1..Len(s) : s[k] = <<l, F>>
      /\ \A j, k \in 1..Len(s) : s[j] = s[k] => j = k
  <2>1. DOMAIN s = 1..Len(s)
    BY <1>2
  <2>2. Inband!Range(s) = {<<l, F>> : l \in Lids \ BmcLids}
    BY <1>2 DEF Inband!Stored, Inband!Received, Inband!AllSent
  <2>3. {s[k] : k \in 1..Len(s)} = {<<l, F>> : l \in Lids \ BmcLids}
    BY <2>1, <2>2 DEF Inband!Range
  <2>4. \A j, k \in 1..Len(s) : s[j] = s[k] => j = k
    BY <1>2, <2>1 DEF Inband!IsInjective
  <2> QED
    BY <2>3, <2>4
<1> HIDE DEF t
<1>5. /\ n = Len(t) + Len(s) /\ Len(t) \in Nat /\ Len(s) \in Nat /\ n \in Nat
      /\ DOMAIN c = 1..n
      /\ \A k \in 1..n : c[k] = IF k <= Len(t) THEN t[k] ELSE s[k - Len(t)]
  <2>1. s \in Seq(Inband!File)
    BY <1>1, <1>2, SeqMonotonic
  <2>2. t \in Seq(Inband!File)
    BY <1>1 DEF t
  <2> QED
    BY <2>1, <2>2
<1> HIDE DEF c, n
<1>6. \A k \in 1..n :
        /\ k <= Len(t) => \E l \in Lids : l \in BmcLids /\ c[k] = <<l, F>>
        /\ k > Len(t) => k - Len(t) \in 1..Len(s)
                         /\ \E l \in Lids : l \notin BmcLids /\ c[k] = <<l, F>>
  BY <1>3, <1>4, <1>5
<1>7. \A k \in 1..n : c[k][1] \in Lids /\ c[k][2] = F /\ c[k] = <<c[k][1], F>>
                    /\ (c[k][1] \in BmcLids <=> k <= Len(t))
  BY <1>5, <1>6
<1>8. ASSUME NEW j \in 1..n, NEW k \in 1..n, c[j][1] = c[k][1]
      PROVE  j = k
  <2>1. c[j] = c[k] /\ (j <= Len(t) <=> k <= Len(t))
    BY <1>7, <1>8
  <2>2. CASE j <= Len(t)
    BY <1>3, <1>5, <2>1, <2>2
  <2>3. CASE j > Len(t)
    <3>1. s[j - Len(t)] = s[k - Len(t)]
      BY <1>5, <2>1, <2>3
    <3>2. j - Len(t) \in 1..Len(s) /\ k - Len(t) \in 1..Len(s)
      BY <1>5, <1>6, <2>1, <2>3
    <3>3. j - Len(t) = k - Len(t)
      BY <1>4, <3>1, <3>2
    <3> QED
      BY <1>5, <3>3
  <2> QED
    BY <1>5, <2>2, <2>3
<1>9. \A l \in Lids : \E k \in 1..n : c[k][1] = l
  <2> TAKE l \in Lids
  <2>1. CASE l \in BmcLids
    <3>1. PICK k \in 1..Len(t) : t[k] = <<l, F>>
      BY <1>3, <2>1
    <3> QED
      BY <1>5, <3>1
  <2>2. CASE l \notin BmcLids
    <3>1. PICK k \in 1..Len(s) : s[k] = <<l, F>>
      BY <1>4, <2>2
    <3>2. k + Len(t) \in 1..n /\ ~(k + Len(t) <= Len(t)) /\ (k + Len(t)) - Len(t) = k
      BY <1>5, <3>1
    <3>3. c[k + Len(t)] = <<l, F>>
      BY <1>5, <3>1, <3>2
    <3> QED
      BY <3>2, <3>3
  <2> QED
    BY <2>1, <2>2
<1>10. f \in Bijection(1..n, Lids)
  BY <1>7, <1>8, <1>9 DEF Bijection, Injection, Surjection, IsInjective
<1>11. Cardinality(Lids) = n
  <2>0. n \in Nat
    BY <1>5
  <2>1. IsFiniteSet(1..n) /\ Cardinality(1..n) = n
    BY <2>0, FS_Interval
  <2>2. ExistsBijection(1..n, Lids)
    BY <1>10 DEF ExistsBijection
  <2> QED
    BY <2>1, <2>2, FS_Bijection
<1>12. n = Len(c) /\ {c[k][1] : k \in DOMAIN c} = Lids
  <2>1. n = Len(c)
    BY DEF n
  <2> QED
    BY <1>5, <1>7, <1>9, <2>1
<1>13. Inband!Whole(c, v8.update)
  BY <1>5, <1>7, <1>11, <1>12, SameFiniteSets DEF Inband!Whole
<1> QED
  BY <1>13 DEF c, t, s

LEMMA InbandPublish ==
  ASSUME Inband!InbandInv, NEW u \in Inband!Processes, Inband!Publish(u)
  PROVE  Inband!InbandInv'
<1>0. CASE Inband!ChildFails(u)
  BY <1>0, InbandChildFails DEF Inband!Publish
<1>1. CASE /\ v5[u] = "publish" /\ ~v4.made /\ v5' = [v5 EXCEPT ![u] = "none"]
           /\ UNCHANGED <<v1, v2, v3, v4, v6, v7, v8>>
  <2> USE <1>1 DEF Inband!InbandInv
  <2>1. Inband!InbandTypes'
    BY ChildMoves DEF Inband!InbandTypes
  <2>2. Inband!AbortClears' /\ Inband!EndMeansDone' /\ Inband!ImageIsWhole'
    BY DEF Inband!AbortClears, Inband!EndMeansDone, Inband!ImageIsWhole
  <2>3. ASSUME v8.clean
        PROVE  Inband!CleanUpdate'
    <3>1. v2 = {} /\ v2' = {} /\ \A w \in Inband!Processes : v5'[w] = "none"
      BY <2>3, ChildMoves DEF Inband!CleanUpdate
    <3>2. Inband!ChildIn({"extract", "publish"})
      BY DEF Inband!ChildIn
    <3>3. ~Inband!Begun'
      BY <2>3, <3>1, <3>2 DEF Inband!Begun, Inband!CleanUpdate, Inband!MadeOnce
    <3> QED
      BY <2>3, <3>1, <3>3, NothingAtWork
  <2> QED
    BY <2>1, <2>2, <2>3
<1>2. CASE ~Inband!ChildFails(u) /\ v4.made
  <2> DEFINE made == [content |-> v4.update \o Inband!SetToSeq(v4.hostfw), of |-> Inband!UpdateOf(u),
                      state |-> "added", clean |-> v8.clean /\ v8.update = Inband!UpdateOf(u)]
  <2>0. /\ v5[u] = "publish" /\ v5' = [v5 EXCEPT ![u] = "clean"]
           /\ v6' = Append(v6, made)
        /\ v1' = v1 /\ v2' = v2 /\ v3' = v3 /\ v4' = v4 /\ v7' = v7 /\ v8' = v8
    BY <1>2 DEF Inband!Publish
  <2> USE <2>0 DEF Inband!InbandInv
  <2>1. /\ v4 \in Inband!Dirs /\ Inband!IsFiniteSet(v4.hostfw)
        /\ Inband!IsFiniteSet(v4.lids) /\ v6 \in Seq(Inband!Image)
        /\ v8.update \in Nat /\ Inband!UpdateOf(u) \in Nat
        /\ Inband!UpdateOf(u) <= v8.update
    BY InbandAssumption, ProcessesKnown DEF InbandAssumption, Inband!InbandTypes
  <2>2. made \in Inband!Image
    <3>1. Inband!SetToSeq(v4.hostfw) \in Seq(v4.hostfw)
      BY <2>1, SetAsSequence, SameFiniteSets
    <3>2. v4.update \in Seq(Inband!File) /\ v4.hostfw \subseteq Inband!File
      BY <2>1 DEF Inband!Dirs
    <3>3. Inband!SetToSeq(v4.hostfw) \in Seq(Inband!File)
      BY <3>1, <3>2, SeqMonotonic
    <3>4. v4.update \o Inband!SetToSeq(v4.hostfw) \in Seq(Inband!File)
      BY <3>2, <3>3, ConcatProperties
    <3> QED
      BY <2>1, <3>4 DEF Inband!Image
  <2>3. /\ v6' \in Seq(Inband!Image) /\ DOMAIN v6' = DOMAIN v6 \union {Len(v6) + 1}
        /\ v6'[Len(v6) + 1] = made /\ \A i \in DOMAIN v6 : v6'[i] = v6[i]
        /\ Len(v6) + 1 \notin DOMAIN v6
    <3> HIDE DEF made
    <3> QED
      BY <2>1, <2>2
  <2>4. Inband!InbandTypes'
    <3>1. made.of <= v8.update
      BY <2>1
    <3> HIDE DEF made
    <3>2. \A i \in DOMAIN v6' : v6'[i].of <= v8'.update
      BY <2>3, <3>1 DEF Inband!InbandTypes
    <3>3. v5' \in Inband!Children
          /\ \A w \in Inband!Processes : v5'[w] # "none" => Inband!UpdateOf(w) <= v8'.update
      BY ChildMoves
    <3> QED
      BY <2>3, <3>2, <3>3 DEF Inband!InbandTypes
  <2>5. Inband!AbortClears' /\ Inband!EndMeansDone'
    BY DEF Inband!AbortClears, Inband!EndMeansDone
  <2>6. ASSUME v8.clean
        PROVE  /\ u = v8.update /\ v2 = {} /\ v4.update = v4.tar /\ v4.hostfw = v4.lids
               /\ Inband!Stored /\ Inband!AllSent /\ v7 = "START"
               /\ \A w \in Inband!Processes : v5'[w] = IF w = u THEN "clean" ELSE "none"
    <3> USE <2>6 DEF Inband!CleanUpdate
    <3>1. /\ u = v8.update /\ v2 = {}
          /\ \A w \in Inband!Processes : v5'[w] = IF w = u THEN "clean" ELSE "none"
      BY ZenonT(30), ChildMoves
    <3>2. /\ Inband!Assembling /\ Inband!ChildIn({"extract", "publish"})
          /\ Inband!ChildIn({"publish"})
      BY DEF Inband!Assembling, Inband!ChildIn
    <3>3. v7 = "START" /\ ~Inband!Published
      BY <1>2, <3>2 DEF Inband!NothingLeft, Inband!NoDirs
    <3> QED
      BY <3>1, <3>2, <3>3 DEF Inband!FilesStored, Inband!Begun, Inband!MadeOnce
  <2>7. made.clean => Inband!Whole(made.content, made.of)
    BY <2>1, <2>6, AssembledWhole
  <2>8. Inband!ImageIsWhole'
    <3> HIDE DEF made
    <3> QED
      BY <2>3, <2>7 DEF Inband!ImageIsWhole
  <2>9. ASSUME v8.clean
        PROVE  Inband!CleanUpdate'
    <3> USE <2>9 DEF Inband!CleanUpdate
    <3>1. /\ ~Inband!ChildIn({"squash", "extract", "publish"})'
             /\ ~Inband!ChildIn({"extract", "publish"})'
          /\ ~Inband!ChildIn({"publish"})' /\ Inband!ChildIn({"clean"})'
      BY <2>6 DEF Inband!ChildIn
    <3>2. made.of = v8.update
      <4>1. u = v8.update /\ v8.update \in 0..MaxUpdates /\ MaxUpdates \in Nat
        BY <2>6, InbandAssumption DEF Inband!InbandTypes, InbandAssumption
      <4>2. u \in 1..MaxUpdates
        BY <4>1 DEF Inband!Processes
      <4> QED
        BY <4>1, <4>2, ProcessesKnown
    <3>3. Inband!Published'
      <4> HIDE DEF made
      <4> QED
        BY <2>3, <3>2 DEF Inband!Published
    <3>4. Inband!Alone'
      <4> HIDE DEF made
      <4>1. \A i \in DOMAIN v6' :
              v6'[i].state \in {"added", "activating"} => v6'[i].of = v8'.update
        BY <2>3, <3>2 DEF Inband!Alone
      <4> QED
        BY <2>6, <4>1 DEF Inband!Alone
    <3>5. Inband!ChunksStaged' /\ Inband!AllSent'
      BY <2>6 DEF Inband!ChunksStaged, Inband!Begun, Inband!AllSent
    <3>6. Inband!FilesStored' /\ Inband!MadeOnce' /\ Inband!NothingLeft'
      BY <2>6, <3>1, <3>3, <3>5 DEF Inband!FilesStored, Inband!MadeOnce,
        Inband!NothingLeft, Inband!Assembling
    <3> QED
      BY <3>4, <3>5, <3>6
  <2> QED
    BY <2>4, <2>5, <2>8, <2>9
<1> QED
  BY <1>0, <1>1, <1>2 DEF Inband!Publish

\* The software manager's image changes, and the host may be told.
LEMMA ImageTold ==
  ASSUME Inband!InbandInv, NEW i \in DOMAIN v6,
         v6[i].state \in {"added", "activating"},
         NEW s \in {"activating", "active", "failed", "idle"},
         v6' = [v6 EXCEPT ![i].state = s],
         v1' \in [inProgress: BOOLEAN, newImageId: Nat \union {NoImage},
                 match: Nat \union {NoImage}],
         v7' = v7 \/ v7' \in {"END", "FAIL"}, Inband!EndMeansDone',
         v2' = v2, v3' = v3, v4' = v4, v5' = v5, v8' = v8
  PROVE  Inband!InbandInv'
<1> USE DEF Inband!InbandInv
<1>1. /\ v6 \in Seq(Inband!Image) /\ i \in 1..Len(v6) /\ v6[i] \in Inband!Image
      /\ \A j \in DOMAIN v6 : v6[j] \in Inband!Image
  BY DEF Inband!InbandTypes
<1>2. /\ v6' = [j \in DOMAIN v6 |-> v6'[j]] /\ DOMAIN v6' = DOMAIN v6
      /\ \A j \in DOMAIN v6 : j # i => v6'[j] = v6[j]
      /\ v6'[i] = [v6[i] EXCEPT !.state = s]
  BY <1>1
<1>3. /\ v6'[i] \in Inband!Image /\ v6'[i].content = v6[i].content
      /\ v6'[i].of = v6[i].of /\ v6'[i].clean = v6[i].clean
  BY <1>1, <1>2 DEF Inband!Image
<1>4. ASSUME NEW j \in DOMAIN v6
      PROVE  /\ v6'[j] \in Inband!Image /\ v6'[j].content = v6[j].content
             /\ v6'[j].of = v6[j].of /\ v6'[j].clean = v6[j].clean
  BY <1>1, <1>2, <1>3
<1>5. /\ v6' \in Seq(Inband!Image) /\ Inband!ImageIsWhole'
      /\ \A j \in DOMAIN v6' : v6'[j].of <= v8'.update
      /\ Inband!Published' <=> Inband!Published
  BY <1>2, <1>4, ImagesKept
<1>6. Inband!InbandTypes'
  BY <1>5 DEF Inband!InbandTypes
<1>7. Inband!AbortClears'
  BY DEF Inband!AbortClears
<1>8. ASSUME v8.clean
      PROVE  Inband!CleanUpdate'
  <2> USE <1>8 DEF Inband!CleanUpdate
  <2>1. v6[i].of = v8.update
    BY DEF Inband!Alone
  <2>2. Inband!Published /\ Inband!Published'
    BY <1>5, <2>1 DEF Inband!Published
  <2>3. Inband!Alone'
    <3>1. \A j \in DOMAIN v6' :
            v6'[j].state \in {"added", "activating"} => v6'[j].of = v8'.update
      BY <1>2, <1>3, <2>1 DEF Inband!Alone
    <3>2. "start" \notin v2
      BY <2>2 DEF Inband!Alone
    <3> QED
      BY <3>1, <3>2 DEF Inband!Alone
  <2>4. /\ Inband!Begun' => Inband!Begun
        /\ Inband!Assembling' <=> Inband!Assembling
        /\ \A places : Inband!ChildIn(places)' <=> Inband!ChildIn(places)
        /\ Inband!AllSent' <=> Inband!AllSent
    BY DEF Inband!Begun, Inband!Assembling, Inband!ChildIn, Inband!AllSent
  <2>5. Inband!ChunksStaged'
    BY <2>4 DEF Inband!ChunksStaged
  <2>6. Inband!FilesStored'
    BY <2>2, <2>4 DEF Inband!FilesStored
  <2>7. Inband!MadeOnce'
    BY <2>2, <2>4 DEF Inband!MadeOnce
  <2>8. Inband!NothingLeft'
    BY <2>2, <2>4 DEF Inband!NothingLeft
  <2> QED
    BY <2>3, <2>5, <2>6, <2>7, <2>8
<1> QED
  BY <1>5, <1>6, <1>7, <1>8

LEMMA InbandImageAdded ==
  ASSUME Inband!InbandInv, NEW i \in DOMAIN v6, Inband!ImageAdded(i)
  PROVE  Inband!InbandInv'
<1>1. i \in Nat /\ v1 \in [inProgress: BOOLEAN, newImageId: Nat \union {NoImage},
                            match: Nat \union {NoImage}]
  BY DEF Inband!InbandInv, Inband!InbandTypes
<1>2. PICK s \in {"activating", "failed", "idle"} : v6' = [v6 EXCEPT ![i].state = s]
  BY DEF Inband!ImageAdded
<1>3. /\ v1' \in [inProgress: BOOLEAN, newImageId: Nat \union {NoImage},
                 match: Nat \union {NoImage}]
      /\ (v7' = v7 /\ v1'.inProgress = v1.inProgress) \/ v7' = "FAIL"
  BY <1>1 DEF Inband!ImageAdded
<1>4. Inband!EndMeansDone'
  BY <1>3 DEF Inband!ImageAdded, Inband!EndMeansDone, Inband!InbandInv
<1> QED
  BY <1>2, <1>3, <1>4, ImageTold DEF Inband!ImageAdded

LEMMA InbandActivationChanged ==
  ASSUME Inband!InbandInv, NEW i \in DOMAIN v6, NEW s \in {"active", "failed"},
         Inband!ActivationChanged(i, s)
  PROVE  Inband!InbandInv'
<1>1. v1 \in [inProgress: BOOLEAN, newImageId: Nat \union {NoImage},
             match: Nat \union {NoImage}]
  BY DEF Inband!InbandInv, Inband!InbandTypes
<1>2. /\ v1' \in [inProgress: BOOLEAN, newImageId: Nat \union {NoImage},
                 match: Nat \union {NoImage}]
      /\ (v7' = v7 /\ v1' = v1) \/ (v7' \in {"END", "FAIL"} /\ ~v1'.inProgress)
  BY <1>1 DEF Inband!ActivationChanged, Inband!Concluded
<1>3. Inband!EndMeansDone'
  BY <1>2 DEF Inband!ActivationChanged, Inband!EndMeansDone, Inband!InbandInv
<1> QED
  BY <1>2, <1>3, ImageTold DEF Inband!ActivationChanged

\* A file after one of its chunks was written.
LEMMA WrittenIs ==
  ASSUME v8.update \in Nat, NEW file \in Seq(Nat), NEW k \in 1..2
  PROVE  /\ Inband!Written(file, k) \in Seq(Nat)
         /\ file = <<>> /\ k = 1 => Inband!Written(file, k) = <<v8.update>>
         /\ file = <<v8.update>> /\ k = 1 => Inband!Written(file, k) = <<v8.update>>
         /\ file = <<v8.update>> /\ k = 2
              => Inband!Written(file, k) = <<v8.update, v8.update>>
         /\ file \in {<<>>, <<0, v8.update>>} /\ k = 2
              => Inband!Written(file, k) = <<0, v8.update>>
<1> DEFINE n == IF Len(file) < k THEN k ELSE Len(file)
           w == Inband!Written(file, k)
           Put(j) == IF j = k THEN v8.update ELSE IF j \in DOMAIN file THEN file[j] ELSE 0
<1>1. Len(file) \in Nat /\ DOMAIN file = 1..Len(file) /\ n \in Nat
      /\ \A j \in 1..Len(file) : file[j] \in Nat
  OBVIOUS
<1>2. w = [j \in 1..n |-> Put(j)]
  BY DEF Inband!Written
<1>3. w \in Seq(Nat) /\ Len(w) = n
      /\ \A j \in 1..n : w[j] = Put(j)
  <2>1. \A j \in 1..n : Put(j) \in Nat
    BY <1>1
  <2>2. w \in [1..n -> Nat]
    BY <1>2, <2>1
  <2> HIDE DEF w, n
  <2>3. w \in Seq(Nat)
    BY <1>1, <2>2, IsASeq
  <2>4. Len(w) = n
    BY <1>1, <2>2, <2>3, LenProperties
  <2> QED
    BY <1>2, <2>3, <2>4
<1> HIDE DEF w
<1>4. ASSUME file = <<>>, k = 1
      PROVE  w = <<v8.update>>
  BY <1>3, <1>4
<1>5. ASSUME file = <<v8.update>>, k = 1
      PROVE  w = <<v8.update>>
  BY <1>3, <1>5
<1>6. ASSUME file = <<v8.update>>, k = 2
      PROVE  w = <<v8.update, v8.update>>
  BY <1>3, <1>6
<1>7. ASSUME file = <<>>, k = 2
      PROVE  w = <<0, v8.update>>
  BY <1>3, <1>7
<1>8. ASSUME file = <<0, v8.update>>, k = 2
      PROVE  w = <<0, v8.update>>
  BY <1>3, <1>8
<1>9. w \in Seq(Nat)
  BY <1>3
<1> QED
  BY <1>4, <1>5, <1>6, <1>7, <1>8, <1>9, Zenon DEF w

\* Nothing the invariant is about changes.
LEMMA InbandStutters ==
  ASSUME Inband!InbandInv, v1' = v1, v2' = v2, v3' = v3, v4' = v4, v5' = v5,
         v6' = v6, v7' = v7, v8' = v8
  PROVE  Inband!InbandInv'
<1> USE DEF Inband!InbandInv
<1>1. Inband!InbandTypes' /\ Inband!AbortClears' /\ Inband!EndMeansDone'
      /\ Inband!ImageIsWhole'
  BY DEF Inband!InbandTypes, Inband!AbortClears, Inband!EndMeansDone,
    Inband!ImageIsWhole
<1>2. ASSUME v8.clean
      PROVE  Inband!CleanUpdate'
  <2> USE <1>2 DEF Inband!CleanUpdate
  <2>1. /\ Inband!Begun' <=> Inband!Begun
        /\ Inband!Published' <=> Inband!Published
        /\ Inband!Assembling' <=> Inband!Assembling
        /\ \A places : Inband!ChildIn(places)' <=> Inband!ChildIn(places)
        /\ Inband!AllSent' <=> Inband!AllSent
        /\ Inband!Stored' <=> Inband!Stored
    BY StoredKept DEF Inband!Begun, Inband!Published, Inband!Assembling,
      Inband!ChildIn
  <2>2. Inband!Alone' /\ Inband!ChunksStaged'
    BY <2>1 DEF Inband!Alone, Inband!ChunksStaged
  <2>3. Inband!FilesStored' /\ Inband!MadeOnce' /\ Inband!NothingLeft'
    BY <2>1 DEF Inband!FilesStored, Inband!MadeOnce, Inband!NothingLeft
  <2> QED
    BY <2>2, <2>3
<1> QED
  BY <1>1, <1>2

\* A file that is complete goes to the tar file or the lid directory.
LEMMA ProcessedTypes ==
  ASSUME Inband!InbandTypes, NEW l \in Lids, NEW file \in Seq(Nat),
  Inband!Processed(l, file)
  PROVE  /\ v3' \in [Lids -> Seq(Nat)] /\ v4' \in Inband!Dirs
         /\ Inband!IsFiniteSet(v4'.lids) /\ Inband!IsFiniteSet(v4'.hostfw)
         /\ v3' = [v3 EXCEPT ![l] = <<>>] /\ v4'.hostfw = v4.hostfw /\ v4'.made
         /\ v4'.tar = IF l \in BmcLids THEN Append(v4.tar, <<l, file>>) ELSE v4.tar
         /\ v4'.lids = IF l \in BmcLids THEN v4.lids
                       ELSE {f \in v4.lids : f[1] # l} \union {<<l, file>>}
<1>1. /\ v4 \in Inband!Dirs /\ v3 \in [Lids -> Seq(Nat)]
      /\ Inband!IsFiniteSet(v4.lids) /\ Inband!IsFiniteSet(v4.hostfw)
  BY DEF Inband!InbandTypes
<1>2. <<l, file>> \in Inband!File
  BY DEF Inband!File
<1>3. v4' = [v4 EXCEPT !.made = TRUE,
               !.tar = IF l \in BmcLids THEN Append(v4.tar, <<l, file>>) ELSE v4.tar,
               !.lids = IF l \in BmcLids THEN v4.lids
                        ELSE {f \in v4.lids : f[1] # l} \union {<<l, file>>}]
  BY DEF Inband!Processed
<1>4. /\ v4'.hostfw = v4.hostfw /\ v4'.made
      /\ v4'.tar = IF l \in BmcLids THEN Append(v4.tar, <<l, file>>) ELSE v4.tar
      /\ v4'.lids = IF l \in BmcLids THEN v4.lids
                    ELSE {f \in v4.lids : f[1] # l} \union {<<l, file>>}
  BY <1>1, <1>3 DEF Inband!Dirs
<1>5. /\ (IF l \in BmcLids THEN Append(v4.tar, <<l,
         file>>) ELSE v4.tar) \in Seq(Inband!File)
      /\ (IF l \in BmcLids THEN v4.lids ELSE {f \in v4.lids : f[1] # l} \union {<<l,
         file>>})
           \in SUBSET Inband!File
  <2>1. v4.tar \in Seq(Inband!File) /\ v4.lids \subseteq Inband!File
    BY <1>1 DEF Inband!Dirs
  <2>2. Append(v4.tar, <<l, file>>) \in Seq(Inband!File)
    BY <1>2, <2>1, AppendProperties
  <2>3. {f \in v4.lids : f[1] # l} \union {<<l, file>>} \subseteq Inband!File
    BY <1>2, <2>1, Zenon
  <2> QED
    BY <2>1, <2>2, <2>3
<1>6. v4' \in Inband!Dirs
  BY <1>1, <1>3, <1>5 DEF Inband!Dirs
<1>7. Inband!IsFiniteSet(v4'.lids)
  <2>1. IsFiniteSet({f \in v4.lids : f[1] # l})
    BY <1>1, SameFiniteSets, FS_Subset
  <2>2. IsFiniteSet({f \in v4.lids : f[1] # l} \union {<<l, file>>})
    BY <2>1, FS_AddElement
  <2> QED
    BY <1>1, <1>4, <2>2, SameFiniteSets
<1>8. v3' = [v3 EXCEPT ![l] = <<>>]
  BY DEF Inband!Processed
<1>9. v3' \in [Lids -> Seq(Nat)]
  <2>1. <<>> \in Seq(Nat)
    OBVIOUS
  <2> QED
    BY <1>1, <1>8, <2>1, Zenon
<1> QED
  BY <1>1, <1>4, <1>6, <1>7, <1>8, <1>9, Zenon

\* A chunk that is taken: the file waits for another one, or is complete.
LEMMA ChunkTaken ==
  ASSUME Inband!InbandTypes, NEW l \in Lids, NEW k \in 1..2,
         Inband!processCodeUpdateLid(l, Inband!Written(v3[l], k))
  PROVE  /\ v3' \in [Lids -> Seq(Nat)] /\ v4' \in Inband!Dirs
         /\ Inband!IsFiniteSet(v4'.lids) /\ Inband!IsFiniteSet(v4'.hostfw)
         /\ v4'.hostfw = v4.hostfw
         /\ \A m \in Lids : m # l => v3'[m] = v3[m]
         /\ v8.update > 0 /\ v3[l] = <<v8.update>> /\ k = 2 =>
              Inband!Processed(l, <<v8.update, v8.update>>)
         /\ v8.update > 0 /\ v3[l] \in {<<>>, <<v8.update>>} /\ k = 1 =>
              v4' = v4 /\ v3'[l] = <<v8.update>>
         /\ v3[l] \in {<<>>, <<0, v8.update>>} /\ k = 2 =>
              v4' = v4 /\ v3'[l] = <<0, v8.update>>
<1> DEFINE w == Inband!Written(v3[l], k)
<1>1. /\ v4 \in Inband!Dirs /\ v3 \in [Lids -> Seq(Nat)] /\ v8.update \in Nat
      /\ Inband!IsFiniteSet(v4.lids) /\ Inband!IsFiniteSet(v4.hostfw)
  BY InbandAssumption DEF InbandAssumption, Inband!InbandTypes
<1>2. v3[l] \in Seq(Nat) /\ w \in Seq(Nat)
  BY <1>1, WrittenIs
<1>3. /\ v3[l] \in {<<>>, <<v8.update>>} /\ k = 1 => w = <<v8.update>>
      /\ v3[l] = <<v8.update>> /\ k = 2 => w = <<v8.update, v8.update>>
      /\ v3[l] \in {<<>>, <<0, v8.update>>} /\ k = 2 => w = <<0, v8.update>>
  BY <1>1, <1>2, WrittenIs, Zenon
<1>4. \/ Len(w) = 2 /\ w[1] # 0 /\ Inband!Processed(l, w)
      \/ ~(Len(w) = 2 /\ w[1] # 0) /\ v3' = [v3 EXCEPT ![l] = w] /\ v4' = v4
  BY DEF Inband!processCodeUpdateLid
<1> HIDE DEF w
<1>5. CASE Len(w) = 2 /\ w[1] # 0 /\ Inband!Processed(l, w)
  <2>1. /\ v3' \in [Lids -> Seq(Nat)] /\ v4' \in Inband!Dirs
        /\ Inband!IsFiniteSet(v4'.lids) /\ Inband!IsFiniteSet(v4'.hostfw)
        /\ v3' = [v3 EXCEPT ![l] = <<>>] /\ v4'.hostfw = v4.hostfw
    BY <1>2, <1>5, ProcessedTypes
  <2>2. \A m \in Lids : m # l => v3'[m] = v3[m]
    BY <1>1, <2>1
  <2>3. ~(v3[l] \in {<<>>, <<v8.update>>} /\ k = 1)
        /\ ~(v3[l] \in {<<>>, <<0, v8.update>>} /\ k = 2)
    <3>1. w # <<v8.update>>
      BY <1>5
    <3>2. w # <<0, v8.update>>
      BY <1>5
    <3> QED
      BY <1>3, <3>1, <3>2
  <2> QED
    BY <1>3, <1>5, <2>1, <2>2, <2>3
<1>6. CASE ~(Len(w) = 2 /\ w[1] # 0) /\ v3' = [v3 EXCEPT ![l] = w] /\ v4' = v4
  <2>1. /\ v3' \in [Lids -> Seq(Nat)] /\ v3'[l] = w
        /\ \A m \in Lids : m # l => v3'[m] = v3[m]
    BY <1>1, <1>2, <1>6
  <2>2. v8.update > 0 => w # <<v8.update, v8.update>>
    BY <1>1, <1>6
  <2> QED
    BY <1>1, <1>3, <1>6, <2>1, <2>2
<1> QED
  BY <1>4, <1>5, <1>6

\* A complete file is stored as the others received are.
LEMMA StoredMore ==
  ASSUME Inband!InbandTypes, Inband!Stored, NEW l \in Lids, v8.sent[l] = 1,
         v8'.update = v8.update, v8'.sent[l] = 2,
         \A m \in Lids : m # l => v8'.sent[m] = v8.sent[m],
         Inband!Processed(l, <<v8.update, v8.update>>)
  PROVE  Inband!Stored'
<1> DEFINE F == <<v8.update, v8.update>>
           e == <<l, F>>
<1>1. /\ v8.update \in Nat /\ v4 \in Inband!Dirs /\ F \in Seq(Nat)
  BY InbandAssumption DEF InbandAssumption, Inband!InbandTypes
<1>2. /\ v4'.tar = IF l \in BmcLids THEN Append(v4.tar, e) ELSE v4.tar
      /\ v4'.lids = IF l \in BmcLids THEN v4.lids
                    ELSE {f \in v4.lids : f[1] # l} \union {e}
  BY <1>1, ProcessedTypes
<1>3. ASSUME NEW S \in SUBSET Lids
      PROVE  /\ l \in S => Inband!Received(S)' = Inband!Received(S) \union {e}
             /\ l \notin S => Inband!Received(S)' = Inband!Received(S)
             /\ \A f \in Inband!Received(S) : f[1] # l
  <2>1. \A m \in S : v8'.sent[m] = 2 <=> v8.sent[m] = 2 \/ m = l
    OBVIOUS
  <2>2. {m \in S : v8'.sent[m] = 2} = {m \in S : v8.sent[m] = 2} \union (S \intersect {l})
    BY <2>1
  <2>3. Inband!Received(S)' = {<<m, F>> : m \in {m \in S : v8'.sent[m] = 2}}
    BY DEF Inband!Received
  <2>4. Inband!Received(S) = {<<m, F>> : m \in {m \in S : v8.sent[m] = 2}}
    BY DEF Inband!Received
  <2> HIDE DEF F
  <2>5. l \in S => Inband!Received(S)' = Inband!Received(S) \union {e}
    BY <2>2, <2>3, <2>4
  <2>6. l \notin S => Inband!Received(S)' = Inband!Received(S)
    BY <2>2, <2>3, <2>4
  <2>7. \A f \in Inband!Received(S) : f[1] # l
    BY <2>4
  <2> QED
    BY <2>5, <2>6, <2>7
<1> HIDE DEF F, e
<1>4. Lids \ BmcLids \subseteq Lids /\ Lids \intersect BmcLids \subseteq Lids
  OBVIOUS
<1>5. CASE l \in BmcLids
  <2>1. /\ v4'.lids = v4.lids /\ v4'.tar = Append(v4.tar, e)
        /\ Inband!Received(Lids \ BmcLids)' = Inband!Received(Lids \ BmcLids)
        /\ Inband!Received(Lids \intersect BmcLids)'
             = Inband!Received(Lids \intersect BmcLids) \union {e}
    BY <1>2, <1>3, <1>4, <1>5
  <2>2. e \notin Inband!Range(v4.tar)
    <3>1. e[1] = l
      BY DEF e
    <3> QED
      BY <1>3, <1>4, <3>1 DEF Inband!Stored
  <2>3. /\ v4.tar \in Seq(Inband!File) /\ DOMAIN v4.tar = 1..Len(v4.tar)
        /\ Len(v4.tar) \in Nat
    BY <1>1 DEF Inband!Dirs
  <2>4. /\ DOMAIN Append(v4.tar, e) = 1..(Len(v4.tar) + 1)
        /\ Append(v4.tar, e)[Len(v4.tar) + 1] = e
        /\ \A j \in 1..Len(v4.tar) : Append(v4.tar, e)[j] = v4.tar[j]
    BY <2>3
  <2>5. Inband!Range(Append(v4.tar, e)) = Inband!Range(v4.tar) \union {e}
    BY <2>3, <2>4 DEF Inband!Range
  <2>6. Inband!IsInjective(Append(v4.tar, e))
    BY <2>2, <2>3, <2>4 DEF Inband!Range, Inband!IsInjective, Inband!Stored
  <2> QED
    BY <2>1, <2>5, <2>6 DEF Inband!Stored
<1>6. CASE l \notin BmcLids
  <2>1. /\ v4'.tar = v4.tar /\ v4'.lids = {f \in v4.lids : f[1] # l} \union {e}
        /\ Inband!Received(Lids \ BmcLids)' = Inband!Received(Lids \ BmcLids) \union {e}
        /\ Inband!Received(Lids \intersect BmcLids)'
             = Inband!Received(Lids \intersect BmcLids)
        /\ \A f \in v4.lids : f[1] # l
    BY <1>2, <1>3, <1>4, <1>6 DEF Inband!Stored
  <2>2. v4'.lids = v4.lids \union {e}
    BY <2>1
  <2> QED
    BY <2>1, <2>2 DEF Inband!Stored
<1> QED
  BY <1>5, <1>6

LEMMA InbandWrite ==
  ASSUME Inband!InbandInv, NEW l \in Lids, NEW k \in 1..2,
         Inband!Write(l, k) \/ Inband!WriteFromMemory(l, k)
  PROVE  Inband!InbandInv'
<1> USE DEF Inband!InbandInv
<1>1. /\ v7 = "START" /\ v2 = {} /\ k \in {v8.sent[l], v8.sent[l] + 1}
      /\ v1' = v1 /\ v2' = v2 /\ v5' = v5 /\ v6' = v6 /\ v7' = v7
      /\ \/ v3' = v3 /\ v4' = v4 /\ v8' = v8
         \/ /\ v8' = [v8 EXCEPT !.sent[l] = k]
            /\ \/ v1.inProgress
                  /\ Inband!processCodeUpdateLid(l, Inband!Written(v3[l], k))
               \/ ~v1.inProgress /\ v3' = v3 /\ v4' = v4
  BY DEF Inband!Write, Inband!WriteFromMemory, Inband!Chunk
<1>2. CASE v3' = v3 /\ v4' = v4 /\ v8' = v8
  BY <1>1, <1>2, InbandStutters
<1>3. CASE /\ v8' = [v8 EXCEPT !.sent[l] = k]
           /\ \/ v1.inProgress
                 /\ Inband!processCodeUpdateLid(l, Inband!Written(v3[l], k))
              \/ ~v1.inProgress /\ v3' = v3 /\ v4' = v4
  <2>1. /\ v8 \in [update: 0..MaxUpdates, sent: [Lids -> 0..2], clean: BOOLEAN]
        /\ v8.update \in Nat
    BY InbandAssumption DEF InbandAssumption, Inband!InbandTypes
  <2>2. /\ v8' \in [update: 0..MaxUpdates, sent: [Lids -> 0..2], clean: BOOLEAN]
        /\ v8'.update = v8.update /\ v8'.clean = v8.clean /\ v8'.sent[l] = k
        /\ \A m \in Lids : m # l => v8'.sent[m] = v8.sent[m]
    BY <1>3, <2>1
  <2>3. /\ v3' \in [Lids -> Seq(Nat)] /\ v4' \in Inband!Dirs
        /\ Inband!IsFiniteSet(v4'.lids) /\ Inband!IsFiniteSet(v4'.hostfw)
        /\ v4'.hostfw = v4.hostfw /\ \A m \in Lids : m # l => v3'[m] = v3[m]
    <3>1. CASE v3' = v3 /\ v4' = v4
      BY <3>1 DEF Inband!InbandTypes
    <3>2. CASE Inband!processCodeUpdateLid(l, Inband!Written(v3[l], k))
      BY <3>2, ChunkTaken
    <3> QED
      BY <1>3, <3>1, <3>2
  <2>4. Inband!InbandTypes'
    BY <1>1, <2>2, <2>3 DEF Inband!InbandTypes
  <2>5. Inband!AbortClears' /\ Inband!EndMeansDone' /\ Inband!ImageIsWhole'
    BY <1>1 DEF Inband!AbortClears, Inband!EndMeansDone, Inband!ImageIsWhole
  <2>6. ASSUME v8.clean
        PROVE  Inband!CleanUpdate'
    <3> USE <1>1, <2>6 DEF Inband!CleanUpdate
    <3>1. /\ Inband!Begun /\ Inband!Begun' /\ v8.update > 0
          /\ Inband!Published' <=> Inband!Published
          /\ \A places : Inband!ChildIn(places)' <=> Inband!ChildIn(places)
          /\ Inband!Assembling' <=> Inband!Assembling
      BY <2>1, <2>2 DEF Inband!Begun, Inband!Published, Inband!ChildIn,
        Inband!Assembling, Inband!ChunksStaged
    <3>2. /\ v8.sent[l] = 0 => v3[l] = <<>> /\ k = 1
          /\ v8.sent[l] = 1 => v3[l] = <<v8.update>>
          /\ v8.sent[l] = 2 => v3[l] \in {<<>>, <<0, v8.update>>} /\ k = 2
          /\ v8.sent[l] \in 0..2
      BY <2>1, <3>1 DEF Inband!ChunksStaged
    <3>3. CASE v8.sent[l] = 2
      <4>1. v4' = v4 /\ v3'[l] \in {<<>>, <<0, v8.update>>}
        BY <1>3, <3>2, <3>3, ChunkTaken
      <4>2. v8' = v8
        BY <1>3, <2>1, <3>2, <3>3
      <4>3. /\ Inband!Stored' <=> Inband!Stored
            /\ Inband!AllSent' <=> Inband!AllSent
        BY <4>1, <4>2, StoredKept
      <4>4. Inband!Alone'
        BY <4>2, <3>1 DEF Inband!Alone
      <4>5. Inband!ChunksStaged'
        BY <2>3, <3>1, <3>3, <4>1, <4>2 DEF Inband!ChunksStaged
      <4>6. Inband!FilesStored' /\ Inband!MadeOnce' /\ Inband!NothingLeft'
        BY <3>1, <4>1, <4>2, <4>3 DEF Inband!FilesStored, Inband!MadeOnce,
          Inband!NothingLeft
      <4> QED
        BY <4>4, <4>5, <4>6
    <3>4. CASE v8.sent[l] \in 0..1
      <4>1. /\ ~Inband!AllSent /\ ~Inband!Published /\ ~Inband!Assembling
            /\ ~Inband!ChildIn({"clean"}) /\ v1.inProgress /\ Inband!Stored
        BY <3>1, <3>4 DEF Inband!AllSent, Inband!FilesStored
      <4>2. ~Inband!ChildIn({"extract", "publish"})
            /\ ~Inband!ChildIn({"publish"}) /\ v4.hostfw = {}
        BY <3>1, <4>1 DEF Inband!Assembling, Inband!ChildIn, Inband!FilesStored
      <4>3. /\ k = 1 => v4' = v4 /\ v3'[l] = <<v8.update>>
            /\ k = 2 => v8.sent[l] = 1 /\ Inband!Processed(l, <<v8.update, v8.update>>)
        <5>1. Inband!InbandTypes
              /\ Inband!processCodeUpdateLid(l, Inband!Written(v3[l], k))
          BY <1>3, <4>1
        <5>2. v3[l] \in {<<>>, <<v8.update>>} /\ (k = 2 => v8.sent[l] = 1
              /\ v3[l] = <<v8.update>>)
          <6>1. (v8.sent[l] = 0 \/ v8.sent[l] = 1) /\ (k = 1 => k # 2)
            BY <3>4
          <6> QED
            BY <3>2, <6>1, Zenon
        <5> QED
          BY <3>1, <5>1, <5>2, ChunkTaken
      <4>4. Inband!Alone'
        BY <2>2, <3>1, <4>1 DEF Inband!Alone
      <4>5. Inband!ChunksStaged'
        <5>1. k = 2 => v3'[l] = <<>>
          BY <4>3 DEF Inband!Processed, Inband!InbandTypes
        <5> QED
          BY <2>2, <2>3, <3>1, <4>3, <5>1 DEF Inband!ChunksStaged
      <4>6. Inband!Stored'
        <5>1. CASE k = 1
          <6>1. /\ Inband!Received(Lids \ BmcLids)' = Inband!Received(Lids \ BmcLids)
                /\ Inband!Received(Lids \intersect BmcLids)'
                     = Inband!Received(Lids \intersect BmcLids)
            BY <2>2, <3>4, <5>1 DEF Inband!Received
          <6> QED
            BY <4>1, <4>3, <5>1, <6>1 DEF Inband!Stored
        <5>2. CASE k = 2
          BY <2>1, <2>2, <4>1, <4>3, <5>2, StoredMore
        <5> QED
          BY <5>1, <5>2
      <4>7. Inband!FilesStored' /\ Inband!MadeOnce' /\ Inband!NothingLeft'
        BY <2>3, <3>1, <4>1, <4>2, <4>6 DEF Inband!FilesStored, Inband!MadeOnce,
          Inband!NothingLeft
      <4> QED
        BY <4>4, <4>5, <4>7
    <3> QED
      BY <3>2, <3>3, <3>4
  <2> QED
    BY <2>2, <2>4, <2>5, <2>6
<1> QED
  BY <1>1, <1>2, <1>3

LEMMA InbandNext == Inband!InbandInv /\ [Inband!Next]_Inband!vars => Inband!InbandInv'
<1> SUFFICES ASSUME Inband!InbandInv, [Inband!Next]_Inband!vars
             PROVE  Inband!InbandInv'
  OBVIOUS
<1>1. CASE Inband!StartUpdate
  BY <1>1, InbandStart
<1>2. CASE Inband!processStartUpdate
  BY <1>2, InbandStarted
<1>3. CASE Inband!EndUpdate
  BY <1>3, InbandEnd
<1>4. CASE Inband!processEndUpdate
  BY <1>4, InbandEnded
<1>5. CASE Inband!AbortUpdate
  BY <1>5, InbandAbort
<1>6. ASSUME NEW l \in Lids, NEW k \in 1..2, Inband!Write(l,
      k) \/ Inband!WriteFromMemory(l, k)
      PROVE  Inband!InbandInv'
  BY <1>6, InbandWrite
<1>7. ASSUME NEW u \in Inband!Processes,
             Inband!Squash(u) \/ Inband!Extract(u) \/ Inband!Publish(u) \/ Inband!Cleanup(u)
      PROVE  Inband!InbandInv'
  BY <1>7, InbandSquash, InbandExtract, InbandPublish, InbandCleanup
<1>8. ASSUME NEW i \in DOMAIN v6, Inband!ImageAdded(i)
      PROVE  Inband!InbandInv'
  BY <1>8, InbandImageAdded
<1>9. ASSUME NEW i \in DOMAIN v6, NEW s \in {"active", "failed"},
      Inband!ActivationChanged(i, s)
      PROVE  Inband!InbandInv'
  BY <1>9, InbandActivationChanged
<1>10. CASE UNCHANGED Inband!vars
  BY <1>10, InbandStutters DEF Inband!vars
<1> QED
  BY <1>1, <1>2, <1>3, <1>4, <1>5, <1>6, <1>7, <1>8, <1>9, <1>10 DEF Inband!Next

LEMMA InbandStays ==
  (component = "inband" => Inband!InbandInv) /\ [OemNext]_vars
    => (component = "inband" => Inband!InbandInv)'
<1> SUFFICES ASSUME component' = "inband", [OemNext]_vars,
                    component = "inband" => Inband!InbandInv
             PROVE  Inband!InbandInv'
  OBVIOUS
<1>1. CASE InbandStep
  BY <1>1, InbandNext DEF InbandStep, Only
<1>2. CASE UNCHANGED vars
  BY <1>2, InbandNext, OthersElsewhere DEF vars, Inband!vars
<1> QED
  BY <1>1, <1>2, OthersElsewhere

-----------------------------------------------------------------------------
\* IbmHost: v1 is host, v2 is flags, v3 is survTimer, v4 is watchdog, v5
\* is chassisOffMatch, v6 is slot, v7 is pending, v8 is history.

LEMMA IbmInit == Ibm!Init => Ibm!IbmInv
<1> SUFFICES ASSUME Ibm!Init
             PROVE  Ibm!IbmInv
  OBVIOUS
<1>1. Ibm!IbmTypes
  BY DEF Ibm!Init, Ibm!IbmTypes
<1>2. Ibm!TimerOfThisRun /\ Ibm!PingErrorOfThisRun /\ Ibm!SlotOperationWatched
  BY DEF Ibm!Init, Ibm!TimerOfThisRun, Ibm!PingErrorOfThisRun,
    Ibm!SlotOperationWatched
<1> QED
  BY <1>1, <1>2 DEF Ibm!IbmInv

\* The timer is started, stopped or found expired.
LEMMA SurvTimerSet ==
  ASSUME Ibm!IbmInv, NEW hypervisor \in BOOLEAN, NEW value \in BOOLEAN,
         Ibm!setSurvTimer(hypervisor, value),
         UNCHANGED <<v1, v2, v4, v5, v6, v7>>
  PROVE  Ibm!IbmInv'
<1> USE DEF Ibm!IbmInv, Ibm!IbmTypes
<1>1. Ibm!IbmTypes' /\ Ibm!TimerOfThisRun' /\ Ibm!PingErrorOfThisRun'
  BY DEF Ibm!setSurvTimer, Ibm!Pinger, Ibm!TimerOfThisRun, Ibm!PingErrorOfThisRun
<1>2. Ibm!SlotOperationWatched'
  BY DEF Ibm!setSurvTimer, Ibm!Pinger, Ibm!SlotOperationWatched
<1> QED
  BY <1>1, <1>2

\* What concerns slots leaves the timer alone, and the other way round.
LEMMA SlotStep ==
  ASSUME Ibm!IbmInv, UNCHANGED Ibm!HostSide,
         v8'.bare \in BOOLEAN,
         v8' = [v8 EXCEPT !.told = v8'.told, !.bare = v8'.bare],
         v6' = [current |-> v6'.current, match |-> v6'.match, timer |-> v6'.timer]
  PROVE  Ibm!IbmTypes' /\ Ibm!TimerOfThisRun' /\ Ibm!PingErrorOfThisRun'
  BY DEF Ibm!IbmInv, Ibm!IbmTypes, Ibm!HostSide, Ibm!TimerOfThisRun,
    Ibm!PingErrorOfThisRun

LEMMA IbmNext == Ibm!IbmInv /\ [Ibm!Next]_Ibm!vars => Ibm!IbmInv'
<1> SUFFICES ASSUME Ibm!IbmInv, [Ibm!Next]_Ibm!vars
             PROVE  Ibm!IbmInv'
  OBVIOUS
<1> USE DEF Ibm!IbmInv
<1>1. ASSUME NEW state \in {"Off", "Running", "TransitioningToOff"}, Ibm!HostStateChanged(state)
      PROVE  Ibm!IbmInv'
  BY <1>1 DEF Ibm!HostStateChanged, Ibm!TimerAfter, Ibm!IbmTypes,
    Ibm!TimerOfThisRun, Ibm!PingErrorOfThisRun, Ibm!SlotOperationWatched
<1>2. CASE Ibm!WatchdogArmed \/ Ibm!getTID \/ Ibm!processSetEventReceiver \/ Ibm!processSystemReboot
  BY <1>2 DEF Ibm!WatchdogArmed, Ibm!getTID, Ibm!processSetEventReceiver,
    Ibm!processSystemReboot, Ibm!IbmTypes, Ibm!TimerOfThisRun,
    Ibm!PingErrorOfThisRun, Ibm!SlotOperationWatched
<1>3. CASE Ibm!SurvTimerExpires
  BY <1>3, SurvTimerSet DEF Ibm!SurvTimerExpires
<1>4. CASE Ibm!ChassisOff
  BY <1>4 DEF Ibm!ChassisOff, Ibm!IbmTypes, Ibm!TimerOfThisRun,
    Ibm!PingErrorOfThisRun, Ibm!SlotOperationWatched
<1>5. ASSUME NEW b \in BOOLEAN, Ibm!Heartbeat(b)
      PROVE  Ibm!IbmInv'
  <2>1. CASE v4.enabled
    BY <1>5, <2>1 DEF Ibm!Heartbeat, Ibm!IbmTypes, Ibm!TimerOfThisRun,
      Ibm!PingErrorOfThisRun, Ibm!SlotOperationWatched
  <2>2. CASE ~v4.enabled
    BY <1>5, <2>2, SurvTimerSet DEF Ibm!Heartbeat
  <2> QED
    BY <2>1, <2>2
<1>6. CASE Ibm!timeOutHandler
  <2>1. Ibm!IbmTypes' /\ Ibm!TimerOfThisRun' /\ Ibm!PingErrorOfThisRun'
    BY <1>6, SlotStep DEF Ibm!timeOutHandler, Ibm!Tell, Ibm!IbmTypes
  <2>2. Ibm!SlotOperationWatched'
    BY <1>6 DEF Ibm!timeOutHandler, Ibm!Tell, Ibm!IbmTypes, Ibm!SlotOperationWatched
  <2> QED
    BY <2>1, <2>2
<1>7. ASSUME NEW present \in BOOLEAN, Ibm!processPresentPropertyChange(present)
      PROVE  Ibm!IbmInv'
  <2>1. Ibm!IbmTypes' /\ Ibm!TimerOfThisRun' /\ Ibm!PingErrorOfThisRun'
    BY <1>7, SlotStep DEF Ibm!processPresentPropertyChange, Ibm!Tell,
      Ibm!TimerAfterChange, Ibm!IbmTypes
  <2>2. v7' = NoSlot /\ ~v6'.timer
    BY <1>7 DEF Ibm!processPresentPropertyChange, Ibm!Tell, Ibm!TimerAfterChange,
      Ibm!IbmTypes, Ibm!SlotOperationWatched
  <2> QED
    BY <2>1, <2>2 DEF Ibm!SlotOperationWatched
<1>8. ASSUME NEW s \in Slots, NEW op \in {"add", "remove", "replace"}, Ibm!enableSlot(s, op)
      PROVE  Ibm!IbmInv'
  <2>1. Ibm!IbmTypes' /\ Ibm!TimerOfThisRun' /\ Ibm!PingErrorOfThisRun'
    BY <1>8, SlotStep DEF Ibm!enableSlot, Ibm!IbmTypes
  <2>2. Ibm!SlotOperationWatched'
    BY <1>8, SlotsAssumption DEF Ibm!enableSlot, Ibm!NoMatch, Ibm!IbmTypes,
      Ibm!SlotOperationWatched
  <2> QED
    BY <2>1, <2>2
<1>9. CASE UNCHANGED Ibm!vars
  BY <1>9 DEF Ibm!vars, Ibm!IbmTypes, Ibm!TimerOfThisRun,
    Ibm!PingErrorOfThisRun, Ibm!SlotOperationWatched
<1> QED
  BY <1>1, <1>2, <1>3, <1>4, <1>5, <1>6, <1>7, <1>8, <1>9 DEF Ibm!Next

LEMMA IbmStays ==
  (component = "ibm" => Ibm!IbmInv) /\ [OemNext]_vars
    => (component = "ibm" => Ibm!IbmInv)'
<1> SUFFICES ASSUME component' = "ibm", [OemNext]_vars,
                    component = "ibm" => Ibm!IbmInv
             PROVE  Ibm!IbmInv'
  OBVIOUS
<1>1. CASE IbmStep
  BY <1>1, IbmNext DEF IbmStep, Only
<1>2. CASE UNCHANGED vars
  BY <1>2, IbmNext, OthersElsewhere DEF vars, Ibm!vars
<1> QED
  BY <1>1, <1>2, OthersElsewhere

-----------------------------------------------------------------------------
\* IbmFiles: v1 is entry, v2 is fd, v3 is opened, v4 is offload, v5 is certMap,
\* v6 is issued, v7 is reused, v8 is strayed.

\* Things of different kinds, and sockets of different dumps, are not the same.
LEMMA ThingsDiffer ==
  ASSUME NEW x, NEW y
  PROVE  /\ HostData!Socket(x) # HostData!Closed /\ HostData!File(x) # HostData!Closed
         /\ HostData!Listener(x) # HostData!Closed
         /\ HostData!Socket(x) # HostData!File(y) /\ HostData!Listener(x) # HostData!File(y)
         /\ HostData!Socket(x) = HostData!Socket(y) <=> x = y
         /\ HostData!File(x) = HostData!File(y) <=> x = y
  BY DEF HostData!Socket, HostData!File, HostData!Listener, HostData!Closed

\* What is open under the numbers is a thing.
LEMMA ThingsAre ==
  /\ HostData!Closed \in HostData!Things
  /\ \A d \in Dumps : HostData!Socket(d) \in HostData!Things /\ HostData!Listener(d) \in HostData!Things
  /\ \A c \in Certs : HostData!File(c) \in HostData!Things
  BY DEF HostData!Socket, HostData!File, HostData!Listener, HostData!Closed, HostData!Things

LEMMA HostDataInit == HostData!Init => HostData!HostDataInv
<1> SUFFICES ASSUME HostData!Init PROVE HostData!HostDataInv
  OBVIOUS
<1>1. v3 \in [Numbers -> HostData!Things]
  BY ThingsAre DEF HostData!Init
<1>2. HostData!HostDataTypes
  BY <1>1 DEF HostData!Init, HostData!HostDataTypes
<1>3. HostData!SocketOfCurrent /\ HostData!FileOfCurrent
  BY DEF HostData!Init, HostData!SocketOfCurrent, HostData!FileOfCurrent
<1>4. HostData!DumpToOwnSocket /\ HostData!CertToOwnFile
  BY DEF HostData!Init, HostData!DumpToOwnSocket, HostData!CertToOwnFile
<1> QED
  BY <1>2, <1>3, <1>4 DEF HostData!HostDataInv

\* Numbers may be closed.
LEMMA ClosingThings ==
  ASSUME NEW n, NEW table \in [Numbers -> HostData!Things]
  PROVE  /\ HostData!ClosedAt(n, table) \in [Numbers -> HostData!Things]
         /\ \A m \in Numbers : HostData!ClosedAt(n, table)[m] =
              IF m = n THEN HostData!Closed ELSE table[m]
  BY ThingsAre DEF HostData!ClosedAt

\* A transfer of the dump the host goes on to, over the socket of that dump
LEMMA TransferOwn ==
  ASSUME NEW d \in Dumps, NEW n \in Numbers, NEW outcome,
         NEW table \in [Numbers -> HostData!Things], HostData!HostDataInv,
         ~v7 => /\ table[n] = HostData!Closed \/ \E b \in Dumps : table[n] = HostData!Socket(b)
                /\ \A e \in v5 : e.number # n /\ table[e.number] = v3[e.number]
                /\ HostData!Taken(d, v4).orderly =>
                     table[n] \in {HostData!Closed, HostData!Socket(d)} /\ d \in v1,
         v4' = HostData!Taken(d, v4), HostData!Transfer(d, n, table, outcome),
         UNCHANGED <<v1, HostData!CertSide>>
  PROVE  HostData!HostDataInv'
<1> USE HostDataAssumption DEF HostData!HostDataInv, HostData!HostDataTypes
<1>1. /\ v4' \in [current : Dumps \cup {0}, orderly : BOOLEAN]
      /\ v4'.current = d
      /\ v4'.orderly => v4.orderly /\ HostData!Taken(d, v4).orderly
  BY DEF HostData!Taken
<1>2. /\ v2' = n /\ v3' \in [Numbers -> HostData!Things]
      /\ v3'[n] \in {HostData!Closed, table[n]}
      /\ \A m \in Numbers : m # n => v3'[m] = table[m]
      /\ v8' \subseteq v8 \cup (IF table[n] \in {HostData!Closed, HostData!Socket(d)}
                               THEN {} ELSE {"dump"})
  <2>1. CASE outcome = "done" /\ table[n] # HostData!Closed
    BY <2>1 DEF HostData!Transfer
  <2>2. CASE ~(outcome = "done" /\ table[n] # HostData!Closed)
    <3>1. v2' = n /\ v8' = v8 /\ v3' \in {table, HostData!ClosedAt(n, table)}
      BY <2>2 DEF HostData!Transfer
    <3> QED
      BY <3>1, ClosingThings
  <2> QED
    BY <2>1, <2>2
<1>3. HostData!SocketOfCurrent'
  BY <1>1, <1>2 DEF HostData!SocketOfCurrent, HostData!CertSide, HostData!Socket, HostData!Closed
<1>4. HostData!DumpToOwnSocket'
  BY <1>1, <1>2 DEF HostData!DumpToOwnSocket, HostData!CertSide
<1>5. HostData!FileOfCurrent'
  BY <1>2 DEF HostData!FileOfCurrent, HostData!CertSide, HostData!File, HostData!Closed
<1>6. HostData!CertToOwnFile'
  BY <1>2 DEF HostData!CertToOwnFile, HostData!CertSide
<1> QED
  BY <1>1, <1>2, <1>3, <1>4, <1>5, <1>6 DEF HostData!CertSide

LEMMA HostDataNext == HostData!HostDataInv /\ [HostData!Next]_HostData!vars => HostData!HostDataInv'
<1> SUFFICES ASSUME HostData!HostDataInv, [HostData!Next]_HostData!vars
             PROVE  HostData!HostDataInv'
  OBVIOUS
<1> USE HostDataAssumption DEF HostData!HostDataInv, HostData!HostDataTypes
\* The descriptor that is kept is that of the dump the host goes on to.
<1>0. ASSUME NEW d \in Dumps, v2 # 0, ~v7
      PROVE  /\ v3[v2] = HostData!Closed \/ \E b \in Dumps : v3[v2] = HostData!Socket(b)
             /\ \A e \in v5 : e.number # v2
             /\ HostData!Taken(d, v4).orderly =>
                  v3[v2] \in {HostData!Closed, HostData!Socket(d)} /\ d \in v1
  BY <1>0 DEF HostData!SocketOfCurrent, HostData!Taken
<1>1. ASSUME NEW d \in Dumps, NEW outcome, HostData!WriteDumpFromMemory(d, outcome)
      PROVE  HostData!HostDataInv'
  <2>1. /\ v4' = HostData!Taken(d, v4) /\ UNCHANGED <<v1, HostData!CertSide>>
        /\ v4' \in [current : Dumps \cup {0}, orderly : BOOLEAN]
        /\ v4'.orderly => v4.orderly
    BY <1>1 DEF HostData!WriteDumpFromMemory, HostData!Taken
  <2>2. CASE v2 # 0
    <3>1. HostData!Transfer(d, v2, v3, outcome)
      BY <1>1, <2>2 DEF HostData!WriteDumpFromMemory
    <3> QED
      BY <1>0, <2>1, <2>2, <3>1, TransferOwn
  <2>3. CASE v2 = 0 /\ UNCHANGED <<v2, v3, v8>>
    BY <2>1, <2>3 DEF HostData!CertSide, HostData!SocketOfCurrent,
      HostData!FileOfCurrent, HostData!DumpToOwnSocket, HostData!CertToOwnFile
  <2>4. ASSUME NEW n \in HostData!Free, v2 = 0, v3' = [v3 EXCEPT ![n] = HostData!Listener(d)],
               UNCHANGED <<v2, v8>>
        PROVE  HostData!HostDataInv'
    <3>1. /\ v3' \in [Numbers -> HostData!Things]
          /\ \A m \in Numbers : v3[m] # HostData!Closed => v3'[m] = v3[m]
      BY <2>4, ThingsAre DEF HostData!Free
    <3>2. HostData!FileOfCurrent'
      BY <2>1, <3>1 DEF HostData!FileOfCurrent, HostData!CertSide
    <3> QED
      BY <2>1, <2>4, <3>1, <3>2 DEF HostData!CertSide, HostData!SocketOfCurrent,
        HostData!DumpToOwnSocket, HostData!CertToOwnFile
  <2>5. ASSUME NEW n \in HostData!Free, HostData!FindDumpObjPath(d),
               HostData!Transfer(d, n, [v3 EXCEPT ![n] = HostData!Socket(d)], outcome)
        PROVE  HostData!HostDataInv'
    <3> DEFINE table == [v3 EXCEPT ![n] = HostData!Socket(d)]
    <3>1. /\ n \in Numbers /\ v3[n] = HostData!Closed
          /\ table \in [Numbers -> HostData!Things] /\ table[n] = HostData!Socket(d)
          /\ \A m \in Numbers : m # n => table[m] = v3[m]
      BY ThingsAre DEF HostData!Free
    <3>2. ~v7 => \A e \in v5 : e.number # n /\ table[e.number] = v3[e.number]
      BY <3>1 DEF HostData!FileOfCurrent
    <3>3. d \in v1
      BY <2>5 DEF HostData!FindDumpObjPath
    <3>4. HostData!Transfer(d, n, table, outcome)
      BY <2>5
    <3> HIDE DEF table
    <3> QED
      BY <2>1, <3>1, <3>2, <3>3, <3>4, TransferOwn
  <2> QED
    BY <1>1, <2>2, <2>3, <2>4, <2>5 DEF HostData!WriteDumpFromMemory
<1>2. ASSUME NEW d \in Dumps, NEW outcome, HostData!WriteDump(d, outcome)
      PROVE  HostData!HostDataInv'
  <2>1. /\ v2 # 0 /\ v4' = HostData!Taken(d, v4) /\ UNCHANGED <<v1, HostData!CertSide>>
        /\ HostData!Transfer(d, v2, v3, outcome)
    BY <1>2 DEF HostData!WriteDump
  <2> QED
    BY <1>0, <2>1, TransferOwn
<1>3. ASSUME NEW d \in Dumps, HostData!NewDump(d)
      PROVE  HostData!HostDataInv'
  BY <1>3 DEF HostData!NewDump, HostData!CertSide, HostData!SocketOfCurrent,
    HostData!FileOfCurrent, HostData!DumpToOwnSocket, HostData!CertToOwnFile
<1>4. ASSUME NEW d \in Dumps, HostData!EntryDeleted(d)
      PROVE  HostData!HostDataInv'
  BY <1>4 DEF HostData!EntryDeleted, HostData!CertSide,
    HostData!SocketOfCurrent, HostData!FileOfCurrent, HostData!DumpToOwnSocket,
    HostData!CertToOwnFile
<1>5. ASSUME NEW d \in Dumps, HostData!DumpAcked(d)
      PROVE  HostData!HostDataInv'
  <2>1. /\ v4.current = d /\ v4' = [v4 EXCEPT !.current = 0]
        /\ UNCHANGED <<v1, v8, HostData!CertSide>>
        /\ v4' \in [current : Dumps \cup {0}, orderly : BOOLEAN] /\ v4'.orderly = v4.orderly
    BY <1>5 DEF HostData!DumpAcked
  <2>2. CASE d \in v1
    <3>1. v2' = 0 /\ v3' = HostData!ClosedAt(v2, v3)
      BY <1>5, <2>2 DEF HostData!DumpAcked, HostData!Acked, HostData!FindDumpObjPath
    <3>2. /\ v3' \in [Numbers -> HostData!Things]
          /\ \A m \in Numbers : m # v2 => v3'[m] = v3[m]
      BY <3>1, ClosingThings
    <3>3. HostData!FileOfCurrent'
      BY <2>1, <3>2 DEF HostData!FileOfCurrent, HostData!SocketOfCurrent, HostData!CertSide
    <3> QED
      BY <2>1, <3>1, <3>2, <3>3 DEF HostData!CertSide, HostData!SocketOfCurrent,
        HostData!DumpToOwnSocket, HostData!CertToOwnFile
  <2>3. CASE d \notin v1
    BY <1>5, <2>1, <2>3 DEF HostData!DumpAcked, HostData!FindDumpObjPath,
      HostData!CertSide, HostData!SocketOfCurrent, HostData!FileOfCurrent,
      HostData!DumpToOwnSocket, HostData!CertToOwnFile
  <2> QED
    BY <2>2, <2>3
<1>6. ASSUME NEW d \in Dumps, HostData!DumpDiscarded(d)
      PROVE  HostData!HostDataInv'
  BY <1>6 DEF HostData!DumpDiscarded, HostData!CertSide,
    HostData!SocketOfCurrent, HostData!FileOfCurrent, HostData!DumpToOwnSocket,
    HostData!CertToOwnFile
<1>7. ASSUME NEW c \in Certs, HostData!NewCertificate(c)
      PROVE  HostData!HostDataInv'
  <2>1. /\ v6' \in [current : Certs \cup {0}, orderly : BOOLEAN]
        /\ v6'.current = c
        /\ v6'.orderly => v6.orderly /\ v6.current \in {0, c}
        /\ UNCHANGED <<v1, v2, v4, v8>>
    BY <1>7 DEF HostData!NewCertificate, HostData!Taken, HostData!DumpSide
  <2>2. PICK n \in HostData!Free :
          /\ v3' = [v3 EXCEPT ![n] = HostData!File(c)]
          /\ v5' = IF v5 = {} THEN {[number |-> n, rem |-> CertSize]} ELSE v5
          /\ v7' = (v7 \/ n = v2)
    BY <1>7 DEF HostData!NewCertificate
  <2>3. /\ n \in Numbers /\ v3[n] = HostData!Closed
        /\ v3' \in [Numbers -> HostData!Things] /\ v3'[n] = HostData!File(c)
        /\ \A m \in Numbers : m # n => v3'[m] = v3[m]
    BY <2>2, ThingsAre DEF HostData!Free
  <2>4. v5' \subseteq [number : Numbers, rem : Int] /\ v7' \in BOOLEAN
    BY <2>2, <2>3
  <2>5. HostData!SocketOfCurrent'
    <3> SUFFICES ASSUME ~v7', v2 # 0
                 PROVE  HostData!SocketOfCurrent'
      BY <2>1 DEF HostData!SocketOfCurrent
    <3>1. ~v7 /\ n # v2 /\ v3'[v2] = v3[v2]
      BY <2>2, <2>3
    <3>2. \A e \in v5' : e.number # v2
      BY <2>2, <3>1 DEF HostData!SocketOfCurrent
    <3> QED
      BY <2>1, <3>1, <3>2 DEF HostData!SocketOfCurrent
  <2>6. HostData!FileOfCurrent'
    <3>1. CASE v5 = {}
      BY <2>1, <2>2, <2>3, <3>1, ThingsDiffer DEF HostData!FileOfCurrent
    <3>2. CASE v5 # {}
      <4> SUFFICES ASSUME ~v7', NEW e \in v5'
                   PROVE  /\ v3'[e.number] # HostData!Closed
                          /\ v6'.orderly => v3'[e.number] = HostData!File(v6'.current)
        BY DEF HostData!FileOfCurrent
      <4>1. /\ ~v7 /\ e \in v5 /\ v3[e.number] # HostData!Closed
            /\ v6.orderly => v3[e.number] = HostData!File(v6.current)
        BY <2>2, <3>2 DEF HostData!FileOfCurrent
      <4>2. v3'[e.number] = v3[e.number]
        BY <2>3, <4>1
      <4>3. v6.orderly => v6.current # 0
        BY <4>1 DEF HostData!Things, HostData!File
      <4> QED
        BY <2>1, <4>1, <4>2, <4>3
    <3> QED
      BY <3>1, <3>2
  <2>7. HostData!DumpToOwnSocket' /\ HostData!CertToOwnFile'
    BY <2>1, <2>2 DEF HostData!DumpToOwnSocket, HostData!CertToOwnFile
  <2> QED
    BY <2>1, <2>3, <2>4, <2>5, <2>6, <2>7
\* A part that was written, whole or not
<1>8. ASSUME NEW c \in Certs, NEW e \in v5, HostData!Put(c, e),
             HostData!PartDone(e) \/ UNCHANGED <<v5, v3, v6>>,
             UNCHANGED <<HostData!DumpSide, v7>>
      PROVE  HostData!HostDataInv'
  <2>1. /\ v5' \subseteq [number : Numbers, rem : Int]
        /\ \A f \in v5' : \E g \in v5 : f.number = g.number
        /\ v6' \in [current : Certs \cup {0}, orderly : BOOLEAN]
        /\ v6'.orderly = v6.orderly
        /\ v5' = {} \/ (v6' = v6 /\ v3' = v3)
        /\ v3' \in [Numbers -> HostData!Things]
        /\ \A m \in Numbers : m # e.number => v3'[m] = v3[m]
    BY <1>8, ClosingThings DEF HostData!PartDone, HostData!Remaining
  <2>2. v8' \subseteq v8 \cup {"certificate"}
    BY <1>8 DEF HostData!Put
  <2>3. HostData!CertToOwnFile'
    BY <1>8, <2>1 DEF HostData!Put, HostData!CertToOwnFile, HostData!FileOfCurrent
  <2>4. HostData!SocketOfCurrent'
    BY <1>8, <2>1 DEF HostData!SocketOfCurrent, HostData!DumpSide
  <2>5. HostData!FileOfCurrent'
    BY <1>8, <2>1 DEF HostData!FileOfCurrent
  <2>6. HostData!DumpToOwnSocket'
    BY <1>8, <2>2 DEF HostData!DumpToOwnSocket, HostData!DumpSide
  <2> QED
    BY <1>8, <2>1, <2>3, <2>4, <2>5, <2>6 DEF HostData!DumpSide
<1>9. ASSUME NEW c \in Certs, HostData!WriteCertificate(c) \/ HostData!TakeCertificate(c)
      PROVE  HostData!HostDataInv'
  BY <1>8, <1>9 DEF HostData!WriteCertificate, HostData!TakeCertificate
<1>10. CASE UNCHANGED HostData!vars
  BY <1>10 DEF HostData!vars, HostData!SocketOfCurrent, HostData!FileOfCurrent,
    HostData!DumpToOwnSocket, HostData!CertToOwnFile
<1> QED
  BY <1>1, <1>2, <1>3, <1>4, <1>5, <1>6, <1>7, <1>9, <1>10 DEF HostData!Next,
    HostData!NewDumpWithMetaData, HostData!NewCertificateWithMetaData

LEMMA HostDataStays ==
  (component = "ibmfiles" => HostData!HostDataInv) /\ [OemNext]_vars
    => (component = "ibmfiles" => HostData!HostDataInv)'
<1> SUFFICES ASSUME component' = "ibmfiles", [OemNext]_vars,
                    component = "ibmfiles" => HostData!HostDataInv
             PROVE  HostData!HostDataInv'
  OBVIOUS
<1>1. CASE HostDataStep
  BY <1>1, HostDataNext DEF HostDataStep, Only
<1>2. CASE UNCHANGED vars
  BY <1>2, HostDataNext, OthersElsewhere DEF vars, HostData!vars
<1> QED
  BY <1>1, <1>2, OthersElsewhere

-----------------------------------------------------------------------------
\* SoftPowerOff: v1 is stage, v2 is found, v3 is inbox, v4 is listening,
\* v5 is responseReceived, v6 is completed, v7 is requestTimer, v8 is
\* waitTimer, v9 is exitCode, v10 is reason, v11 is hostDown, v12 is
\* strays.

LEMMA SoftOffInit == SoftOff!Init => SoftOff!IndInv
  BY DEF SoftOff!Init, SoftOff!IndInv, SoftOff!Typed,
    SoftOff!CompletedForReason, SoftOff!TimedAfterAnswer, SoftOff!OneEnd,
    SoftOff!QuietBefore, SoftOff!SuccessMeansShutdown

LEMMA SoftOffNext == SoftOff!IndInv /\ [SoftOff!Next]_SoftOff!vars => SoftOff!IndInv'
<1> SUFFICES ASSUME SoftOff!IndInv, [SoftOff!Next]_SoftOff!vars
             PROVE  SoftOff!IndInv'
  OBVIOUS
<1> USE DEF SoftOff!IndInv, SoftOff!Typed, SoftOff!CompletedForReason,
  SoftOff!TimedAfterAnswer, SoftOff!OneEnd, SoftOff!QuietBefore,
  SoftOff!SuccessMeansShutdown, SoftOff!Exit, SoftOff!GoOn, SoftOff!Looping
<1>1. ASSUME NEW file, NEW current, NEW pdrs, SoftOff!Construct(file, current, pdrs)
      PROVE  SoftOff!IndInv'
  <2>1. CASE SoftOff!LookUp(pdrs)
    BY <1>1, <2>1 DEF SoftOff!Construct, SoftOff!LookUp
  <2>2. CASE SoftOff!Exit(-1, "aborted") /\ UNCHANGED v2
    BY <1>1, <2>2 DEF SoftOff!Construct
  <2>3. CASE SoftOff!Exit(-1, "hostState") /\ UNCHANGED v2
    BY <1>1, <2>3 DEF SoftOff!Construct
  <2>4. CASE SoftOff!Exit(0, "hostOff") /\ UNCHANGED v2
    BY <1>1, <2>4 DEF SoftOff!Construct
  <2> QED
    BY <1>1, <2>1, <2>2, <2>3, <2>4 DEF SoftOff!Construct
<1>2. ASSUME NEW sent \in BOOLEAN, SoftOff!HostSoftOff(sent)
      PROVE  SoftOff!IndInv'
  BY <1>2 DEF SoftOff!HostSoftOff, SoftOff!WaitTimerAtSend
<1>3. ASSUME NEW code \in {"accepted", "refused"}, SoftOff!HostResponds(code)
      PROVE  SoftOff!IndInv'
  BY <1>3 DEF SoftOff!HostResponds
<1>4. CASE SoftOff!StrayArrives
  BY <1>4 DEF SoftOff!StrayArrives
<1>5. ASSUME NEW armed \in BOOLEAN, SoftOff!Receive(armed)
      PROVE  SoftOff!IndInv'
  <2>1. /\ v1 = "loop" /\ ~v6 /\ v8 # "expired"
        /\ UNCHANGED <<v2, v6, v11>>
        /\ Head(v3) \in {"stray", "accepted", "refused"}
        /\ v3' \in Seq({"stray", "accepted", "refused"})
    BY <1>5 DEF SoftOff!Receive
  <2>2. \/ SoftOff!GoOn /\ UNCHANGED <<v5, v8>>
        \/ SoftOff!Exit(-1, "refused") /\ UNCHANGED <<v5, v8>>
        \/ v5' = TRUE /\ v8' = "armed" /\ SoftOff!GoOn
        \/ v5' = TRUE /\ SoftOff!Exit(-1, "noTimer") /\ UNCHANGED v8
    BY <1>5, <2>1 DEF SoftOff!Receive
  <2> QED
    BY <2>1, <2>2
<1>6. CASE SoftOff!RequestTimeout
  BY <1>6 DEF SoftOff!RequestTimeout
<1>7. CASE SoftOff!HostSoftOffComplete
  BY <1>7 DEF SoftOff!HostSoftOffComplete
<1>8. CASE SoftOff!OtherSensorEvent
  BY <1>8 DEF SoftOff!OtherSensorEvent
<1>9. CASE SoftOff!WaitTimeout
  BY <1>9 DEF SoftOff!WaitTimeout
<1>10. CASE SoftOff!Return
  BY <1>10 DEF SoftOff!Return
<1>11. CASE UNCHANGED SoftOff!vars
  BY <1>11 DEF SoftOff!vars
<1> QED
  BY <1>1, <1>2, <1>3, <1>4, <1>5, <1>6, <1>7, <1>8, <1>9, <1>10, <1>11 DEF
    SoftOff!Next

LEMMA SoftOffStays ==
  (component = "softoff" => SoftOff!IndInv) /\ [OemNext]_vars
    => (component = "softoff" => SoftOff!IndInv)'
<1> SUFFICES ASSUME component' = "softoff", [OemNext]_vars,
                    component = "softoff" => SoftOff!IndInv
             PROVE  SoftOff!IndInv'
  OBVIOUS
<1>1. CASE SoftOffStep
  BY <1>1, SoftOffNext DEF SoftOffStep, Only
<1>2. CASE UNCHANGED vars
  BY <1>2, SoftOffNext, OthersElsewhere DEF vars, SoftOff!vars
<1> QED
  BY <1>1, <1>2, OthersElsewhere

-----------------------------------------------------------------------------
\* PcieInfo: v1 is file, v2 is receivedFiles, v3 is topologyInformation,
\* v4 is cableInformation, v5 is sent, v6 is acked, v7 is done, v8 is
\* orderly.

\* What TopologyOfOneVersion says of each cache
OneVersion(cache, d) ==
  /\ d > 0 => \A k \in 1..PcieEntries[d] : k \in DOMAIN cache /\ cache[k] = d
  /\ \A k \in DOMAIN cache : cache[k] \in 1..d

\* The entries of the next version v replace or join the old ones.
LEMMA Parsed ==
  ASSUME NEW v \in 1..MaxVersion, NEW cache, OneVersion(cache, v - 1)
  PROVE  OneVersion(Pcie!Over(Pcie!EntriesOf(Pcie!Stored(1, 2, v)), cache), v)
<1> DEFINE entries == Pcie!EntriesOf(Pcie!Stored(1, 2, v))
           new == Pcie!Over(entries, cache)
<1>1. entries = [k \in 1..PcieEntries[v] |-> v] /\ PcieEntries[v] \in Nat
  BY PcieAssumption DEF Pcie!EntriesOf, Pcie!Stored
<1>2. /\ DOMAIN new = DOMAIN entries \cup DOMAIN cache
      /\ \A k \in DOMAIN new : new[k] = IF k \in DOMAIN entries THEN entries[k] ELSE cache[k]
  BY DEF Pcie!Over
<1> HIDE DEF entries, new
<1>3. \A k \in DOMAIN cache : cache[k] \in 1..v
  BY DEF OneVersion
<1>4. \A k \in DOMAIN new : new[k] \in 1..v
  BY <1>1, <1>2, <1>3
<1>5. \A k \in 1..PcieEntries[v] : k \in DOMAIN new /\ new[k] = v
  BY <1>1, <1>2
<1>6. OneVersion(new, v)
  BY <1>4, <1>5 DEF OneVersion
<1> QED
  BY <1>6 DEF new, entries

LEMMA PcieInit == Pcie!Init => Pcie!PcieInv
<1> SUFFICES ASSUME Pcie!Init
             PROVE  Pcie!PcieInv
  OBVIOUS
<1>1. v1 \in [Pcie!Types -> Seq(0..MaxVersion)]
  <2>1. <<>> \in Seq(0..MaxVersion) /\ <<0, 0>> \in Seq(0..MaxVersion)
    BY PcieAssumption
  <2> QED
    BY <2>1 DEF Pcie!Init
<1>2. Pcie!PcieTypes
  BY <1>1, PcieAssumption DEF Pcie!Init, Pcie!PcieTypes, Pcie!NoFiles,
    Pcie!Types
<1> QED
  BY <1>2, PcieAssumption DEF Pcie!Init, Pcie!PcieInv, Pcie!ReceivedAreAcked,
    Pcie!StoredWhole, Pcie!TopologyOfOneVersion, Pcie!NoFiles, Pcie!Types,
    Pcie!Version

LEMMA PcieNext == Pcie!PcieInv /\ [Pcie!Next]_Pcie!vars => Pcie!PcieInv'
<1> SUFFICES ASSUME Pcie!PcieInv, [Pcie!Next]_Pcie!vars
             PROVE  Pcie!PcieInv'
  OBVIOUS
<1> USE PcieAssumption DEF Pcie!PcieInv, Pcie!PcieTypes
<1>1. ASSUME NEW t \in Pcie!Types, NEW first \in 1..2, NEW last \in 1..2, NEW upTo \in 0..2,
             first <= last, Pcie!WriteFromMemory(t, first, last, upTo)
      PROVE  Pcie!PcieInv'
  <2>1. /\ DOMAIN v2' = DOMAIN v2 \cup {t}
        /\ \A u \in DOMAIN v2 : v2'[u] = v2[u]
        /\ t \notin DOMAIN v2 => v2'[t] = FALSE
    BY <1>1 DEF Pcie!WriteFromMemory, Pcie!Constructed, Pcie!Over
  <2>2. /\ v5' = [v5 EXCEPT ![t] = IF upTo = last THEN Pcie!Version ELSE 0]
        /\ v8' => v8 /\ first = 1 /\ last = 2 /\ t \notin v6
        /\ v8' \in BOOLEAN /\ v7 < MaxVersion
        /\ UNCHANGED <<v3, v4, v6, v7>>
    BY <1>1 DEF Pcie!WriteFromMemory
  <2>3. v1' \in [Pcie!Types -> Seq(0..MaxVersion)]
    <3>1. Pcie!Stored(first, upTo, Pcie!Version) \in Seq(0..MaxVersion)
      <4>1. Pcie!Version \in 0..MaxVersion
        BY <2>2 DEF Pcie!Version
      <4>2. \A i \in 1..upTo : (IF i < first THEN 0 ELSE Pcie!Version) \in 0..MaxVersion
        BY <4>1
      <4> QED
        BY <4>2 DEF Pcie!Stored
    <3>2. <<>> \in Seq(0..MaxVersion)
      OBVIOUS
    <3> QED
      BY <1>1, <3>1, <3>2 DEF Pcie!WriteFromMemory
  <2>4. upTo = 2 /\ first = 1 => v1' = [v1 EXCEPT ![t] = Pcie!Stored(1, 2, Pcie!Version)]
    BY <1>1 DEF Pcie!WriteFromMemory
  <2>5. \A u \in Pcie!Types : u # t => v1'[u] = v1[u]
    BY <1>1 DEF Pcie!WriteFromMemory
  <2>6. Pcie!PcieTypes'
    <3>1. v5' \in [Pcie!Types -> 0..MaxVersion + 1]
      BY <2>2 DEF Pcie!Version
    <3>2. DOMAIN v2' \subseteq Pcie!Types
      BY <2>1
    <3> QED
      BY <2>2, <2>3, <3>1, <3>2
  <2>7. Pcie!ReceivedAreAcked'
    BY <2>1, <2>2 DEF Pcie!ReceivedAreAcked
  <2>8. Pcie!StoredWhole'
    BY <2>2, <2>4, <2>5 DEF Pcie!StoredWhole, Pcie!Version
  <2> QED
    BY <2>2, <2>6, <2>7, <2>8 DEF Pcie!TopologyOfOneVersion
<1>2. ASSUME NEW t \in Pcie!Types, Pcie!Write(t)
      PROVE  Pcie!PcieInv'
  <2>1. DOMAIN v2' \subseteq Pcie!Types
    BY <1>2 DEF Pcie!Write, Pcie!Constructed, Pcie!Over
  <2> QED
    <3>1. /\ v5' \in [Pcie!Types -> 0..MaxVersion + 1] /\ ~v8' /\ v8' \in BOOLEAN
          /\ UNCHANGED <<v1, v3, v4, v6, v7>>
      <4>1. Pcie!Version \in 0..MaxVersion + 1
        BY DEF Pcie!Version
      <4> QED
        BY <1>2, <4>1 DEF Pcie!Write
    <3> QED
      BY <2>1, <3>1 DEF Pcie!ReceivedAreAcked, Pcie!StoredWhole,
        Pcie!TopologyOfOneVersion
<1>3. ASSUME NEW t \in Pcie!Types, v7 < MaxVersion, Pcie!FileAck(t)
      PROVE  Pcie!PcieInv'
  <2> DEFINE received == [Pcie!Constructed(t) EXCEPT ![t] = TRUE]
  <2>1. /\ DOMAIN received = DOMAIN v2 \cup {t}
        /\ received[t] = TRUE
        /\ \A u \in DOMAIN v2 : u # t => received[u] = v2[u]
    BY DEF Pcie!Constructed, Pcie!Over
  <2>2. /\ v8' = (v8 /\ v5[t] = Pcie!Version /\ t \notin v6)
        /\ v6' = IF v6 \cup {t} = Pcie!Types THEN {} ELSE v6 \cup {t}
        /\ v7' = IF v6 \cup {t} = Pcie!Types THEN Pcie!Version ELSE v7
        /\ UNCHANGED <<v1, v5>>
        /\ v2' = IF Pcie!BothReceived(received) THEN Pcie!NoFiles ELSE received
        /\ IF Pcie!BothReceived(received) THEN Pcie!parseTopologyData
           ELSE UNCHANGED <<v3, v4>>
    BY <1>3 DEF Pcie!FileAck, Pcie!Cleared
  <2> HIDE DEF received
  <2>3. Pcie!PcieTypes'
    <3>1. DOMAIN v2' \subseteq Pcie!Types
      BY <2>1, <2>2 DEF Pcie!NoFiles
    <3>2. v7' \in 0..MaxVersion /\ v6' \subseteq Pcie!Types /\ v6' # Pcie!Types
      <4>1. v7 \in 0..MaxVersion - 1 /\ Pcie!Version = v7 + 1
        BY <1>3 DEF Pcie!Version
      <4>2. {} # Pcie!Types
        BY DEF Pcie!Types
      <4> QED
        BY <2>2, <4>1, <4>2
    <3>3. v8' \in BOOLEAN
      BY <2>2
    <3> QED
      BY <2>2, <3>1, <3>2, <3>3
  <2>4. ASSUME v8'
        PROVE  /\ Pcie!BothReceived(received) <=> v6 \cup {t} = Pcie!Types
               /\ \A u \in v6 \cup {t} : v1[u] = Pcie!Stored(1, 2, Pcie!Version)
    <3>1. v8 /\ v5[t] = Pcie!Version /\ t \notin v6
      BY <2>2, <2>4
    <3>2. \A u \in Pcie!Types : u # t => (u \in DOMAIN received /\ received[u] <=> u \in v6)
      BY <2>1, <3>1 DEF Pcie!ReceivedAreAcked
    <3> QED
      BY <2>1, <3>1, <3>2 DEF Pcie!BothReceived, Pcie!StoredWhole
  <2>5. Pcie!ReceivedAreAcked'
    BY <2>1, <2>2, <2>4 DEF Pcie!ReceivedAreAcked, Pcie!BothReceived,
      Pcie!NoFiles
  <2>6. Pcie!StoredWhole'
    <3> SUFFICES ASSUME v8'
                 PROVE  Pcie!StoredWhole'
      BY DEF Pcie!StoredWhole
    <3>0. v7 \in Nat /\ \A u \in Pcie!Types : v5[u] \in Nat
      OBVIOUS
    <3>1. v8 /\ v5[t] = Pcie!Version /\ Pcie!Version \in Nat
      BY <2>2, <3>0 DEF Pcie!Version
    <3>2. CASE v6 \cup {t} = Pcie!Types
      BY <2>2, <3>0, <3>1, <3>2 DEF Pcie!StoredWhole, Pcie!Version
    <3>3. CASE v6 \cup {t} # Pcie!Types
      BY <2>2, <3>0, <3>1, <3>3 DEF Pcie!StoredWhole, Pcie!Version
    <3> QED
      BY <3>2, <3>3
  <2>7. Pcie!TopologyOfOneVersion'
    <3> SUFFICES ASSUME v8'
                 PROVE  OneVersion(v3', v7') /\ OneVersion(v4', v7')
      BY DEF Pcie!TopologyOfOneVersion, OneVersion
    <3>1. OneVersion(v3, v7) /\ OneVersion(v4, v7)
      BY <2>2 DEF Pcie!TopologyOfOneVersion, OneVersion
    <3>2. CASE v6 \cup {t} = Pcie!Types
      <4>0. Pcie!Stored(1, 2, Pcie!Version) # <<>>
        <5>1. 1 \in DOMAIN Pcie!Stored(1, 2, Pcie!Version)
          BY DEF Pcie!Stored
        <5> QED
          BY <5>1
      <4>1. v1["topology"] = Pcie!Stored(1, 2, Pcie!Version)
              /\ v1["cable"] = Pcie!Stored(1, 2, Pcie!Version)
        BY <2>4, <3>2 DEF Pcie!Types
      <4>2. /\ v3' = Pcie!Over(Pcie!EntriesOf(Pcie!Stored(1, 2, Pcie!Version)), v3)
            /\ v4' = Pcie!Over(Pcie!EntriesOf(Pcie!Stored(1, 2, Pcie!Version)), v4)
        BY <2>2, <2>4, <3>2, <4>0, <4>1 DEF Pcie!parseTopologyData,
          Pcie!parseCableInfo
      <4>3. Pcie!Version \in 1..MaxVersion /\ v7 = Pcie!Version - 1 /\ v7' = Pcie!Version
        BY <1>3, <2>2, <3>2 DEF Pcie!Version
      <4> QED
        BY <3>1, <4>2, <4>3, Parsed
    <3>3. CASE v6 \cup {t} # Pcie!Types
      BY <2>2, <2>4, <3>1, <3>3 DEF OneVersion
    <3> QED
      BY <3>2, <3>3
  <2> QED
    BY <2>3, <2>5, <2>6, <2>7
<1>4. CASE Pcie!Restart
  <2>1. /\ v2' = Pcie!NoFiles /\ v3' = <<>> /\ v4' = <<>>
        /\ v8' = (v8 /\ v6 = {} /\ v7 = 0)
        /\ UNCHANGED <<v1, v5, v6, v7>>
    BY <1>4 DEF Pcie!Restart
  <2>2. DOMAIN v2' = {} /\ v8' \in BOOLEAN
    BY <2>1 DEF Pcie!NoFiles
  <2>3. Pcie!TopologyOfOneVersion'
    <3>1. \A k \in DOMAIN <<>> : FALSE
      OBVIOUS
    <3>2. v8' => v7' = 0
      BY <2>1
    <3>3. \A cache \in {v3', v4'} : cache = <<>>
      BY <2>1
    <3> QED
      BY <3>1, <3>2, <3>3 DEF Pcie!TopologyOfOneVersion
  <2> QED
    BY <2>1, <2>2, <2>3 DEF Pcie!ReceivedAreAcked, Pcie!StoredWhole,
      Pcie!Version
<1>5. CASE UNCHANGED Pcie!vars
  BY <1>5 DEF Pcie!vars, Pcie!ReceivedAreAcked, Pcie!StoredWhole,
    Pcie!TopologyOfOneVersion, Pcie!Version
<1> QED
  BY <1>1, <1>2, <1>3, <1>4, <1>5 DEF Pcie!Next

LEMMA PcieStays ==
  (component = "pcie" => Pcie!PcieInv) /\ [OemNext]_vars
    => (component = "pcie" => Pcie!PcieInv)'
<1> SUFFICES ASSUME component' = "pcie", [OemNext]_vars,
                    component = "pcie" => Pcie!PcieInv
             PROVE  Pcie!PcieInv'
  OBVIOUS
<1>1. CASE PcieStep
  BY <1>1, PcieNext DEF PcieStep, Only
<1>2. CASE UNCHANGED vars
  BY <1>2, PcieNext, OthersElsewhere DEF vars, Pcie!vars
<1> QED
  BY <1>1, <1>2, OthersElsewhere

-----------------------------------------------------------------------------
\* ResourceDump: v1 is entry, v2 is sourceIs1, v3 is parameters, v4 is
\* notices, v5 is serving, v6 is hostRead, v7 is trouble, v8 is orderly.

\* A file of as many parts as the parameters have
LEMMA Parted ==
  ASSUME NEW S, NEW d \in S
  PROVE  [k \in 1..ParameterParts |-> d] \in Seq(S)
  BY DumpAssumption

LEMMA ResDumpInit == ResDump!Init => ResDump!ResDumpInv
<1> SUFFICES ASSUME ResDump!Init
             PROVE  ResDump!ResDumpInv
  OBVIOUS
<1>1. [k \in 1..ParameterParts |-> ResDump!None] \in Seq(DumpEntries \cup {ResDump!None})
  BY Parted
<1>2. <<>> \in Seq(DumpEntries \cup {ResDump!None})
  OBVIOUS
<1>3. v3 \in Seq(DumpEntries \cup {ResDump!None})
  BY <1>1, <1>2 DEF ResDump!Init
<1> QED
  BY <1>3 DEF ResDump!Init, ResDump!ResDumpInv, ResDump!ResDumpTypes,
    ResDump!FileOfOne, ResDump!ParametersKeptApart

LEMMA ResDumpNext == ResDump!ResDumpInv /\ [ResDump!Next]_ResDump!vars => ResDump!ResDumpInv'
<1> SUFFICES ASSUME ResDump!ResDumpInv, [ResDump!Next]_ResDump!vars
             PROVE  ResDump!ResDumpInv'
  OBVIOUS
<1> USE DumpAssumption DEF ResDump!ResDumpInv, ResDump!ResDumpTypes
<1>1. ASSUME NEW d \in DumpEntries, ResDump!resDumpMatcher(d)
      PROVE  ResDump!ResDumpInv'
  <2>1. PICK inProgress \in BOOLEAN, opened \in BOOLEAN, sent \in BOOLEAN :
          ResDump!ProcessNewResourceDump(d, inProgress, opened, sent)
    BY <1>1 DEF ResDump!resDumpMatcher
  <2>2. UNCHANGED <<v2, v5, v6>> /\ v1[d] = "none"
    BY <1>1, <2>1 DEF ResDump!resDumpMatcher, ResDump!ProcessNewResourceDump
  <2>3. CASE ~inProgress
    BY <2>1, <2>2, <2>3 DEF ResDump!ProcessNewResourceDump, ResDump!FileOfOne,
      ResDump!ParametersKeptApart
  <2>4. CASE inProgress /\ ~opened
    BY <2>1, <2>2, <2>4 DEF ResDump!ProcessNewResourceDump,
      ResDump!reportResourceDumpFailure, ResDump!FileOfOne,
      ResDump!ParametersKeptApart
  <2>5. CASE inProgress /\ opened
    <3>1. /\ v3' = ResDump!Written(d) /\ ResDump!SendNewFileAvailable(d, sent)
          /\ v8' = (v8 /\ v5 = ResDump!None /\ v4 = <<>>)
      BY <2>1, <2>5 DEF ResDump!ProcessNewResourceDump
    <3>2. v3' \in Seq(DumpEntries \cup {ResDump!None})
      BY <3>1, Parted DEF ResDump!Written
    <3>3. CASE sent
      <4>0. /\ v4' = Append(v4, d)
            /\ v1' = [v1 EXCEPT ![d] = "InProgress"] /\ UNCHANGED v7
        BY <3>1, <3>3 DEF ResDump!SendNewFileAvailable
      <4>1. /\ v4' \in Seq(DumpEntries)
            /\ v4 = <<>> => Len(v4') = 1 /\ Head(v4') = d
        BY <4>0
      <4>2. ResDump!ResDumpTypes'
        BY <2>2, <3>2, <4>0, <4>1
      <4>3. ResDump!FileOfOne'
        BY <2>2, <3>1, <4>1 DEF ResDump!FileOfOne
      <4> QED
        BY <2>2, <3>1, <4>0, <4>2, <4>3 DEF ResDump!ParametersKeptApart
    <3>4. CASE ~sent
      BY <2>2, <3>1, <3>2, <3>4 DEF ResDump!SendNewFileAvailable,
        ResDump!reportResourceDumpFailure, ResDump!FileOfOne,
        ResDump!ParametersKeptApart, ResDump!Written
    <3> QED
      BY <3>3, <3>4
  <2> QED
    BY <2>3, <2>4, <2>5
<1>2. ASSUME NEW d \in DumpEntries, NEW is1 \in BOOLEAN, ResDump!DumpArrives(d, is1)
      PROVE  ResDump!ResDumpInv'
  BY <1>2 DEF ResDump!DumpArrives, ResDump!FileOfOne,
    ResDump!ParametersKeptApart, ResDump!Written
<1>3. ASSUME NEW reply \in {"accepted", "refused", "none"}, ResDump!NoticeAnswered(reply)
      PROVE  ResDump!ResDumpInv'
  <2>1. /\ v4 # <<>> /\ v4' = Tail(v4) /\ Head(v4) \in DumpEntries
        /\ UNCHANGED <<v2, v3, v8>>
        /\ Len(v4) = 1 => v4' = <<>>
    BY <1>3 DEF ResDump!NoticeAnswered
  <2>2. CASE reply = "accepted"
    BY <1>3, <2>1, <2>2 DEF ResDump!NoticeAnswered, ResDump!FileOfOne,
      ResDump!ParametersKeptApart, ResDump!Written
  <2>3. CASE reply = "refused"
    BY <1>3, <2>1, <2>3 DEF ResDump!NoticeAnswered,
      ResDump!reportResourceDumpFailure, ResDump!FileOfOne,
      ResDump!ParametersKeptApart, ResDump!Written
  <2>4. CASE reply = "none"
    BY <1>3, <2>1, <2>4 DEF ResDump!NoticeAnswered, ResDump!FileOfOne,
      ResDump!ParametersKeptApart, ResDump!Written
  <2> QED
    BY <2>2, <2>3, <2>4
<1>4. CASE ResDump!HostReads
  <2>1. /\ v5 # ResDump!None /\ Len(v6) < ParameterParts /\ Len(v6) < Len(v3)
        /\ v6' = Append(v6, v3[Len(v6) + 1])
        /\ UNCHANGED <<v1, v2, v3, v4, v5, v7, v8>>
    BY <1>4 DEF ResDump!HostReads
  <2>2. v8 => v3[Len(v6) + 1] = v5
    BY <2>1 DEF ResDump!FileOfOne, ResDump!Written
  <2>3. v3[Len(v6) + 1] \in DumpEntries \cup {ResDump!None}
    BY <2>1
  <2> QED
    BY <2>1, <2>2, <2>3 DEF ResDump!FileOfOne, ResDump!ParametersKeptApart,
      ResDump!Written
<1>5. ASSUME NEW ok \in BOOLEAN, ResDump!FileAck(ok)
      PROVE  ResDump!ResDumpInv'
  BY <1>5 DEF ResDump!FileAck, ResDump!FileOfOne, ResDump!ParametersKeptApart,
    ResDump!Written
<1>6. CASE UNCHANGED ResDump!vars
  BY <1>6 DEF ResDump!vars, ResDump!FileOfOne, ResDump!ParametersKeptApart,
    ResDump!Written
<1> QED
  BY <1>1, <1>2, <1>3, <1>4, <1>5, <1>6 DEF ResDump!Next

LEMMA ResDumpStays ==
  (component = "resdump" => ResDump!ResDumpInv) /\ [OemNext]_vars
    => (component = "resdump" => ResDump!ResDumpInv)'
<1> SUFFICES ASSUME component' = "resdump", [OemNext]_vars,
                    component = "resdump" => ResDump!ResDumpInv
             PROVE  ResDump!ResDumpInv'
  OBVIOUS
<1>1. CASE ResDumpStep
  BY <1>1, ResDumpNext DEF ResDumpStep, Only
<1>2. CASE UNCHANGED vars
  BY <1>2, ResDumpNext, OthersElsewhere DEF vars, ResDump!vars
<1> QED
  BY <1>1, <1>2, OthersElsewhere

-----------------------------------------------------------------------------
\* CsrFiles: v1 is made, v2 is file, v3 is notices, v4 is wanted, v5 is
\* hostRead, v6 is lost.

LEMMA CsrInit == Csr!Init => Csr!CsrInv
  BY DEF Csr!Init, Csr!CsrInv, Csr!CsrTypes, Csr!AnnouncedOnce,
    Csr!CsrReachesHost

\* What a notice is appended to keeps its place.
LEMMA Appended ==
  ASSUME NEW S, NEW s \in Seq(S), NEW e \in S
  PROVE  /\ Append(s, e) \in Seq(S) /\ Len(Append(s, e)) = Len(s) + 1
         /\ \A k \in DOMAIN Append(s, e) :
              \/ k \in DOMAIN s /\ Append(s, e)[k] = s[k]
              \/ k = Len(s) + 1 /\ Append(s, e)[k] = e
  OBVIOUS

LEMMA CsrNext == Csr!CsrInv /\ [Csr!Next]_Csr!vars => Csr!CsrInv'
<1> SUFFICES ASSUME Csr!CsrInv, [Csr!Next]_Csr!vars
             PROVE  Csr!CsrInv'
  OBVIOUS
<1> USE DEF Csr!CsrInv, Csr!CsrTypes, Csr!AnnouncedOnce, Csr!CsrReachesHost,
  Csr!CertFilePath
<1>1. ASSUME NEW h \in CsrHandles, Csr!vmiCertMatcher(h)
      PROVE  Csr!CsrInv'
  <2>1. PICK opened \in BOOLEAN, sent \in BOOLEAN : Csr!NewCsrFileAvailable(h, opened, sent)
    BY <1>1 DEF Csr!vmiCertMatcher
  <2>2. h \notin v1 /\ v1' = v1 \cup {h} /\ UNCHANGED <<v4, v5, v6>>
    BY <1>1, <2>1 DEF Csr!vmiCertMatcher, Csr!NewCsrFileAvailable
  <2>3. \/ UNCHANGED <<v2, v3>>
        \/ v2' = [v2 EXCEPT ![h] = h] /\ UNCHANGED v3
        \/ v2' = [v2 EXCEPT ![h] = h] /\ v3' = Append(v3, h)
    BY <2>1 DEF Csr!NewCsrFileAvailable, Csr!SendToHost
  <2>4. CASE UNCHANGED <<v2, v3>>
    BY <2>2, <2>4
  <2>5. CASE v2' = [v2 EXCEPT ![h] = h] /\ UNCHANGED v3
    BY <2>2, <2>5
  <2>6. CASE v2' = [v2 EXCEPT ![h] = h] /\ v3' = Append(v3, h)
    <3>1. v3' \in Seq(v1') /\ Len(v3') = Len(v3) + 1
      BY <2>2, <2>6
    <3>0. v3 \in Seq(v1 \cup {h})
      BY <2>2
    <3>2. \A k \in DOMAIN v3' :
             \/ k \in DOMAIN v3 /\ v3'[k] = v3[k]
             \/ k = Len(v3) + 1 /\ v3'[k] = h
      <4> HIDE DEF Csr!CsrInv
      <4> QED
        BY <2>6, <3>0, Appended
    <3>3. \A k \in DOMAIN v3 : v3[k] \in v1 /\ v3[k] # h
      BY <2>2
    <3>4. Csr!CsrTypes' /\ Csr!CsrReachesHost'
      BY <2>2, <2>6, <3>1
    <3>5. Csr!AnnouncedOnce'
      BY <2>2, <2>6, <3>1, <3>2, <3>3
    <3> QED
      BY <3>4, <3>5
  <2> QED
    BY <2>3, <2>4, <2>5, <2>6
<1>2. ASSUME NEW reached \in BOOLEAN, Csr!NoticeAnswered(reached)
      PROVE  Csr!CsrInv'
  BY <1>2 DEF Csr!NoticeAnswered
<1>3. ASSUME NEW h \in CsrHandles, NEW whole \in BOOLEAN, NEW ok \in BOOLEAN, Csr!Read(h, whole, ok)
      PROVE  Csr!CsrInv'
  BY <1>3 DEF Csr!Read
<1>4. CASE UNCHANGED Csr!vars
  BY <1>4 DEF Csr!vars
<1> QED
  BY <1>1, <1>2, <1>3, <1>4 DEF Csr!Next

LEMMA CsrStays ==
  (component = "csr" => Csr!CsrInv) /\ [OemNext]_vars
    => (component = "csr" => Csr!CsrInv)'
<1> SUFFICES ASSUME component' = "csr", [OemNext]_vars,
                    component = "csr" => Csr!CsrInv
             PROVE  Csr!CsrInv'
  OBVIOUS
<1>1. CASE CsrStep
  BY <1>1, CsrNext DEF CsrStep, Only
<1>2. CASE UNCHANGED vars
  BY <1>2, CsrNext, OthersElsewhere DEF vars, Csr!vars
<1> QED
  BY <1>1, <1>2, OthersElsewhere

-----------------------------------------------------------------------------
\* FileIo: v1 is file, v2 is exists, v3 is table, v4 is acked, v5 is copy, v6 is
\* answer, v7 is unnoticed.

FromHostFold == INSTANCE FoldInduction WITH
  Op <- LAMBDA t, op, none : Files!Overwrite(t, op.offset, Files!AtHost(op))
ToHostFold == INSTANCE FoldInduction WITH
  Op <- LAMBDA m, op, s : Files!Overwrite(m, op.address, Files!Piece(s, op))

LEMMA FromHostFolds ==
  ASSUME NEW s, NEW ops
  PROVE  Files!FromHost(s, ops) = FromHostFold!Fold(s, ops, 0)
  BY DEF Files!FromHost, Files!FoldLeft, Files!MapThenFoldSet, Files!Max,
    FromHostFold!Fold, FromHostFold!Iter, FromHostFold!Solves, FromHostFold!Step, FromHostFold!Largest

LEMMA ToHostFolds ==
  ASSUME NEW s, NEW m, NEW ops
  PROVE  Files!ToHost(m, s, ops) = ToHostFold!Fold(m, ops, s)
  BY DEF Files!ToHost, Files!FoldLeft, Files!MapThenFoldSet, Files!Max,
    ToHostFold!Fold, ToHostFold!Iter, ToHostFold!Solves, ToHostFold!Step, ToHostFold!Largest

LEMMA OfTwo ==
  ASSUME NEW a \in Int, NEW b \in Int
  PROVE  /\ Files!Max({a, b}) = IF a >= b THEN a ELSE b
         /\ Files!Min({a, b}) = IF a <= b THEN a ELSE b
<1>1. Files!Max({a, b}) = IF a >= b THEN a ELSE b
  BY DEF Files!Max
<1>2. Files!Min({a, b}) = IF a <= b THEN a ELSE b
  BY DEF Files!Min
<1> QED
  BY <1>1, <1>2

\* The operations of a transfer follow one another without a gap.
Follow(ops, n, offset, length) ==
  /\ n \in Nat \ {0} /\ DOMAIN ops = 1..n /\ Len(ops) = n
  /\ ops \in Seq([offset : Nat, address : Nat, length : Nat])
  /\ \A i \in 1..n : ops[i].offset \in Nat /\ ops[i].length \in Nat
  /\ \A i \in 1..n : ops[i].address = ops[i].offset /\ ops[i].offset >= offset
  /\ ops[1].offset = offset
  /\ \A i \in 2..n : ops[i].offset = ops[i-1].offset + ops[i-1].length
  /\ \A i \in 1..n : ops[i].offset + ops[i].length <= offset + length
  /\ ops[n].offset + ops[n].length = offset + length

LEMMA OpsFollow ==
  ASSUME NEW offset \in Nat, NEW length \in Nat \ {0}
  PROVE  Follow(Files!DmaOps(offset, length, offset), Files!Operations(length), offset, length)
<1> DEFINE n == Files!Operations(length)
           ops == Files!DmaOps(offset, length, offset)
           m == MaxDma
           q == (length - 1) \div m
<1>1. m \in Nat \ {0}
  BY FilesAssumption DEF FilesAssumption
<1>2. q \in Nat /\ q * m <= length - 1
  BY <1>1
<1>3. n = q + 1
  BY DEF Files!Operations
<1>4. /\ DOMAIN ops = 1..n
      /\ \A i \in 1..n : ops[i] =
           [offset |-> offset + (i - 1) * m, address |-> offset + (i - 1) * m,
            length |-> IF i < n THEN m ELSE length - (i - 1) * m]
  BY DEF Files!DmaOps
<1>14. ops = [i \in 1..n |-> ops[i]]
  BY DEF Files!DmaOps
<1> HIDE DEF q, n, ops
<1>5. ASSUME NEW i \in 1..n
      PROVE  /\ (i - 1) * m \in Nat /\ (i - 1) * m <= length - 1
             /\ i < n => i * m <= length - 1 /\ i * m = (i - 1) * m + m
  <2>1. i - 1 \in Nat /\ i - 1 <= q
    BY <1>2, <1>3
  <2>2. (i - 1) * m <= q * m
    BY <1>1, <1>2, <2>1
  <2>3. (i - 1) * m \in Nat
    BY <1>1, <2>1
  <2>4. i < n => i * m <= q * m
    BY <1>1, <1>2, <1>3
  <2>5. i * m = (i - 1) * m + m
    BY <1>1
  <2> QED
    BY <1>1, <1>2, <2>2, <2>3, <2>4, <2>5
<1>6. n \in Nat \ {0}
  BY <1>2, <1>3
<1>7. ASSUME NEW i \in 1..n
      PROVE  ops[i] \in [offset : Nat, address : Nat, length : Nat]
  <2> DEFINE x == (i - 1) * m
  <2>1. x \in Nat /\ x <= length - 1
    BY <1>5
  <2>2. ops[i] = [offset |-> offset + x, address |-> offset + x,
                  length |-> IF i < n THEN m ELSE length - x]
    BY <1>4
  <2> HIDE DEF x, m
  <2>3. offset + x \in Nat /\ (IF i < n THEN m ELSE length - x) \in Nat
    BY <1>1, <2>1
  <2> QED
    BY <2>2, <2>3
<1>8. ops \in Seq([offset : Nat, address : Nat, length : Nat]) /\ Len(ops) = n
  <2>1. ops \in [1..n -> [offset : Nat, address : Nat, length : Nat]]
    BY <1>7, <1>14
  <2> DEFINE R == [offset : Nat, address : Nat, length : Nat]
  <2> HIDE DEF R
  <2>2. ops \in [1..n -> R]
    BY <2>1 DEF R
  <2>3. ops \in Seq(R) /\ Len(ops) = n
    BY <1>6, <2>2
  <2> QED
    BY <2>3 DEF R
<1>9. ASSUME NEW i \in 1..n PROVE ops[i].address = ops[i].offset /\ ops[i].offset >= offset
  <2> DEFINE x == (i - 1) * m
  <2>1. ops[i].address = ops[i].offset /\ ops[i].offset = offset + x
    BY <1>4
  <2>2. x \in Nat
    BY <1>5
  <2> HIDE DEF x
  <2> QED
    BY <2>1, <2>2
<1>10. ops[1].offset = offset
  <2>1. (1 - 1) * m = 0
    BY <1>1
  <2> QED
    BY <1>4, <1>6, <2>1
<1>11. \A i \in 2..n : ops[i].offset = ops[i-1].offset + ops[i-1].length
  <2> TAKE i \in 2..n
  <2>1. i - 1 \in 1..n /\ i - 1 < n /\ i \in 1..n
    BY <1>6
  <2>2. (i - 1) * m = ((i - 1) - 1) * m + m
    BY <1>5, <2>1
  <2>3. ((i - 1) - 1) * m \in Nat
    BY <1>5, <2>1
  <2> HIDE DEF m
  <2> QED
    BY <1>1, <1>4, <2>1, <2>2, <2>3
<1>12. ASSUME NEW i \in 1..n PROVE ops[i].offset + ops[i].length <= offset + length
  <2>1. CASE i < n
    BY <1>1, <1>4, <1>5, <2>1
  <2>2. CASE ~(i < n)
    BY <1>1, <1>4, <1>5, <2>2
  <2> QED
    BY <2>1, <2>2
<1>13. ops[n].offset + ops[n].length = offset + length
  BY <1>1, <1>4, <1>5, <1>6
<1>15. \A i \in 1..n : ops[i].offset \in Nat /\ ops[i].length \in Nat
  BY <1>7
<1>16. Follow(ops, n, offset, length)
  BY <1>4, <1>6, <1>8, <1>9, <1>10, <1>11, <1>12, <1>13, <1>15 DEF Follow
<1> QED
  BY <1>16 DEF n, ops

\* Writing where the file has no gap before it.
LEMMA Overwritten ==
  ASSUME NEW s \in Seq(Nat), NEW data \in Seq(Nat), NEW offset \in Nat,
         offset <= Len(s)
  PROVE  LET w == Files!Overwrite(s, offset, data) IN
         /\ w \in Seq(Nat)
         /\ Len(w) = IF Len(s) >= offset + Len(data) THEN Len(s) ELSE offset + Len(data)
         /\ \A i \in 1..Len(w) :
              w[i] = IF i \in (offset + 1)..(offset + Len(data)) THEN data[i - offset] ELSE s[i]
<1> DEFINE w == Files!Overwrite(s, offset, data)
           n == IF Len(s) >= offset + Len(data) THEN Len(s) ELSE offset + Len(data)
<1>1. Files!Max({Len(s), offset + Len(data)}) = n
  <2>1. Len(s) \in Int /\ offset + Len(data) \in Int
    OBVIOUS
  <2> QED
    BY <2>1, OfTwo
<1>2. w = [i \in 1..n |->
             IF i \in (offset + 1)..(offset + Len(data)) THEN data[i - offset] ELSE s[i]]
  <2>1. \A i \in 1..n : i \notin (offset + 1)..(offset + Len(data)) => i <= Len(s)
    BY SMTT(30)
  <2>2. w = [i \in 1..n |->
               IF i \in (offset + 1)..(offset + Len(data)) THEN data[i - offset]
               ELSE IF i <= Len(s) THEN s[i] ELSE 0]
    BY <1>1 DEF Files!Overwrite
  <2> HIDE DEF w, n
  <2> QED
    BY <2>1, <2>2
<1>3. \A i \in 1..n : w[i] \in Nat
  BY <1>2
<1>4. w \in [1..n -> Nat] /\ n \in Nat
  BY <1>2, <1>3
<1> QED
  BY SMTT(30), <1>2, <1>4

\* Writing anywhere
LEMMA Overlaid ==
  ASSUME NEW s \in Seq(Nat), NEW data \in Seq(Nat), NEW offset \in Nat
  PROVE  Files!Overwrite(s, offset, data) \in Seq(Nat)
<1> DEFINE w == Files!Overwrite(s, offset, data)
           n == IF Len(s) >= offset + Len(data) THEN Len(s) ELSE offset + Len(data)
<1>1. Files!Max({Len(s), offset + Len(data)}) = n
  <2>1. Len(s) \in Int /\ offset + Len(data) \in Int
    OBVIOUS
  <2> QED
    BY <2>1, OfTwo
<1>2. w = [i \in 1..n |->
             IF i \in (offset + 1)..(offset + Len(data)) THEN data[i - offset]
             ELSE IF i <= Len(s) THEN s[i] ELSE 0]
  BY <1>1 DEF Files!Overwrite
<1>3. \A i \in 1..n : w[i] \in Nat
  BY <1>2
<1>4. w \in [1..n -> Nat] /\ n \in Nat
  BY <1>2, <1>3
<1> HIDE DEF w, n
<1>5. w \in Seq(Nat)
  BY <1>4
<1> QED
  BY <1>5 DEF w

\* What is in a file or in a copy of one
Held(s) == \A i \in DOMAIN s : s[i] \in {Files!Old(i), Files!New(i)}

LEMMA HostBufferHeld ==
  /\ Files!HostBuffer \in Seq(Nat) /\ Len(Files!HostBuffer) = MaxFile
  /\ \A i \in 1..MaxFile : Files!HostBuffer[i] = i
<1>1. MaxFile \in Nat
  BY FilesAssumption DEF FilesAssumption
<1>2. Files!HostBuffer = [i \in 1..MaxFile |-> i]
  BY DEF Files!HostBuffer, Files!New
<1>3. Files!HostBuffer \in [1..MaxFile -> Nat]
  BY <1>1, <1>2
<1> QED
  BY <1>1, <1>2, <1>3

\* The host's buffer written at its place
LEMMA HostWrites ==
  ASSUME NEW s \in Seq(Nat), Held(s), NEW from \in Nat, NEW to \in Nat,
         from <= to, to <= MaxFile, from <= Len(s), \A i \in 1..from : s[i] = i
  PROVE  LET w == Files!Overwrite(s, from, SubSeq(Files!HostBuffer, from + 1, to)) IN
         /\ w \in Seq(Nat) /\ Held(w)
         /\ Len(w) >= Len(s) /\ Len(w) >= to
         /\ \A i \in 1..to : w[i] = i
<1> DEFINE data == SubSeq(Files!HostBuffer, from + 1, to)
           w == Files!Overwrite(s, from, data)
<1>0. MaxFile \in Nat
  BY FilesAssumption DEF FilesAssumption
<1>1. /\ data \in Seq(Nat) /\ Len(data) = to - from
      /\ \A i \in 1..(to - from) : data[i] = from + i
  BY <1>0, HostBufferHeld
<1> HIDE DEF data
<1>2. /\ w \in Seq(Nat)
      /\ Len(w) = IF Len(s) >= to THEN Len(s) ELSE to
      /\ \A i \in 1..Len(w) :
           w[i] = IF i \in (from + 1)..to THEN data[i - from] ELSE s[i]
  <2>1. from + Len(data) = to
    BY <1>1
  <2>2. /\ w \in Seq(Nat)
        /\ Len(w) = IF Len(s) >= from + Len(data) THEN Len(s) ELSE from + Len(data)
        /\ \A i \in 1..Len(w) :
             w[i] = IF i \in (from + 1)..(from + Len(data)) THEN data[i - from] ELSE s[i]
    BY <1>1, <2>1, Overwritten
  <2> QED
    BY <2>1, <2>2
<1> HIDE DEF w
<1>3. \A i \in 1..to : w[i] = i
  <2> TAKE i \in 1..to
  <2>0. i \in 1..Len(w) /\ (i \in (from + 1)..to <=> i > from)
    <3>1. Len(w) >= to /\ Len(w) \in Nat
      BY <1>2
    <3> QED
      BY <3>1
  <2>1. CASE i <= from
    <3>1. i \in 1..from /\ i \notin (from + 1)..to
      BY <2>1
    <3>2. w[i] = s[i]
      BY <1>2, <2>0, <3>1
    <3> QED
      BY <3>1, <3>2
  <2>2. CASE i > from
    <3>1. i - from \in 1..(to - from) /\ from + (i - from) = i
      BY <2>2
    <3>2. data[i - from] = i
      BY <1>1, <3>1
    <3> QED
      BY <1>2, <2>0, <2>2, <3>2
  <2> QED
    BY <2>1, <2>2
<1>4. \A i \in 1..Len(w) : i > to => w[i] = s[i] /\ i \in 1..Len(s)
  BY <1>2
<1>5. Held(w)
  <2> SUFFICES ASSUME NEW i \in 1..Len(w) PROVE w[i] \in {Files!Old(i), Files!New(i)}
    BY <1>2 DEF Held
  <2>1. CASE i <= to
    BY <1>3, <2>1 DEF Files!New
  <2>2. CASE i > to
    BY <1>4, <2>2 DEF Held
  <2> QED
    BY <2>1, <2>2
<1> QED
  BY <1>2, <1>3, <1>5 DEF w, data

\* A transfer from the host, cut after k operations
LEMMA TransferredFromHost ==
  ASSUME NEW s \in Seq(Nat), Held(s), NEW offset \in Nat, NEW length \in Nat \ {0},
         offset <= Len(s), offset + length <= MaxFile, \A i \in 1..offset : s[i] = i,
         NEW k \in 0..Len(Files!DmaOps(offset, length, offset))
  PROVE  LET ops == Files!DmaOps(offset, length, offset)
             w == Files!FromHost(s, SubSeq(ops, 1, k)) IN
         /\ w \in Seq(Nat) /\ Held(w)
         /\ Len(w) >= Len(s) /\ \A i \in 1..offset : w[i] = i
         /\ k = Len(ops) =>
              Len(w) >= offset + length /\ \A i \in 1..(offset + length) : w[i] = i
<1> DEFINE n == Files!Operations(length)
           ops == Files!DmaOps(offset, length, offset)
           Op == [offset : Nat, address : Nat, length : Nat]
           q == SubSeq(ops, 1, k)
           w == Files!FromHost(s, q)
           End(i) == IF i = 0 THEN offset ELSE ops[i].offset + ops[i].length
           Kept(i) == {t \in Seq(Nat) : /\ Len(t) >= Len(s) /\ Len(t) >= End(i) /\ Held(t)
                                       /\ \A j \in 1..End(i) : t[j] = j}
           I == [i \in 0..k |-> Kept(i)]
<1>0. k \in 0..Len(ops) /\ Follow(ops, n, offset, length)
  BY OpsFollow
<1> HIDE DEF Op, n, ops
<1>1. /\ n \in Nat \ {0} /\ Len(ops) = n
      /\ \A i \in 1..n : ops[i].offset \in Nat /\ ops[i].length \in Nat
      /\ \A i \in 1..n : ops[i].address = ops[i].offset
      /\ ops[1].offset = offset
      /\ \A i \in 2..n : ops[i].offset = ops[i-1].offset + ops[i-1].length
      /\ \A i \in 1..n : ops[i].offset + ops[i].length <= offset + length
      /\ ops[n].offset + ops[n].length = offset + length
  BY <1>0 DEF Follow
<1>2. ops \in Seq(Op)
  BY <1>0 DEF Follow, Op
<1>3. DOMAIN q = 1..k /\ \A i \in 1..k : q[i] = ops[i]
  BY <1>1, <1>2
<1>4. k \in Nat /\ k <= n
  BY <1>0, <1>1
<1>5. \A i \in 1..k : End(i-1) = ops[i].offset /\ End(i) = ops[i].offset + ops[i].length
  <2> TAKE i \in 1..k
  <2>1. i \in 1..n /\ (i = 1 \/ i \in 2..n)
    BY <1>1, <1>4
  <2>2. ops[1].offset = offset
    BY <1>1
  <2>3. i \in 2..n => ops[i].offset = ops[i-1].offset + ops[i-1].length
    BY <1>1
  <2> QED
    BY <2>1, <2>2, <2>3
<1>6. s \in I[0]
  BY <1>4
<1>7. ASSUME NEW i \in 1..k, NEW t \in I[i-1]
      PROVE  Files!Overwrite(t, q[i].offset, Files!AtHost(q[i])) \in I[i]
  <2> DEFINE from == ops[i].offset
             to == ops[i].offset + ops[i].length
             w1 == Files!Overwrite(t, from, SubSeq(Files!HostBuffer, from + 1, to))
  <2>1. i \in 1..n /\ i - 1 \in 0..k /\ i \in 0..k
    BY <1>1, <1>4
  <2>2. /\ t \in Seq(Nat) /\ Held(t) /\ Len(t) >= Len(s) /\ Len(t) >= from
        /\ \A j \in 1..from : t[j] = j
    BY <1>5, <2>1
  <2>3. from \in Nat /\ to \in Nat /\ from <= to /\ to <= MaxFile
    <3>1. MaxFile \in Nat
      BY FilesAssumption DEF FilesAssumption
    <3>2. to <= offset + length /\ ops[i].length \in Nat /\ from \in Nat
      BY <1>1, <2>1
    <3>3. to = from + ops[i].length
      OBVIOUS
    <3> HIDE DEF from, to
    <3> QED
      BY SMTT(30), <3>1, <3>2, <3>3
  <2>4. Files!Overwrite(t, q[i].offset, Files!AtHost(q[i])) = w1
    BY <1>1, <1>3, <2>1 DEF Files!AtHost
  <2> HIDE DEF from, to, w1
  <2>9. w1 = Files!Overwrite(t, from, SubSeq(Files!HostBuffer, from + 1, to))
    BY DEF w1
  <2>5. /\ w1 \in Seq(Nat) /\ Held(w1)
        /\ Len(w1) >= Len(t) /\ Len(w1) >= to
        /\ \A j \in 1..to : w1[j] = j
    BY <2>2, <2>3, <2>9, HostWrites
  <2>6. End(i) = to
    BY <1>5 DEF to
  <2>7. Len(w1) >= Len(s)
    <3>1. Len(w1) \in Nat /\ Len(t) \in Nat /\ Len(s) \in Nat
      BY <2>2, <2>5
    <3> QED
      BY <3>1, <2>2, <2>5
  <2> HIDE DEF End
  <2>8. w1 \in Kept(i)
    BY <2>5, <2>6, <2>7
  <2> QED
    BY <2>1, <2>4, <2>8
<1>8. w \in I[k]
  <2>1. w = FromHostFold!Fold(s, q, 0)
    BY FromHostFolds
  <2> HIDE DEF I, q, w
  <2>2. \A i \in 1..k : \A t \in I[i-1] :
          Files!Overwrite(t, q[i].offset, Files!AtHost(q[i])) \in I[i]
    BY <1>7
  <2>3. FromHostFold!Fold(s, q, 0) \in I[k]
    BY <1>3, <1>4, <1>6, <2>2, FromHostFold!FoldInvariant
  <2> QED
    BY <2>1, <2>3
<1>9. w \in Kept(k) /\ Len(w) \in Nat
  BY <1>4, <1>8
<1>10. offset <= End(k) /\ (k = Len(ops) => End(k) = offset + length) /\ End(k) \in Nat
  <2> DEFINE S == {i \in Nat : i <= k => offset <= End(i) /\ End(i) \in Nat}
  <2>1. 0 \in S
    OBVIOUS
  <2>2. ASSUME NEW i \in S \cap Nat PROVE i + 1 \in S
    <3> SUFFICES ASSUME i + 1 <= k PROVE offset <= End(i+1) /\ End(i+1) \in Nat
      OBVIOUS
    <3>1. i + 1 \in 1..k /\ (i + 1) - 1 = i /\ i + 1 \in 1..n
      BY <1>1, <1>4
    <3>2. End(i) = ops[i+1].offset /\ End(i+1) = ops[i+1].offset + ops[i+1].length
      BY <1>5, <3>1
    <3> HIDE DEF End
    <3>3. offset <= End(i) /\ End(i) \in Nat
      BY <1>4
    <3>4. ops[i+1].length \in Nat
      BY <1>1, <3>1
    <3> QED
      BY SMTT(30), <3>2, <3>3, <3>4
  <2>3. Nat \subseteq S
    <3> HIDE DEF S
    <3> QED
      BY <2>1, <2>2, FromHostFold!InductionOnSet
  <2> QED
    BY <1>1, <1>4, <2>3
<1> HIDE DEF End, w
<1>11. /\ w \in Seq(Nat) /\ Held(w)
       /\ Len(w) >= Len(s) /\ \A i \in 1..offset : w[i] = i
       /\ k = Len(ops) =>
            Len(w) >= offset + length /\ \A i \in 1..(offset + length) : w[i] = i
  BY <1>9, <1>10
<1> QED
  BY <1>11 DEF w, q, ops

\* Whatever is written of each operation, a file stays a file.
LEMMA WrittenIsFile ==
  ASSUME NEW s \in Seq(Nat), NEW q, NEW k \in Nat, DOMAIN q = 1..k,
         \A i \in 1..k : /\ q[i].offset \in Nat /\ q[i].address \in Nat
                         /\ q[i].length \in Nat
                         /\ q[i].address + q[i].length <= MaxFile
  PROVE  Files!FromHost(s, q) \in Seq(Nat)
<1> DEFINE I == [i \in 0..k |-> Seq(Nat)]
<1>1. \A i \in 0..k : I[i] = Seq(Nat)
  OBVIOUS
<1> HIDE DEF I
<1>2. ASSUME NEW i \in 1..k, NEW t \in I[i-1]
      PROVE  Files!Overwrite(t, q[i].offset, Files!AtHost(q[i])) \in I[i]
  <2>1. Files!AtHost(q[i]) \in Seq(Nat)
    <3>0. MaxFile \in Nat
      BY FilesAssumption DEF FilesAssumption
    <3> DEFINE a == q[i].address
               l == q[i].length
    <3>1. a \in Nat /\ l \in Nat /\ a + l <= MaxFile
      OBVIOUS
    <3> HIDE DEF a, l
    <3>2. SubSeq(Files!HostBuffer, a + 1, a + l) \in Seq(Nat)
      BY <3>0, <3>1, HostBufferHeld
    <3> QED
      BY <3>2 DEF a, l, Files!AtHost
  <2>2. i - 1 \in 0..k /\ i \in 0..k
    OBVIOUS
  <2>3. t \in Seq(Nat)
    BY <1>1, <2>2
  <2>4. Files!Overwrite(t, q[i].offset, Files!AtHost(q[i])) \in Seq(Nat)
    BY <2>1, <2>3, Overlaid
  <2> QED
    BY <1>1, <2>2, <2>4
<1>3. s \in I[0] /\ k \in 0..k
  BY <1>1
<1>4. \A i \in 1..k : \A t \in I[i-1] :
        Files!Overwrite(t, q[i].offset, Files!AtHost(q[i])) \in I[i]
  BY <1>2
<1>5. FromHostFold!Fold(s, q, 0) \in I[k]
  BY <1>3, <1>4, FromHostFold!FoldInvariant
<1> QED
  BY <1>1, <1>3, <1>5, FromHostFolds

\* A transfer from the host, cut after k operations, one of which may have
\* fallen short
LEMMA ShortIsFile ==
  ASSUME NEW s \in Seq(Nat), NEW offset \in Nat, NEW length \in Nat \ {0},
         offset + length <= MaxFile, NEW k \in 0..Len(Files!DmaOps(offset, length, offset)),
         NEW written \in LET done == SubSeq(Files!DmaOps(offset, length, offset), 1, k)
                         IN  {done} \cup Files!FellShort(done)
  PROVE  Files!FromHost(s, written) \in Seq(Nat)
<1> DEFINE n == Files!Operations(length)
           ops == Files!DmaOps(offset, length, offset)
           Op == [offset : Nat, address : Nat, length : Nat]
           q == SubSeq(ops, 1, k)
<1>0. k \in 0..Len(ops) /\ Follow(ops, n, offset, length) /\ written \in {q} \cup Files!FellShort(q)
  BY OpsFollow
<1> HIDE DEF n, ops
<1>1. /\ n \in Nat \ {0} /\ Len(ops) = n /\ ops \in Seq(Op)
      /\ \A i \in 1..n : ops[i].offset \in Nat /\ ops[i].length \in Nat
      /\ \A i \in 1..n : ops[i].address = ops[i].offset
      /\ \A i \in 1..n : ops[i].offset + ops[i].length <= offset + length
  BY <1>0 DEF Follow
<1> HIDE DEF Op
<1>2. k \in Nat /\ k <= n /\ DOMAIN q = 1..k /\ \A i \in 1..k : q[i] = ops[i]
  BY <1>0, <1>1
<1>3. MaxFile \in Nat
  BY FilesAssumption DEF FilesAssumption
<1>4. \A i \in 1..k : /\ q[i].offset \in Nat /\ q[i].address \in Nat /\ q[i].length \in Nat
                      /\ q[i].address + q[i].length <= MaxFile
  <2> SUFFICES ASSUME NEW i \in 1..k
               PROVE  /\ q[i].offset \in Nat /\ q[i].address \in Nat /\ q[i].length \in Nat
                      /\ q[i].address + q[i].length <= MaxFile
    OBVIOUS
  <2>1. i \in 1..n /\ q[i] = ops[i]
    BY <1>1, <1>2
  <2>2. /\ q[i].offset \in Nat /\ q[i].length \in Nat /\ q[i].address = q[i].offset
        /\ q[i].offset + q[i].length <= offset + length
    BY <1>1, <2>1
  <2> HIDE DEF q
  <2> QED
    BY SMTT(30), <1>3, <2>2
<1> HIDE DEF q
<1>5. CASE written = q
  BY <1>2, <1>4, <1>5, WrittenIsFile
<1>6. ASSUME NEW i \in DOMAIN q, NEW d \in 0..(q[i].length - 1),
             written = [q EXCEPT ![i].length = d]
      PROVE  Files!FromHost(s, written) \in Seq(Nat)
  <2>1. d \in Nat /\ d <= q[i].length
    BY <1>2, <1>4
  <2>2. DOMAIN written = 1..k
    BY <1>2, <1>6
  <2>3. \A m \in 1..k : m # i => written[m] = q[m]
    BY <1>2, <1>6
  <2>4. written[i] = [q[i] EXCEPT !.length = d]
    BY <1>2, <1>6
  <2>5. q[i] \in Op
    BY <1>0, <1>1, <1>2
  <2>6. written[i].offset = q[i].offset /\ written[i].address = q[i].address /\ written[i].length = d
    BY <2>4, <2>5 DEF Op
  <2>7. \A m \in 1..k : /\ written[m].offset \in Nat /\ written[m].address \in Nat
                        /\ written[m].length \in Nat
                        /\ written[m].address + written[m].length <= MaxFile
    <3> SUFFICES ASSUME NEW m \in 1..k
                 PROVE  /\ written[m].offset \in Nat /\ written[m].address \in Nat
                        /\ written[m].length \in Nat
                        /\ written[m].address + written[m].length <= MaxFile
      OBVIOUS
    <3>1. CASE m # i
      BY <1>4, <2>3, <3>1
    <3>2. CASE m = i
      <4> DEFINE o == q[i].offset
                 a == q[i].address
                 l == q[i].length
      <4>1. o \in Nat /\ a \in Nat /\ l \in Nat /\ a + l <= MaxFile /\ d \in Nat /\ d <= l
        BY <1>2, <1>4, <2>1
      <4>2. written[m].offset = o /\ written[m].address = a /\ written[m].length = d
        BY <2>6, <3>2
      <4> HIDE DEF o, a, l
      <4>3. a + d <= MaxFile
        BY SMTT(30), <1>3, <4>1
      <4> QED
        BY <4>1, <4>2, <4>3
    <3> QED
      BY <3>1, <3>2
  <2> QED
    BY <1>2, <2>2, <2>7, WrittenIsFile
<1> QED
  BY <1>0, <1>5, <1>6 DEF Files!FellShort

\* Whatever is transferred to the host, its memory stays memory.
LEMMA ReadIsMemory ==
  ASSUME NEW m \in Seq(Nat), NEW s \in Seq(Nat), NEW offset \in Nat,
         NEW length \in Nat \ {0}, offset + length <= Len(s)
  PROVE  Files!ToHost(m, s, Files!DmaOps(offset, length, offset)) \in Seq(Nat)
<1> DEFINE n == Files!Operations(length)
           ops == Files!DmaOps(offset, length, offset)
           I == [i \in 0..n |-> Seq(Nat)]
<1>0. Follow(ops, n, offset, length)
  BY OpsFollow
<1> HIDE DEF n, ops
<1>1. /\ n \in Nat \ {0} /\ DOMAIN ops = 1..n
      /\ \A i \in 1..n : ops[i].offset \in Nat /\ ops[i].length \in Nat
      /\ \A i \in 1..n : ops[i].address = ops[i].offset
      /\ \A i \in 1..n : ops[i].offset + ops[i].length <= offset + length
  BY <1>0 DEF Follow
<1>2. \A i \in 0..n : I[i] = Seq(Nat)
  OBVIOUS
<1> HIDE DEF I
<1>3. ASSUME NEW i \in 1..n, NEW t \in I[i-1]
      PROVE  Files!Overwrite(t, ops[i].address, Files!Piece(s, ops[i])) \in I[i]
  <2> DEFINE from == ops[i].offset
             to == ops[i].offset + ops[i].length
  <2>1. i - 1 \in 0..n /\ i \in 0..n
    BY <1>1
  <2>2. t \in Seq(Nat)
    BY <1>2, <2>1
  <2>3. from \in Nat /\ to \in Nat /\ to <= Len(s) /\ ops[i].address = from
    <3>1. from \in Nat /\ ops[i].length \in Nat /\ to <= offset + length /\ ops[i].address = from
      BY <1>1
    <3>2. to = from + ops[i].length
      OBVIOUS
    <3>3. Len(s) \in Nat
      OBVIOUS
    <3> HIDE DEF from, to
    <3>4. to \in Nat
      BY <3>1, <3>2
    <3> QED
      BY <3>1, <3>3, <3>4
  <2>4. Files!Piece(s, ops[i]) = SubSeq(s, from + 1, to)
    BY DEF Files!Piece
  <2> HIDE DEF from, to
  <2>5. Files!Piece(s, ops[i]) \in Seq(Nat)
    <3>1. \A p \in (from + 1)..to : s[p] \in Nat
      <4>1. \A p \in 1..Len(s) : s[p] \in Nat
        BY ElementOfSeq
      <4> QED
        BY <2>3, <4>1, LenProperties
    <3> QED
      BY <2>3, <2>4, <3>1, SubSeqProperties
  <2>6. Files!Overwrite(t, ops[i].address, Files!Piece(s, ops[i])) \in Seq(Nat)
    BY <2>2, <2>3, <2>5, Overlaid
  <2> QED
    BY <1>2, <2>1, <2>6
<1>4. m \in I[0] /\ n \in 0..n
  BY <1>1, <1>2
<1>5. \A i \in 1..n : \A t \in I[i-1] :
        Files!Overwrite(t, ops[i].address, Files!Piece(s, ops[i])) \in I[i]
  BY <1>3
<1>6. ToHostFold!Fold(m, ops, s) \in I[n]
  BY <1>1, <1>4, <1>5, ToHostFold!FoldInvariant
<1>7. Files!ToHost(m, s, ops) \in Seq(Nat)
  BY <1>2, <1>4, <1>6, ToHostFolds
<1> QED
  BY <1>7 DEF ops

\* The part of a file from from to to, put at its place in the host's memory
LEMMA HostReads ==
  ASSUME NEW m \in Seq(Nat), Held(m), NEW s \in Seq(Nat), Held(s), NEW from \in Nat,
         NEW to \in Nat, from <= to, to <= Len(s), from <= Len(m)
  PROVE  LET w == Files!Overwrite(m, from, SubSeq(s, from + 1, to)) IN
         w \in Seq(Nat) /\ Held(w) /\ Len(w) >= Len(m) /\ Len(w) >= to
<1> DEFINE data == SubSeq(s, from + 1, to)
           w == Files!Overwrite(m, from, data)
<1>1. /\ data \in Seq(Nat) /\ Len(data) = to - from
      /\ \A i \in 1..(to - from) : data[i] = s[from + i]
  <2>1. \A i \in (from + 1)..to : s[i] \in Nat
    <3>1. \A i \in 1..Len(s) : s[i] \in Nat
      BY ElementOfSeq
    <3> QED
      BY <3>1, LenProperties
  <2>2. from + 1 \in Int /\ to \in Int
    OBVIOUS
  <2>3. /\ SubSeq(s, from + 1, to) \in Seq(Nat)
        /\ Len(SubSeq(s, from + 1, to)) =
             IF from + 1 <= to THEN to - (from + 1) + 1 ELSE 0
        /\ \A i \in 1..(to - (from + 1) + 1) :
             SubSeq(s, from + 1, to)[i] = s[from + 1 + i - 1]
    <3> HIDE DEF data
    <3> QED
      BY ONLY <2>1, <2>2, SubSeqProperties
  <2>4. to - (from + 1) + 1 = to - from
    OBVIOUS
  <2>5. ASSUME NEW i \in 1..(to - from) PROVE data[i] = s[from + i]
    <3>1. from + 1 + i - 1 = from + i
      OBVIOUS
    <3> QED
      BY <2>3, <2>4, <3>1
  <2>6. Len(data) = to - from
    BY <2>3, <2>4
  <2> QED
    BY <2>3, <2>5, <2>6
<1> HIDE DEF data
<1>2. /\ w \in Seq(Nat)
      /\ Len(w) = IF Len(m) >= to THEN Len(m) ELSE to
      /\ \A i \in 1..Len(w) :
           w[i] = IF i \in (from + 1)..to THEN data[i - from] ELSE m[i]
  <2>1. from + Len(data) = to
    BY <1>1
  <2>2. /\ w \in Seq(Nat)
        /\ Len(w) = IF Len(m) >= from + Len(data) THEN Len(m) ELSE from + Len(data)
        /\ \A i \in 1..Len(w) :
             w[i] = IF i \in (from + 1)..(from + Len(data)) THEN data[i - from] ELSE m[i]
    BY <1>1, Overwritten
  <2> QED
    BY <2>1, <2>2
<1> HIDE DEF w
<1>3. Held(w)
  <2> SUFFICES ASSUME NEW i \in 1..Len(w) PROVE w[i] \in {Files!Old(i), Files!New(i)}
    BY <1>2 DEF Held
  <2>1. CASE i \in (from + 1)..to
    <3>1. i - from \in 1..(to - from) /\ from + (i - from) = i
      BY <2>1
    <3>2. w[i] = s[i]
      BY <1>1, <1>2, <2>1, <3>1
    <3> QED
      BY <2>1, <3>2 DEF Held
  <2>2. CASE i \notin (from + 1)..to
    <3>1. w[i] = m[i]
      BY <1>2, <2>2
    <3>2. i \in 1..Len(m)
      <4>1. Len(m) \in Nat /\ (i <= from \/ i > to)
        BY <2>2
      <4> QED
        BY <1>2, <4>1
    <3> QED
      BY <3>1, <3>2 DEF Held
  <2> QED
    BY <2>1, <2>2
<1> QED
  BY <1>2, <1>3 DEF w, data

\* A whole transfer to the host
LEMMA TransferredToHost ==
  ASSUME NEW m \in Seq(Nat), Held(m), NEW s \in Seq(Nat), Held(s),
         NEW offset \in Nat, NEW length \in Nat \ {0},
         offset <= Len(m), offset + length <= Len(s)
  PROVE  LET w == Files!ToHost(m, s, Files!DmaOps(offset, length, offset)) IN
         w \in Seq(Nat) /\ Held(w) /\ Len(w) >= offset + length
<1> DEFINE n == Files!Operations(length)
           ops == Files!DmaOps(offset, length, offset)
           w == Files!ToHost(m, s, ops)
           End(i) == IF i = 0 THEN offset ELSE ops[i].offset + ops[i].length
           Kept(i) == {t \in Seq(Nat) : Len(t) >= End(i) /\ Held(t)}
           I == [i \in 0..n |-> Kept(i)]
<1>0. Follow(ops, n, offset, length)
  BY OpsFollow
<1> HIDE DEF n, ops
<1>1. /\ n \in Nat \ {0} /\ DOMAIN ops = 1..n
      /\ \A i \in 1..n : ops[i].offset \in Nat /\ ops[i].length \in Nat
      /\ \A i \in 1..n : ops[i].address = ops[i].offset
      /\ ops[1].offset = offset
      /\ \A i \in 2..n : ops[i].offset = ops[i-1].offset + ops[i-1].length
      /\ \A i \in 1..n : ops[i].offset + ops[i].length <= offset + length
      /\ ops[n].offset + ops[n].length = offset + length
  BY <1>0 DEF Follow
<1>2. \A i \in 1..n : End(i-1) = ops[i].offset /\ End(i) = ops[i].offset + ops[i].length
  <2> TAKE i \in 1..n
  <2>1. i = 1 \/ i \in 2..n
    BY <1>1
  <2>2. ops[1].offset = offset
    BY <1>1
  <2>3. i \in 2..n => ops[i].offset = ops[i-1].offset + ops[i-1].length
    BY <1>1
  <2> QED
    BY <2>1, <2>2, <2>3
<1>3. m \in I[0]
  BY <1>1
<1>4. ASSUME NEW i \in 1..n, NEW t \in I[i-1]
      PROVE  Files!Overwrite(t, ops[i].address, Files!Piece(s, ops[i])) \in I[i]
  <2> DEFINE from == ops[i].offset
             to == ops[i].offset + ops[i].length
             w1 == Files!Overwrite(t, from, SubSeq(s, from + 1, to))
  <2>1. i - 1 \in 0..n /\ i \in 0..n
    BY <1>1
  <2>2. t \in Seq(Nat) /\ Held(t) /\ from <= Len(t)
    BY <1>2, <2>1
  <2>3. from \in Nat /\ to \in Nat /\ from <= to /\ to <= Len(s)
    <3>1. to <= offset + length /\ ops[i].length \in Nat /\ from \in Nat
      BY <1>1
    <3>2. to = from + ops[i].length
      OBVIOUS
    <3>3. Len(s) \in Nat /\ offset + length <= Len(s)
      OBVIOUS
    <3> HIDE DEF from, to
    <3>4. to \in Nat /\ from <= to
      BY SMTT(30), <3>1, <3>2
    <3>5. to <= Len(s)
      BY <3>1, <3>3, <3>4
    <3> QED
      BY <3>1, <3>4, <3>5
  <2>4. Files!Overwrite(t, ops[i].address, Files!Piece(s, ops[i])) = w1
    BY <1>1 DEF Files!Piece
  <2>5. End(i) = to
    BY <1>2
  <2> HIDE DEF from, to
  <2>6. w1 \in Seq(Nat) /\ Held(w1) /\ Len(w1) >= to
    BY <2>2, <2>3, HostReads
  <2> HIDE DEF w1, End
  <2>7. w1 \in Kept(i)
    BY <2>5, <2>6
  <2> QED
    BY <2>1, <2>4, <2>7
<1>5. w \in I[n]
  <2>1. w = ToHostFold!Fold(m, ops, s)
    BY ToHostFolds
  <2> HIDE DEF I, w
  <2>2. \A i \in 1..n : \A t \in I[i-1] :
          Files!Overwrite(t, ops[i].address, Files!Piece(s, ops[i])) \in I[i]
    BY <1>4
  <2>3. ToHostFold!Fold(m, ops, s) \in I[n]
    BY <1>1, <1>3, <2>2, ToHostFold!FoldInvariant
  <2> QED
    BY <2>1, <2>3
<1>6. w \in Kept(n) /\ End(n) = offset + length
  BY <1>1, <1>2, <1>5
<1> HIDE DEF End, w
<1>7. w \in Seq(Nat) /\ Held(w) /\ Len(w) >= offset + length
  BY <1>6
<1> QED
  BY <1>7 DEF w, ops

TableFold == INSTANCE FoldInduction WITH
  Op <- LAMBDA t, f, there : IF f \in there THEN Append(t, f) ELSE t

LEMMA TableOfFiles ==
  ASSUME v3 \in Seq(Files!Files)
  PROVE  Files!buildFileTable \in Seq(Files!Files)
<1> DEFINE n == Len(ConfiguredFiles)
           I == [i \in 0..n |-> Seq(Files!Files)]
<1>1. ConfiguredFiles \in Seq(Files!Files) /\ n \in Nat /\ DOMAIN ConfiguredFiles = 1..n
  BY FilesAssumption DEF FilesAssumption
<1>2. Files!FileTable = TableFold!Fold(<<>>, ConfiguredFiles, v2)
  BY DEF Files!FileTable, Files!FoldLeft, Files!MapThenFoldSet, Files!Max,
    TableFold!Fold, TableFold!Iter, TableFold!Solves, TableFold!Step, TableFold!Largest
<1>3. <<>> \in I[0]
  BY <1>1
<1>4. \A i \in 1..n : ConfiguredFiles[i] \in Files!Files
  BY <1>1
<1>5. \A i \in 1..n : \A t \in I[i-1] :
        (IF ConfiguredFiles[i] \in v2 THEN Append(t, ConfiguredFiles[i]) ELSE t) \in I[i]
  <2> TAKE i \in 1..n
  <2>1. I[i-1] = Seq(Files!Files) /\ I[i] = Seq(Files!Files)
    BY <1>1
  <2>2. ConfiguredFiles[i] \in Files!Files
    BY <1>4
  <2> HIDE DEF I
  <2> QED
    BY <2>1, <2>2
<1> HIDE DEF I, n
<1>6. TableFold!Fold(<<>>, ConfiguredFiles, v2) \in I[n]
  BY <1>1, <1>3, <1>5, TableFold!FoldInvariant
<1>7. Files!FileTable \in Seq(Files!Files)
  BY <1>1, <1>2, <1>6 DEF I
<1> QED
  BY <1>7 DEF Files!buildFileTable

\* One file, how much of it the host believes written, and the host's copy of it
FileTyped(s, a, c) == s \in Seq(Nat) /\ c \in Seq(Nat) /\ a \in 0..MaxFile

FileExact(s, a, c) ==
  /\ FileTyped(s, a, c) /\ Held(s) /\ Held(c)
  /\ a <= Len(s)
  /\ \A i \in 1..a : s[i] = i

FilesExact ==
  /\ v1 \in [Files!Files -> Seq(Nat)] /\ v5 \in [Files!Files -> Seq(Nat)]
  /\ v4 \in [Files!Files -> 0..MaxFile]
  /\ v2 \in SUBSET Files!Files /\ v3 \in Seq(Files!Files)
  /\ \A f \in Files!Files \ v7 : FileExact(v1[f], v4[f], v5[f])

LEMMA ExactIsInv == FilesExact <=> Files!FileIoInv
<1>1. MaxFile \in Nat
  BY FilesAssumption DEF FilesAssumption
<1>2. ASSUME NEW s \in Seq(Nat), NEW a \in 0..MaxFile, a <= Len(s)
      PROVE  (\A i \in 1..a : s[i] = i) <=> SubSeq(s, 1, a) = SubSeq(Files!HostBuffer, 1, a)
  <2>1. /\ SubSeq(s, 1, a) \in Seq(Nat) /\ Len(SubSeq(s, 1, a)) = a
        /\ \A i \in 1..a : SubSeq(s, 1, a)[i] = s[i]
    BY <1>1, <1>2
  <2>2. LET b == SubSeq(Files!HostBuffer, 1, a) IN
        b \in Seq(Nat) /\ Len(b) = a /\ \A i \in 1..a : b[i] = i
    BY <1>1, <1>2, HostBufferHeld
  <2> QED
    BY <2>1, <2>2
<1>3. ASSUME FilesExact PROVE Files!FileIoInv
  <2>1. Files!FileIoTypes
    BY <1>3 DEF FilesExact, Files!FileIoTypes
  <2>2. \A f \in Files!Files \ v7 : v4[f] <= Len(v1[f])
    BY <1>3 DEF FilesExact, FileExact
  <2>3. Files!TransfersExact
    BY <1>2, <1>3 DEF FilesExact, FileExact, FileTyped, Held, Files!TransfersExact, Files!Exact
  <2> QED
    BY <2>1, <2>2, <2>3 DEF Files!FileIoInv
<1>4. ASSUME Files!FileIoInv PROVE FilesExact
  <2> USE DEF Files!FileIoInv, Files!FileIoTypes
  <2> SUFFICES ASSUME NEW f \in Files!Files \ v7 PROVE FileExact(v1[f], v4[f], v5[f])
    BY <1>4 DEF FilesExact
  <2>1. /\ v1[f] \in Seq(Nat) /\ v5[f] \in Seq(Nat) /\ v4[f] \in 0..MaxFile
        /\ v4[f] <= Len(v1[f])
    BY <1>4
  <2>2. /\ SubSeq(v1[f], 1, v4[f]) = SubSeq(Files!HostBuffer, 1, v4[f])
        /\ Held(v1[f]) /\ Held(v5[f])
    BY <1>4 DEF Files!TransfersExact, Files!Exact, Held
  <2>3. \A i \in 1..v4[f] : v1[f][i] = i
    BY <1>2, <2>1, <2>2
  <2> QED
    BY <2>1, <2>2, <2>3 DEF FileExact, FileTyped
<1> QED
  BY <1>3, <1>4

\* A step that does something to one file.
LEMMA FileChanged ==
  ASSUME FilesExact, NEW f \in Files!Files, NEW s, NEW a, NEW c, FileTyped(s, a, c),
         f \notin v7' => FileExact(s, a, c), v7 \subseteq v7' \cup {f},
         v1' = [v1 EXCEPT ![f] = s], v4' = [v4 EXCEPT ![f] = a], v5' = [v5 EXCEPT ![f] = c],
         v2' \in SUBSET Files!Files, v3' \in Seq(Files!Files)
  PROVE  FilesExact'
<1>1. s \in Seq(Nat) /\ c \in Seq(Nat) /\ a \in 0..MaxFile
  BY DEF FileTyped
<1>2. /\ v1' \in [Files!Files -> Seq(Nat)] /\ v5' \in [Files!Files -> Seq(Nat)]
      /\ v4' \in [Files!Files -> 0..MaxFile]
  BY <1>1 DEF FilesExact
<1>3. ASSUME NEW g \in Files!Files \ v7' PROVE FileExact(v1'[g], v4'[g], v5'[g])
  <2>1. CASE g = f
    <3>1. v1'[g] = s /\ v4'[g] = a /\ v5'[g] = c
      BY <2>1 DEF FilesExact
    <3> QED
      BY <2>1, <3>1
  <2>2. CASE g # f
    <3>1. v1'[g] = v1[g] /\ v4'[g] = v4[g] /\ v5'[g] = v5[g] /\ g \notin v7
      BY <2>2 DEF FilesExact
    <3> QED
      BY <3>1 DEF FilesExact
  <2> QED
    BY <2>1, <2>2
<1> QED
  BY <1>2, <1>3 DEF FilesExact, FileExact, FileTyped, Held

\* A file as it is made
LEMMA MadeFile ==
  ASSUME NEW f \in Files!Files
  PROVE  FileExact([i \in 1..FileSizes[f] |-> Files!Old(i)], 0, <<>>)
<1> DEFINE s == [i \in 1..FileSizes[f] |-> Files!Old(i)]
<1>1. FileSizes[f] \in Nat /\ MaxFile \in Nat
  BY FilesAssumption DEF FilesAssumption
<1>2. \A i \in 1..FileSizes[f] : Files!Old(i) \in Nat
  BY DEF Files!Old
<1>3. s \in Seq(Nat) /\ Len(s) = FileSizes[f]
  <2>1. s \in [1..FileSizes[f] -> Nat]
    BY <1>2
  <2> HIDE DEF s
  <2> QED
    BY <1>1, <2>1
<1>4. Held(s) /\ Held(<<>>)
  BY <1>1 DEF Held
<1> HIDE DEF s
<1>5. FileExact(s, 0, <<>>)
  BY <1>1, <1>3, <1>4 DEF FileExact, FileTyped
<1> QED
  BY <1>5 DEF s

LEMMA FileIoInit == Files!Init => FilesExact
<1> SUFFICES ASSUME Files!Init PROVE FilesExact
  OBVIOUS
<1>1. MaxFile \in Nat
  BY FilesAssumption DEF FilesAssumption
<1>2. /\ v1 = [f \in Files!Files |-> [i \in 1..FileSizes[f] |-> Files!Old(i)]]
      /\ v4 = [f \in Files!Files |-> 0] /\ v5 = [f \in Files!Files |-> <<>>]
      /\ v2 \in SUBSET Files!Files /\ v3 = <<>>
  BY DEF Files!Init
<1>3. ASSUME NEW f \in Files!Files
      PROVE  FileExact(v1[f], v4[f], v5[f])
  <2>1. v1[f] = [i \in 1..FileSizes[f] |-> Files!Old(i)] /\ v4[f] = 0 /\ v5[f] = <<>>
    BY <1>2
  <2> QED
    BY <2>1, MadeFile
<1>4. /\ v1 \in [Files!Files -> Seq(Nat)] /\ v5 \in [Files!Files -> Seq(Nat)]
      /\ v4 \in [Files!Files -> 0..MaxFile]
  <2>1. \A f \in Files!Files : v1[f] \in Seq(Nat) /\ v5[f] \in Seq(Nat)
    BY <1>3 DEF FileExact, FileTyped
  <2>2. /\ v1 = [f \in Files!Files |-> v1[f]] /\ v5 = [f \in Files!Files |-> v5[f]]
    BY <1>2
  <2>3. v4 \in [Files!Files -> 0..MaxFile]
    BY <1>1, <1>2
  <2> QED
    BY <2>1, <2>2, <2>3
<1>5. v3 \in Seq(Files!Files)
  BY <1>2
<1> QED
  BY <1>2, <1>3, <1>4, <1>5 DEF FilesExact

\* What a command on a handle is about
LEMMA FoundIsFile ==
  ASSUME FilesExact, NEW h, NEW offset \in Nat, Files!Found(h, offset),
         v3' = Files!buildFileTable
  PROVE  v3' \in Seq(Files!Files) /\ v3'[h] \in Files!Files /\ offset < Len(v1[v3'[h]])
<1>1. v3' \in Seq(Files!Files)
  BY TableOfFiles DEF FilesExact
<1>2. h \in DOMAIN v3' /\ offset < Len(v1[v3'[h]])
  BY DEF Files!Found
<1> QED
  BY <1>1, <1>2

LEMMA Clamps ==
  ASSUME FilesExact, NEW f \in Files!Files, NEW offset \in Nat, NEW length \in Nat,
         offset < Len(v1[f])
  PROVE  /\ Files!Clamped(f, offset, length) \in Nat
         /\ offset + Files!Clamped(f, offset, length) <= Len(v1[f])
<1>1. v1[f] \in Seq(Nat)
  BY DEF FilesExact
<1>2. Len(v1[f]) - offset \in Int /\ length \in Int /\ Len(v1[f]) - offset >= 0
  BY <1>1
<1>3. Files!Clamped(f, offset, length) =
        IF length <= Len(v1[f]) - offset THEN length ELSE Len(v1[f]) - offset
  BY <1>2, OfTwo DEF Files!Clamped
<1> QED
  BY <1>2, <1>3

\* A read within a message, of which got came
LEMMA PieceIsMemory ==
  ASSUME FilesExact, NEW f \in Files!Files, NEW moved \in Nat, NEW got \in 0..moved,
         Len(v5[f]) + moved <= Len(v1[f])
  PROVE  Files!Read(f, moved, got) \in Seq(Nat)
<1> DEFINE c == v5[f]
           s == v1[f]
           n == Len(c)
           d == SubSeq(s, n + 1, n + got)
           z == [i \in 1..(moved - got) |-> 0]
<1>1. c \in Seq(Nat) /\ s \in Seq(Nat) /\ n \in Nat /\ Len(s) \in Nat
  BY DEF FilesExact
<1>2. n + moved <= Len(s) /\ got \in Nat /\ got <= moved
  OBVIOUS
<1> HIDE DEF c, s, n
<1>3. d \in Seq(Nat)
  <2>1. \A i \in (n + 1)..(n + got) : s[i] \in Nat
    <3>1. \A i \in 1..Len(s) : s[i] \in Nat
      BY <1>1, ElementOfSeq
    <3>2. \A i \in (n + 1)..(n + got) : i \in 1..Len(s)
      BY <1>1, <1>2
    <3> QED
      BY <3>1, <3>2
  <2>2. n + 1 \in Int /\ n + got \in Int
    BY <1>1, <1>2
  <2> QED
    BY <1>1, <2>1, <2>2, SubSeqProperties
<1>4. z \in Seq(Nat)
  <2>1. moved - got \in Nat /\ z \in [1..(moved - got) -> Nat]
    BY <1>2
  <2> HIDE DEF z
  <2> QED
    BY <2>1
<1> HIDE DEF d, z
<1>5. (c \o d) \o z \in Seq(Nat)
  BY <1>1, <1>3, <1>4, ConcatProperties
<1> QED
  BY <1>5 DEF Files!Read, c, s, n, d, z

LEMMA WholeRead ==
  ASSUME FilesExact, NEW f \in Files!Files, NEW moved \in Nat,
         Len(v5[f]) + moved <= Len(v1[f])
  PROVE  Files!Read(f, moved, moved) = v5[f] \o SubSeq(v1[f], Len(v5[f]) + 1, Len(v5[f]) + moved)
<1> DEFINE r == v5[f] \o SubSeq(v1[f], Len(v5[f]) + 1, Len(v5[f]) + moved)
<1>1. [i \in 1..(moved - moved) |-> 0] = <<>>
  OBVIOUS
<1>2. r \in Seq(Nat)
  <2> DEFINE c == v5[f]
             s == v1[f]
             n == Len(c)
  <2>1. c \in Seq(Nat) /\ s \in Seq(Nat) /\ n \in Nat /\ Len(s) \in Nat /\ n + moved <= Len(s)
    BY DEF FilesExact
  <2> HIDE DEF c, s, n
  <2>2. \A i \in (n + 1)..(n + moved) : s[i] \in Nat
    <3>1. \A i \in 1..Len(s) : s[i] \in Nat
      BY <2>1, ElementOfSeq
    <3>2. \A i \in (n + 1)..(n + moved) : i \in 1..Len(s)
      BY <2>1
    <3> QED
      BY <3>1, <3>2
  <2>3. SubSeq(s, n + 1, n + moved) \in Seq(Nat)
    BY <2>1, <2>2, SubSeqProperties
  <2> QED
    BY <2>1, <2>3, ConcatProperties DEF c, s, n
<1> HIDE DEF r
<1>3. r \o <<>> = r
  BY <1>2, ConcatEmptySeq
<1> QED
  BY <1>1, <1>3 DEF Files!Read, r

LEMMA PieceRead ==
  ASSUME NEW s, NEW a, NEW c, FileExact(s, a, c), NEW moved \in Nat,
         Len(c) + moved <= Len(s)
  PROVE  FileExact(s, a, c \o SubSeq(s, Len(c) + 1, Len(c) + moved))
<1> DEFINE n == Len(c)
           d == SubSeq(s, n + 1, n + moved)
           r == c \o d
<1>1. c \in Seq(Nat) /\ s \in Seq(Nat) /\ n \in Nat /\ Held(s) /\ Held(c)
  BY DEF FileExact, FileTyped
<1>2. /\ d \in Seq(Nat) /\ Len(d) = moved
      /\ \A i \in 1..moved : d[i] = s[n + i]
  <2>1. \A i \in (n + 1)..(n + moved) : s[i] \in Nat
    <3>1. \A i \in 1..Len(s) : s[i] \in Nat
      BY <1>1, ElementOfSeq
    <3> QED
      BY <1>1, <3>1, LenProperties
  <2> QED
    BY <1>1, <2>1, SubSeqProperties
<1> HIDE DEF d
<1>3. /\ r \in Seq(Nat) /\ Len(r) = n + moved
      /\ \A i \in 1..Len(r) : r[i] = IF i <= n THEN c[i] ELSE d[i - n]
  BY <1>1, <1>2, ConcatProperties
<1> HIDE DEF n, r
<1>4. Held(r)
  <2> SUFFICES ASSUME NEW i \in 1..Len(r) PROVE r[i] \in {Files!Old(i), Files!New(i)}
    BY <1>3 DEF Held
  <2>1. CASE i <= n
    <3>1. i \in 1..Len(c)
      BY <2>1 DEF n
    <3>2. r[i] = c[i]
      BY <1>3, <2>1
    <3> QED
      BY <1>1, <3>1, <3>2 DEF Held
  <2>2. CASE i > n
    <3>1. i - n \in 1..moved /\ n + (i - n) = i /\ i \in 1..Len(s)
      BY SMTT(30), <1>1, <1>3, <2>2 DEF n
    <3>2. r[i] = s[i]
      <4>1. r[i] = d[i - n]
        BY <1>1, <1>3, <2>2
      <4>2. d[i - n] = s[n + (i - n)]
        BY <1>2, <3>1
      <4> QED
        BY <3>1, <4>1, <4>2
    <3> QED
      BY <1>1, <3>1, <3>2 DEF Held
  <2> QED
    BY <1>1, <1>3, <2>1, <2>2
<1>5. FileExact(s, a, r)
  BY <1>3, <1>4 DEF FileExact, FileTyped
<1> QED
  BY <1>5 DEF r, d, n

\* A read by DMA, of which the host takes no more than was transferred for the
\* file's
LEMMA Believes ==
  ASSUME FilesExact, NEW f \in Files!Files, NEW moved \in Nat \ {0},
         Len(v5[f]) + moved <= Len(v1[f]), NEW length \in 0..moved
  PROVE  LET ops == Files!DmaOps(Len(v5[f]), moved, Len(v5[f])) IN
         LET r == Files!Believed(Files!ToHost(v5[f], v1[f], ops), f, length) IN
         FileTyped(v1[f], v4[f], r) /\ (f \notin v7 => FileExact(v1[f], v4[f], r))
<1> DEFINE n == Len(v5[f])
           ops == Files!DmaOps(n, moved, n)
           w == Files!ToHost(v5[f], v1[f], ops)
           r == Files!Believed(w, f, length)
<1>1. FileTyped(v1[f], v4[f], v5[f]) /\ (f \notin v7 => FileExact(v1[f], v4[f], v5[f]))
  BY DEF FilesExact, FileTyped
<1>2. v5[f] \in Seq(Nat) /\ v1[f] \in Seq(Nat) /\ n \in Nat
  BY <1>1 DEF FileTyped
<1>10. n <= Len(v5[f]) /\ n + moved <= Len(v1[f])
  BY <1>2
<1> HIDE DEF n
<1>3. w \in Seq(Nat)
  BY <1>2, <1>10, ReadIsMemory
<1>11. f \notin v7 => Held(w) /\ Len(w) >= n + moved
  <2> SUFFICES ASSUME f \notin v7 PROVE Held(w) /\ Len(w) >= n + moved
    OBVIOUS
  <2>1. Held(v1[f]) /\ Held(v5[f])
    BY <1>1 DEF FileExact
  <2> QED
    BY <1>2, <1>10, <2>1, TransferredToHost
<1> HIDE DEF w
<1>4. r = [i \in 1..(n + length) |-> IF i \in DOMAIN w THEN w[i] ELSE 0]
  BY DEF Files!Believed, n
<1>6. \A i \in 1..(n + length) : r[i] \in Nat
  BY <1>3, <1>4
<1>7. r \in Seq(Nat) /\ Len(r) = n + length /\ DOMAIN r = 1..(n + length)
  <2>1. r \in [1..(n + length) -> Nat]
    BY <1>4, <1>6
  <2> HIDE DEF r
  <2> QED
    BY <1>2, <2>1
<1>8. f \notin v7 => Held(r)
  <2> SUFFICES ASSUME f \notin v7, NEW i \in 1..(n + length)
               PROVE  r[i] \in {Files!Old(i), Files!New(i)}
    BY <1>7 DEF Held
  <2>1. i \in 1..Len(w) /\ i \in DOMAIN w
    BY <1>2, <1>3, <1>11
  <2>2. r[i] = w[i]
    BY <1>4, <2>1
  <2> QED
    BY <1>11, <2>1, <2>2 DEF Held
<1> HIDE DEF r
<1>9. FileTyped(v1[f], v4[f], r) /\ (f \notin v7 => FileExact(v1[f], v4[f], r))
  BY <1>1, <1>7, <1>8 DEF FileExact, FileTyped
<1> QED
  BY <1>9 DEF r, w, n

\* A step that leaves the files and what the host believes of them alone
LEMMA FilesKept ==
  ASSUME FilesExact, UNCHANGED <<v1, v4, v5>>, v2' \in SUBSET Files!Files,
         v3' \in Seq(Files!Files), v7 \subseteq v7'
  PROVE  FilesExact'
<1>1. \A f \in Files!Files \ v7' : FileExact(v1'[f], v4'[f], v5'[f])
  BY DEF FilesExact
<1> QED
  BY <1>1 DEF FilesExact, FileExact, FileTyped, Held

\* What a command on a handle works on
LEMMA Handled ==
  ASSUME FilesExact, NEW h, NEW command \in Files!Commands, v3' = Files!buildFileTable,
         Files!Found(h, Files!Offset(command, h))
  PROVE  LET f == v3'[h]
             offset == IF command \in {"ReadFile", "ReadFileIntoMemory"} THEN Len(v5[f]) ELSE v4[f]
         IN  /\ v3' \in Seq(Files!Files) /\ f \in Files!Files
             /\ FileTyped(v1[f], v4[f], v5[f])
             /\ f \notin v7 => FileExact(v1[f], v4[f], v5[f])
             /\ offset \in Nat /\ offset < Len(v1[f])
<1> DEFINE f == v3'[h]
           offset == IF command \in {"ReadFile", "ReadFileIntoMemory"} THEN Len(v5[f]) ELSE v4[f]
<1>1. v3' \in Seq(Files!Files)
  BY TableOfFiles DEF FilesExact
<1>2. h \in DOMAIN v3' /\ f \in Files!Files
  BY <1>1 DEF Files!Found
<1>3. Files!Offset(command, h) = offset
  BY <1>2 DEF Files!Offset
<1>4. FileTyped(v1[f], v4[f], v5[f]) /\ (f \notin v7 => FileExact(v1[f], v4[f], v5[f]))
  BY <1>2 DEF FilesExact, FileTyped
<1>5. MaxFile \in Nat
  BY FilesAssumption DEF FilesAssumption
<1>6. offset \in Nat
  BY <1>4, <1>5 DEF FileTyped
<1>7. offset < Len(v1[f])
  BY <1>3 DEF Files!Found
<1> QED
  BY <1>1, <1>2, <1>4, <1>6, <1>7

\* A read of which got came, of a file found there
LEMMA ReadOfFile ==
  ASSUME FilesExact, NEW f \in Files!Files, NEW moved \in Nat, NEW got \in 0..moved,
         Len(v5[f]) + moved <= Len(v1[f]), Files!Moved(f, got = moved),
         v5' = [v5 EXCEPT ![f] = Files!Read(f, moved, got)],
         UNCHANGED <<v1, v2, v4>>, v3' \in Seq(Files!Files)
  PROVE  FilesExact'
<1> DEFINE c == Files!Read(f, moved, got)
<1>1. FileTyped(v1[f], v4[f], c)
  BY PieceIsMemory DEF FilesExact, FileTyped
<1>2. f \notin v7' => FileExact(v1[f], v4[f], c)
  <2> SUFFICES ASSUME f \notin v7' PROVE FileExact(v1[f], v4[f], c)
    OBVIOUS
  <2>1. got = moved /\ f \notin v7
    BY DEF Files!Moved
  <2>2. FileExact(v1[f], v4[f], v5[f])
    BY <2>1 DEF FilesExact
  <2>3. c = v5[f] \o SubSeq(v1[f], Len(v5[f]) + 1, Len(v5[f]) + moved)
    BY <2>1, WholeRead
  <2> HIDE DEF c
  <2>4. FileExact(v1[f], v4[f], v5[f] \o SubSeq(v1[f], Len(v5[f]) + 1, Len(v5[f]) + moved))
    BY <2>2, PieceRead
  <2> QED
    BY <2>3, <2>4
<1>3. v5' = [v5 EXCEPT ![f] = c] /\ v7 \subseteq v7' \cup {f}
  BY DEF Files!Moved
<1>4. v1' = [v1 EXCEPT ![f] = v1[f]] /\ v4' = [v4 EXCEPT ![f] = v4[f]] /\ v2' \in SUBSET Files!Files
  BY DEF FilesExact
<1> HIDE DEF c
<1> QED
  BY <1>1, <1>2, <1>3, <1>4, FileChanged

LEMMA FileRead ==
  ASSUME FilesExact, NEW h, NEW length \in Nat, Files!ReadFile(h, length)
  PROVE  FilesExact'
<1> DEFINE f == v3'[h]
           moved == Files!Clamped(f, Len(v5[f]), length)
<1>1. /\ v3' \in Seq(Files!Files) /\ f \in Files!Files
      /\ Len(v5[f]) \in Nat /\ Len(v5[f]) < Len(v1[f])
  BY Handled DEF Files!ReadFile, Files!Commands
<1>2. moved \in Nat /\ Len(v5[f]) + moved <= Len(v1[f])
  BY <1>1, Clamps
<1>3. UNCHANGED <<v1, v2, v4>>
  BY DEF Files!ReadFile
<1>4. PICK got \in 0..moved : /\ v5' = [v5 EXCEPT ![f] = Files!Read(f, moved, got)]
                              /\ Files!Moved(f, got = moved)
  BY DEF Files!ReadFile
<1> HIDE DEF f, moved
<1> QED
  BY <1>1, <1>2, <1>3, <1>4, ReadOfFile

LEMMA FileReadIntoMemory ==
  ASSUME FilesExact, NEW h, NEW length \in Nat, NEW k, Files!ReadFileIntoMemory(h, length, k)
  PROVE  FilesExact'
<1> DEFINE f == v3'[h]
           n == Len(v5[f])
           moved == Files!Clamped(f, n, length)
           ops == Files!DmaOps(n, moved, n)
           c == Files!Believed(Files!ToHost(v5[f], v1[f], ops), f, moved)
<1>1. /\ v3' \in Seq(Files!Files) /\ f \in Files!Files
      /\ n \in Nat /\ n < Len(v1[f])
  BY Handled DEF Files!ReadFileIntoMemory, Files!Commands
<1>2. moved \in Nat \ {0} /\ n + moved <= Len(v1[f])
  <2>1. moved \in Nat /\ n + moved <= Len(v1[f])
    BY <1>1, Clamps
  <2>2. moved > 0
    BY DEF Files!ReadFileIntoMemory, Files!Aligned
  <2> QED
    BY <2>1, <2>2
<1>3. FileTyped(v1[f], v4[f], c) /\ (f \notin v7 => FileExact(v1[f], v4[f], c))
  <2>1. moved \in 0..moved
    BY <1>2
  <2> QED
    BY <1>1, <1>2, <2>1, Believes
<1>4. (v5' = [v5 EXCEPT ![f] = c] \/ v5' = v5) /\ UNCHANGED <<v1, v2, v4, v7>>
  BY DEF Files!ReadFileIntoMemory
<1>5. v1' = [v1 EXCEPT ![f] = v1[f]] /\ v4' = [v4 EXCEPT ![f] = v4[f]] /\ v2' \in SUBSET Files!Files
  BY <1>4 DEF FilesExact
<1> HIDE DEF f, c
<1>6. CASE v5' = [v5 EXCEPT ![f] = c]
  BY <1>1, <1>3, <1>4, <1>5, <1>6, FileChanged
<1>7. CASE v5' = v5
  BY <1>1, <1>4, <1>5, <1>7, FilesKept
<1> QED
  BY <1>4, <1>6, <1>7

LEMMA FileWritten ==
  ASSUME FilesExact, NEW h, NEW length \in Nat, Files!WriteFile(h, length)
  PROVE  FilesExact'
<1> DEFINE f == v3'[h]
           from == v4[f]
           to == v4[f] + length
           s(done) == Files!Overwrite(v1[f], from, SubSeq(Files!HostBuffer, from + 1, from + done))
<1>1. /\ v3' \in Seq(Files!Files) /\ f \in Files!Files
      /\ FileTyped(v1[f], from, v5[f]) /\ from \in Nat /\ from < Len(v1[f])
      /\ f \notin v7 => FileExact(v1[f], from, v5[f])
  BY Handled DEF Files!WriteFile, Files!Commands
<1>2. to <= MaxFile /\ MaxFile \in Nat
  BY FilesAssumption DEF FilesAssumption, Files!WriteFile
<1>3. /\ v4' = [v4 EXCEPT ![f] = to] /\ UNCHANGED <<v2, v5>>
      /\ \E done \in 0..length : /\ v1' = [v1 EXCEPT ![f] = s(done)]
                                 /\ Files!Moved(f, done = length)
  BY DEF Files!WriteFile
<1>4. v5' = [v5 EXCEPT ![f] = v5[f]] /\ v2' \in SUBSET Files!Files
  BY <1>3 DEF FilesExact
<1>5. to \in Nat /\ from <= to /\ to = from + length
  BY <1>1
<1>6. PICK done \in 0..length : v1' = [v1 EXCEPT ![f] = s(done)] /\ Files!Moved(f, done = length)
  BY <1>3
<1>7. v7 \subseteq v7' \cup {f} /\ (f \notin v7' => f \notin v7 /\ done = length)
  BY <1>6 DEF Files!Moved
<1> HIDE DEF f, from, to
<1>8. FileTyped(s(done), to, v5[f])
  <2>1. SubSeq(Files!HostBuffer, from + 1, from + done) \in Seq(Nat)
    <3>1. from + done \in Nat /\ from + done <= MaxFile
      BY SMTT(30), <1>1, <1>2, <1>5
    <3> QED
      BY <1>1, <1>2, <3>1, HostBufferHeld
  <2>2. s(done) \in Seq(Nat)
    BY <1>1, <2>1, Overlaid DEF FileTyped
  <2> QED
    BY <1>1, <1>2, <1>5, <2>2 DEF FileTyped
<1>9. f \notin v7' => FileExact(s(done), to, v5[f])
  <2> SUFFICES ASSUME f \notin v7' PROVE FileExact(s(done), to, v5[f])
    OBVIOUS
  <2>1. FileExact(v1[f], from, v5[f]) /\ from + done = to
    BY <1>1, <1>5, <1>7
  <2>2. /\ v1[f] \in Seq(Nat) /\ Held(v1[f]) /\ from <= Len(v1[f])
        /\ \A i \in 1..from : v1[f][i] = i
    BY <2>1 DEF FileExact, FileTyped
  <2>3. s(done) = Files!Overwrite(v1[f], from, SubSeq(Files!HostBuffer, from + 1, to))
    BY <2>1
  <2>5. LET w == Files!Overwrite(v1[f], from, SubSeq(Files!HostBuffer, from + 1, to)) IN
        Held(w) /\ Len(w) >= to /\ \A i \in 1..to : w[i] = i
    BY <1>1, <1>2, <1>5, <2>2, HostWrites
  <2>4. /\ Held(s(done)) /\ Len(s(done)) >= to /\ \A i \in 1..to : s(done)[i] = i
    BY ONLY <2>3, <2>5
  <2> HIDE DEF s
  <2> QED
    BY <1>8, <2>1, <2>4 DEF FileExact, FileTyped
<1> HIDE DEF s
<1> QED
  BY <1>1, <1>3, <1>4, <1>6, <1>7, <1>8, <1>9, FileChanged

LEMMA FileWrittenFromMemory ==
  ASSUME FilesExact, NEW h, NEW length \in Nat, NEW k \in Nat, Files!WriteFileFromMemory(h, length, k)
  PROVE  FilesExact'
<1> DEFINE f == v3'[h]
           n == v4[f]
           ops == Files!DmaOps(n, length, n)
           done == SubSeq(ops, 1, k)
           a == IF k < Len(ops) THEN n ELSE n + length
           s(written) == Files!FromHost(v1[f], written)
<1>1. /\ v3' \in Seq(Files!Files) /\ f \in Files!Files
      /\ FileTyped(v1[f], n, v5[f]) /\ n \in Nat /\ n < Len(v1[f])
      /\ f \notin v7 => FileExact(v1[f], n, v5[f])
  BY Handled DEF Files!WriteFileFromMemory, Files!Commands
<1>2. /\ n + length <= MaxFile /\ MaxFile \in Nat /\ length \in Nat \ {0}
      /\ k <= Len(ops) /\ n \in Nat
  BY <1>1, FilesAssumption DEF FilesAssumption, Files!WriteFileFromMemory, Files!Aligned
<1>3. /\ \E written \in {done} \cup Files!FellShort(done) :
           v1' = [v1 EXCEPT ![f] = s(written)] /\ Files!Moved(f, written = done)
      /\ v4' = IF k < Len(ops) THEN v4 ELSE [v4 EXCEPT ![f] = n + length]
      /\ UNCHANGED <<v2, v5>>
  BY DEF Files!WriteFileFromMemory
<1>4. /\ v5' = [v5 EXCEPT ![f] = v5[f]] /\ v2' \in SUBSET Files!Files
      /\ v4' = [v4 EXCEPT ![f] = a]
  BY <1>3 DEF FilesExact
<1>5. PICK written \in {done} \cup Files!FellShort(done) :
        v1' = [v1 EXCEPT ![f] = s(written)] /\ Files!Moved(f, written = done)
  BY <1>3
<1>6. v7 \subseteq v7' \cup {f} /\ (f \notin v7' => f \notin v7 /\ written = done)
  BY <1>5 DEF Files!Moved
<1>7. Len(ops) \in Nat
  BY <1>2, OpsFollow DEF Follow
<1>8. k \in 0..Len(ops)
  BY <1>2, <1>7
<1> HIDE DEF f, n
<1>9. v1[f] \in Seq(Nat)
  BY <1>1 DEF FileTyped
<1>10. s(written) \in Seq(Nat)
  BY <1>2, <1>8, <1>9, ShortIsFile
<1>11. FileTyped(s(written), a, v5[f])
  BY <1>1, <1>2, <1>10 DEF FileTyped
<1>12. f \notin v7' => FileExact(s(written), a, v5[f])
  <2> SUFFICES ASSUME f \notin v7' PROVE FileExact(s(written), a, v5[f])
    OBVIOUS
  <2>1. FileExact(v1[f], n, v5[f]) /\ written = done
    BY <1>1, <1>6
  <2>2. /\ Held(v1[f]) /\ n <= Len(v1[f]) /\ Len(v1[f]) \in Nat
        /\ \A i \in 1..n : v1[f][i] = i
    BY <1>9, <2>1 DEF FileExact
  <2>3. /\ s(done) \in Seq(Nat) /\ Held(s(done))
        /\ Len(s(done)) >= Len(v1[f]) /\ \A i \in 1..n : s(done)[i] = i
        /\ k = Len(ops) => Len(s(done)) >= n + length /\ \A i \in 1..(n + length) : s(done)[i] = i
    BY <1>2, <1>8, <1>9, <2>2, TransferredFromHost
  <2> HIDE DEF ops, done, s
  <2>4. Len(s(done)) \in Nat
    BY <2>3
  <2>5. a <= Len(s(done)) /\ \A i \in 1..a : s(done)[i] = i
    BY <1>2, <1>7, <1>8, <2>2, <2>3, <2>4
  <2> QED
    BY <1>11, <2>1, <2>3, <2>5 DEF FileExact, FileTyped
<1>13. /\ v1' = [v1 EXCEPT ![f] = s(written)] /\ v2' \in SUBSET Files!Files
       /\ v3' \in Seq(Files!Files) /\ v7 \subseteq v7' \cup {f} /\ f \in Files!Files
       /\ v4' = [v4 EXCEPT ![f] = a] /\ v5' = [v5 EXCEPT ![f] = v5[f]]
  BY <1>1, <1>4, <1>5, <1>6
<1> HIDE DEF ops, s, a, done
<1> QED
  BY <1>11, <1>12, <1>13, FileChanged

LEMMA FileReadByType ==
  ASSUME FilesExact, NEW f \in Files!Files, NEW length \in Nat, Files!ReadFileByType(f, length)
  PROVE  FilesExact'
<1> DEFINE moved == Files!Clamped(f, Len(v5[f]), length)
<1>1. UNCHANGED <<v1, v2, v3, v4>> /\ v2 \in SUBSET Files!Files /\ v3 \in Seq(Files!Files)
  BY DEF Files!ReadFileByType, FilesExact
<1>2. CASE UNCHANGED <<v5, v7>>
  BY <1>1, <1>2, FilesKept
<1>3. ASSUME ~(Len(v5[f]) >= Len(v1[f])), NEW got \in 0..moved, Files!Moved(f, got = moved),
             v5' = [v5 EXCEPT ![f] = Files!Read(f, moved, got)]
      PROVE  FilesExact'
  <2>1. Len(v5[f]) \in Nat /\ Len(v1[f]) \in Nat
    BY DEF FilesExact
  <2>2. moved \in Nat /\ Len(v5[f]) + moved <= Len(v1[f])
    BY <1>3, <2>1, Clamps
  <2> HIDE DEF moved
  <2> QED
    BY <1>1, <1>3, <2>2, ReadOfFile
<1> QED
  BY <1>2, <1>3 DEF Files!ReadFileByType

LEMMA FileReadByTypeIntoMemory ==
  ASSUME FilesExact, NEW f \in Files!Files, NEW length \in Nat, NEW k,
         Files!ReadFileByTypeIntoMemory(f, length, k)
  PROVE  FilesExact'
<1> DEFINE n == Len(v5[f])
           moved == Files!Clamped(f, n, length)
           ops == Files!DmaOps(n, moved, n)
           left == Files!LengthLeft(ops)
           c == Files!Believed(Files!ToHost(v5[f], v1[f], ops), f, left)
<1>1. UNCHANGED <<v1, v2, v3, v4, v7>> /\ v2 \in SUBSET Files!Files /\ v3 \in Seq(Files!Files)
  BY DEF Files!ReadFileByTypeIntoMemory, FilesExact
<1>2. CASE v5' = v5
  BY <1>1, <1>2, FilesKept
<1>3. CASE v5' # v5
  <2>1. /\ v5' = [v5 EXCEPT ![f] = c] /\ ~(n >= Len(v1[f]))
        /\ length > 0
    BY <1>3 DEF Files!ReadFileByTypeIntoMemory, Files!Aligned
  <2>3. n \in Nat /\ Len(v1[f]) \in Nat
    BY DEF FilesExact
  <2>4. moved \in Nat \ {0} /\ n + moved <= Len(v1[f])
    <3>1. Len(v1[f]) - n \in Int /\ length \in Int
      BY <2>3
    <3>2. moved = IF length <= Len(v1[f]) - n THEN length ELSE Len(v1[f]) - n
      BY <3>1, OfTwo DEF Files!Clamped
    <3> HIDE DEF n, moved
    <3> QED
      BY <2>1, <2>3, <3>2
  <2>5. left \in 0..moved
    <3> HIDE DEF n, moved
    <3>1. Follow(ops, Files!Operations(moved), n, moved)
      BY <2>3, <2>4, OpsFollow
    <3> HIDE DEF ops
    <3>2. /\ Len(ops) \in Nat \ {0} /\ Len(ops) \in 1..Len(ops)
          /\ ops[Len(ops)].offset \in Nat /\ ops[Len(ops)].length \in Nat
          /\ ops[Len(ops)].offset >= n
          /\ ops[Len(ops)].offset + ops[Len(ops)].length = n + moved
      BY <3>1 DEF Follow
    <3>3. left = ops[Len(ops)].length
      BY DEF Files!LengthLeft, Files!Last
    <3> QED
      BY <2>3, <2>4, <3>2, <3>3
  <2>6. FileTyped(v1[f], v4[f], c) /\ (f \notin v7' => FileExact(v1[f], v4[f], c))
    BY <1>1, <2>3, <2>4, <2>5, Believes
  <2>7. v1' = [v1 EXCEPT ![f] = v1[f]] /\ v4' = [v4 EXCEPT ![f] = v4[f]]
    BY <1>1 DEF FilesExact
  <2> HIDE DEF c
  <2> QED
    BY <1>1, <2>1, <2>6, <2>7, FileChanged
<1> QED
  BY <1>2, <1>3

LEMMA FileIoNext == FilesExact /\ [Files!Next]_Files!vars => FilesExact'
<1> SUFFICES ASSUME FilesExact, [Files!Next]_Files!vars PROVE FilesExact'
  OBVIOUS
<1>0. Lengths \subseteq Nat
  BY FilesAssumption DEF FilesAssumption
<1>1. CASE Files!GetFileTable
  <2>1. v3' \in Seq(Files!Files)
    BY <1>1, TableOfFiles DEF Files!GetFileTable, FilesExact
  <2> QED
    BY <1>1, <2>1, FilesKept DEF Files!GetFileTable, FilesExact
<1>8. CASE Files!HostOff
  <2>1. /\ v1' = v1 /\ v7' = v7 /\ v2' \in SUBSET Files!Files /\ v3' \in Seq(Files!Files)
        /\ v4' = [f \in Files!Files |-> 0] /\ v5' = [f \in Files!Files |-> <<>>]
    BY <1>8 DEF Files!HostOff, FilesExact
  <2>2. MaxFile \in Nat /\ <<>> \in Seq(Nat) /\ Held(<<>>)
    BY FilesAssumption DEF FilesAssumption, Held
  <2>3. ASSUME NEW f \in Files!Files \ v7
        PROVE  FileExact(v1[f], 0, <<>>)
    <3>1. FileExact(v1[f], v4[f], v5[f])
      BY <2>3 DEF FilesExact
    <3> QED
      BY <2>2, <3>1 DEF FileExact, FileTyped
  <2>4. \A f \in Files!Files \ v7' : FileExact(v1'[f], v4'[f], v5'[f])
    BY <2>1, <2>3
  <2>5. /\ v1' \in [Files!Files -> Seq(Nat)] /\ v5' \in [Files!Files -> Seq(Nat)]
        /\ v4' \in [Files!Files -> 0..MaxFile]
    BY <2>1, <2>2 DEF FilesExact
  <2> QED
    BY <2>1, <2>4, <2>5 DEF FilesExact, FileExact, FileTyped, Held
<1>2. ASSUME NEW h, NEW length, NEW command, Files!Refused(command, h, length) PROVE FilesExact'
  <2>1. v3' \in Seq(Files!Files)
    BY <1>2, TableOfFiles DEF Files!Refused, FilesExact
  <2> QED
    BY <1>2, <2>1, FilesKept DEF Files!Refused, FilesExact
<1>3. ASSUME NEW f \in Files!Files, Files!Created(f) PROVE FilesExact'
  <2>1. /\ v1' = [v1 EXCEPT ![f] = [i \in 1..FileSizes[f] |-> Files!Old(i)]]
        /\ v4' = [v4 EXCEPT ![f] = 0] /\ v5' = [v5 EXCEPT ![f] = <<>>]
        /\ v2' \in SUBSET Files!Files /\ v3' \in Seq(Files!Files)
        /\ v7 \subseteq v7' \cup {f}
    BY <1>3 DEF Files!Created, FilesExact
  <2>2. FileExact([i \in 1..FileSizes[f] |-> Files!Old(i)], 0, <<>>)
    BY MadeFile
  <2> QED
    BY <2>1, <2>2, FileChanged DEF FileExact
<1>4. ASSUME NEW f \in Files!Files, Files!Removed(f) PROVE FilesExact'
  BY <1>4, FilesKept DEF Files!Removed, FilesExact
<1>5. CASE UNCHANGED Files!vars
  BY <1>5, FilesKept DEF Files!vars, FilesExact
<1>6. ASSUME NEW h, NEW length \in Lengths,
             \/ \E command \in Files!Commands : Files!Refused(command, h, length)
             \/ Files!ReadFile(h, length)
             \/ Files!WriteFile(h, length)
             \/ \E k \in 0..Files!Operations(MaxFile) :
                  Files!ReadFileIntoMemory(h, length, k) \/ Files!WriteFileFromMemory(h, length, k)
      PROVE  FilesExact'
  BY <1>0, <1>2, <1>6, FileRead, FileWritten, FileReadIntoMemory, FileWrittenFromMemory
<1>7. ASSUME NEW f \in Files!Files, NEW length \in Lengths,
             \/ Files!ReadFileByType(f, length)
             \/ \E k \in 0..Files!Operations(MaxFile) :
                  Files!ReadFileByTypeIntoMemory(f, length, k)
      PROVE  FilesExact'
  BY <1>0, <1>7, FileReadByType, FileReadByTypeIntoMemory
<1> QED
  BY <1>1, <1>3, <1>4, <1>5, <1>6, <1>7, <1>8 DEF Files!Next

LEMMA FileIoStays ==
  (component = "fileio" => Files!FileIoInv) /\ [OemNext]_vars
    => (component = "fileio" => Files!FileIoInv)'
<1> SUFFICES ASSUME component' = "fileio", [OemNext]_vars,
                    component = "fileio" => Files!FileIoInv
             PROVE  Files!FileIoInv'
  OBVIOUS
<1>1. component = "fileio" /\ FilesExact
  BY ExactIsInv, OthersElsewhere
<1>2. FilesStep \/ UNCHANGED vars
  BY OthersElsewhere
<1>3. [Files!Next]_Files!vars
  BY <1>2 DEF FilesStep, vars, Files!vars
<1>4. FilesExact'
  BY <1>1, <1>3, FileIoNext
<1>5. (FilesExact <=> Files!FileIoInv)'
  BY ExactIsInv, PTL
<1> QED
  BY <1>4, <1>5

-----------------------------------------------------------------------------
\* However the host repeats its writes, aborts and starts again, an image made in
\* an update that nothing disturbed has each LID of it once, and an update the host
\* was told is over is not in progress (writeFromMemory, assembleCodeUpdateImage,
\* setCodeUpdateProgress).
THEOREM ImageIsWholeHolds == OemSpec => []ImageIsWhole
<1>1. OemInit => (component = "inband" => Inband!InbandInv)
  BY InbandInit DEF OemInit
<1>2. (component = "inband" => Inband!InbandInv) => ImageIsWhole
  BY DEF ImageIsWhole, Inband!InbandInv
<1> QED
  BY <1>1, <1>2, InbandStays, PTL DEF OemSpec

-----------------------------------------------------------------------------
\* The error the surveillance of the host logs follows a ping that came since the
\* host last went off, be it another terminus's, and names no host that is off or
\* going off; the last slot operation on an adapter is answered for its slot by
\* the change of presence, and by the time-out unless a slot without an adapter was
\* named since.  An operation that another replaces is not answered
\* (startStopTimer, setSurvTimer, SlotHandler::enableSlot).
THEOREM WatchedForWhatRunsHolds == OemSpec => []WatchedForWhatRuns
<1>1. OemInit => (component = "ibm" => Ibm!IbmInv)
  BY IbmInit DEF OemInit
<1>2. (component = "ibm" => Ibm!IbmInv) => WatchedForWhatRuns
  BY DEF WatchedForWhatRuns, Ibm!IbmInv
<1> QED
  BY <1>1, <1>2, IbmStays, PTL DEF OemSpec

\* Orderly transfers of the host write each dump to the socket opened for it and
\* each certificate to its file, unless a certificate was opened while fd kept the
\* number of a socket that a failed transfer had closed; the topology and cables
\* read together are of one version (DumpHandler::fd, CertHandler::certMap,
\* PCIeInfoHandler).
THEOREM HostDataInItsPlaceHolds == OemSpec => []HostDataInItsPlace
<1> DEFINE Inv ==
      /\ (component = "ibmfiles" => HostData!HostDataInv)
      /\ (component = "pcie" => Pcie!PcieInv)
<1>1. OemInit => Inv
  BY HostDataInit, PcieInit DEF OemInit
<1>2. Inv => HostDataInItsPlace
  BY DEF HostDataInItsPlace, HostData!HostDataInv, Pcie!PcieInv
<1>3. Inv /\ [OemNext]_vars => Inv'
  BY HostDataStays, PcieStays
<1> QED
  BY <1>1, <1>2, <1>3, PTL DEF OemSpec

\* The parameters the host reads are those of the dump it was told of, as long as
\* it is told of one at a time, and every CSR it fetched is the one announced
\* (DbusToFileHandler::processNewResourceDump, newCsrFileAvailable).
THEOREM HostFetchesItsFileHolds == OemSpec => []HostFetchesItsFile
<1> DEFINE Inv ==
      /\ (component = "resdump" => ResDump!ResDumpInv)
      /\ (component = "csr" => Csr!CsrInv)
<1>1. OemInit => Inv
  BY ResDumpInit, CsrInit DEF OemInit
<1>2. Inv => HostFetchesItsFile
  BY DEF HostFetchesItsFile, ResDump!ResDumpInv, Csr!CsrInv
<1>3. Inv /\ [OemNext]_vars => Inv'
  BY ResDumpStays, CsrStays
<1> QED
  BY <1>1, <1>2, <1>3, PTL DEF OemSpec

\* What the host believes written of a file is in it and what it believes read
\* was there, for files, transfers and DMA operations of any size, wherever a
\* transfer is cut, unless a read or a write of that file fell short where nothing
\* looks: SUCCESS is answered then (transferAll, readFileByTypeIntoMemory, writeFile).
THEOREM TransfersExactHolds == OemSpec => []TransfersExact
<1>1. OemInit => (component = "fileio" => Files!FileIoInv)
  BY FileIoInit, ExactIsInv DEF OemInit
<1>2. (component = "fileio" => Files!FileIoInv) => TransfersExact
  BY DEF TransfersExact, Files!FileIoInv
<1> QED
  BY <1>1, <1>2, FileIoStays, PTL DEF OemSpec

\* Whatever the host, its answers, its events and the timers do, the program ends
\* with success only when the host is off or has reported its shutdown, unless the
\* effecter or the sensor's offset was not looked up: members that were never set
\* then match the event of some sensor (SoftPowerOff, hostSoftOffComplete, main).
THEOREM SuccessMeansShutdownHolds == OemSpec => []SuccessMeansShutdown
<1>1. OemInit => (component = "softoff" => SoftOff!IndInv)
  BY SoftOffInit DEF OemInit
<1>2. (component = "softoff" => SoftOff!IndInv) => SuccessMeansShutdown
  BY DEF SuccessMeansShutdown, SoftOff!IndInv
<1> QED
  BY <1>1, <1>2, SoftOffStays, PTL DEF OemSpec
=============================================================================
