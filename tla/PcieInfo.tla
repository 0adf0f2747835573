-------------------------------- MODULE PcieInfo --------------------------------
(***************************************************************************)
(* oem/ibm/libpldmresponder/file_io_type_pcie.cpp: the host sends its PCIe *)
(* topology and its cables as two files, each acknowledged on its own, and *)
(* both are parsed into the caches when the second acknowledgement comes.  *)
(* A handler lives for one command; which files came is static.  A file    *)
(* has two parts, the first with the count of its entries and entry 1, the *)
(* second with entry 2; a part is the version of the data, 0 if only room. *)
(***************************************************************************)
EXTENDS Integers, Sequences

CONSTANTS
  Entries,      \* Entries[v]: how many entries the files of version v have
  MaxVersion    \* bound: versions the host sends

VARIABLES
  file,                 \* the two files, <<>> when empty or absent
  receivedFiles,        \* of the types met since they were last cleared
  topologyInformation,  \* version of each cached link
  cableInformation,     \* ... and of each cached cable
  sent,     \* of each file: version the host was told to be stored whole
  acked,    \* files of the host's present version it acknowledged
  done,     \* last version acknowledged in both files since pldmd started
  orderly   \* the host sent each file in one command, both before the next

vars == <<file, receivedFiles, topologyInformation, cableInformation, sent,
          acked, done, orderly>>

Types == {"topology", "cable"}
NoFiles == [t \in {} |-> FALSE]
Version == done + 1

Init ==
  /\ file \in [Types -> {<<>>, <<0, 0>>}]   \* left from before pldmd started
  /\ receivedFiles = NoFiles
  /\ topologyInformation = <<>> /\ cableInformation = <<>>
  /\ sent = [t \in Types |-> 0] /\ acked = {} /\ done = 0 /\ orderly = TRUE

\* The maps: what f has, and what only g has
Over(f, g) ==
  [k \in DOMAIN f \cup DOMAIN g |-> IF k \in DOMAIN f THEN f[k] ELSE g[k]]

\* PCIeInfoHandler::PCIeInfoHandler: emplace keeps what is there.
Constructed(t) == Over(receivedFiles, [u \in {t} |-> FALSE])

\* The file is opened, and truncated, for each transfer: what an earlier one
\* wrote before the offset is room again.
Stored(first, last, v) == [i \in 1..last |-> IF i < first THEN 0 ELSE v]

\* Parts first..last by DMA, of which all up to `upTo' get through.
WriteFromMemory(t, first, last, upTo) ==
  /\ done < MaxVersion /\ upTo \in {0} \cup (first..last)
  /\ receivedFiles' = Constructed(t)
  /\ file' = [file EXCEPT ![t] = IF upTo = 0 THEN <<>> ELSE Stored(first, upTo, Version)]
  /\ sent' = [sent EXCEPT ![t] = IF upTo = last THEN Version ELSE 0]
  /\ orderly' = (orderly /\ first = 1 /\ last = 2 /\ t \notin acked)
  /\ UNCHANGED <<topologyInformation, cableInformation, acked, done>>

\* write() stores a buffer only if there is none: the host is told it succeeded.
Write(t) ==
  /\ receivedFiles' = Constructed(t)
  /\ sent' = [sent EXCEPT ![t] = Version]
  /\ orderly' = FALSE
  /\ UNCHANGED <<file, topologyInformation, cableInformation, acked, done>>

-----------------------------------------------------------------------------
\* What a file says: the version of each of its entries.  A file without its
\* first part has no entries, one without its second has junk in their place.
EntriesOf(f) ==
  [k \in 1..(IF f[1] = 0 THEN 0 ELSE Entries[f[1]]) |-> IF k <= Len(f) THEN f[k] ELSE 0]

\* Entries are added or replaced, never removed.
parseCableInfo ==
  cableInformation' = IF file["cable"] = <<>> THEN cableInformation
                      ELSE Over(EntriesOf(file["cable"]), cableInformation)

\* Without a topology the cables are not looked at.
parseTopologyData ==
  IF file["topology"] = <<>> THEN UNCHANGED <<topologyInformation, cableInformation>>
  ELSE /\ topologyInformation' = Over(EntriesOf(file["topology"]), topologyInformation)
       /\ parseCableInfo

BothReceived(received) == \A t \in Types : t \in DOMAIN received /\ received[t]

\* Mutant for TopologyOfOneVersion: the flags are not cleared.
MutCleared(received) == received
Cleared(received) == NoFiles

\* The status the host gives is not looked at.
FileAck(t) ==
  /\ LET received == [Constructed(t) EXCEPT ![t] = TRUE] IN
     IF BothReceived(received)
     THEN receivedFiles' = Cleared(received) /\ parseTopologyData
     ELSE receivedFiles' = received /\ UNCHANGED <<topologyInformation, cableInformation>>
  /\ LET all == acked \cup {t} IN
     /\ acked' = IF all = Types THEN {} ELSE all
     /\ done' = IF all = Types THEN Version ELSE done
     /\ orderly' = (orderly /\ sent[t] = Version /\ t \notin acked)
  /\ UNCHANGED <<file, sent>>

\* pldmd starts anew; the files stay.
Restart ==
  /\ receivedFiles' = NoFiles
  /\ topologyInformation' = <<>> /\ cableInformation' = <<>>
  /\ orderly' = (orderly /\ acked = {} /\ done = 0)
  /\ UNCHANGED <<file, sent, acked, done>>

Next ==
  \/ \E t \in Types, first, last \in 1..2, upTo \in 0..2 :
       first <= last /\ WriteFromMemory(t, first, last, upTo)
  \/ \E t \in Types : Write(t) \/ (done < MaxVersion /\ FileAck(t))
  \/ Restart

Spec == Init /\ [][Next]_vars

-----------------------------------------------------------------------------
\* For a host that sends both files of a version, each in one command, before
\* those of the next, the caches hold the links and cables of one version, the
\* last it acknowledged in full, at any time and whichever file comes first
\* (receivedFiles, fileAck); what they hold besides is of an earlier one.
TopologyOfOneVersion ==
  orderly =>
    \A cache \in {topologyInformation, cableInformation} :
      /\ done > 0 => \A k \in 1..Entries[done] : k \in DOMAIN cache /\ cache[k] = done
      /\ \A k \in DOMAIN cache : cache[k] \in 1..done

\* What the host was told is stored is in the file (write, writeFromMemory).
\* Not kept: a second command truncates the file, write() stores nothing.
ToldIsStored ==
  \A t \in Types : sent[t] = Version => file[t] = <<Version, Version>>

-----------------------------------------------------------------------------
\* The inductive invariant that TopologyOfOneVersion needs.
PcieTypes ==
  /\ done \in 0..MaxVersion /\ acked \subseteq Types /\ acked # Types
  /\ file \in [Types -> Seq(0..MaxVersion)]
  /\ sent \in [Types -> 0..MaxVersion + 1]
  /\ DOMAIN receivedFiles \subseteq Types
  /\ orderly \in BOOLEAN

\* What was acknowledged is what is marked as received.
ReceivedAreAcked ==
  orderly => \A t \in Types : t \in DOMAIN receivedFiles /\ receivedFiles[t] <=> t \in acked

\* A file acknowledged is stored whole, and no later one yet.
StoredWhole ==
  orderly =>
    /\ \A t \in Types : sent[t] <= Version
    /\ \A t \in Types : sent[t] = Version => file[t] = Stored(1, 2, Version)
    /\ \A t \in acked : sent[t] = Version

PcieInv == PcieTypes /\ ReceivedAreAcked /\ StoredWhole /\ TopologyOfOneVersion
=============================================================================
