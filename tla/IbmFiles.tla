------------------------------- MODULE IbmFiles -------------------------------
(***************************************************************************)
(* oem/ibm: files the host hands to the BMC by type.  A handler object     *)
(* lives for one command, so that what has to last from one command to the *)
(* next is static: one socket descriptor for every dump, and a map from    *)
(* the type of a certificate to the file it is written to.                 *)
(***************************************************************************)
EXTENDS Integers, FiniteSets

CONSTANTS
  Dumps,        \* file handles of dumps
  Certs,        \* file handles of signed certificates
  CertSize,     \* DMA transfers a certificate takes
  Numbers       \* bound: descriptor numbers that these two share; 0 is -1

VARIABLES
  entry,        \* dumps with an entry at the dump manager
  fd,           \* DumpHandler::fd, a number that may not be open any more
  opened,       \* number -> what is open there: <<kind, handle>>, or Closed
  offload,      \* [current, orderly]: the dump the host is sending, and whether it
                \* took one after the other to its acknowledgement (history)
  certMap,      \* of the signed certificates: set of at most one [number, rem]
  issued,       \* [current, orderly], as offload (history)
  reused,       \* a certificate was opened under the number that fd kept of a
                \* socket that was closed (history)
  strayed       \* what some of went elsewhere than it should: "dump" when not to
                \* the socket of that dump, "certificate" likewise (history)

vars == <<entry, fd, opened, offload, certMap, issued, reused, strayed>>
DumpSide == <<entry, fd, offload>>
CertSide == <<certMap, issued, reused>>

Closed == <<"closed", 0>>
Socket(d) == <<"socket", d>>
Listener(d) == <<"listener", d>>
File(c) == <<"file", c>>
Free == {n \in Numbers : opened[n] = Closed}

\* The table of descriptors when n was closed, -1 being none.
ClosedAt(n, table) == [m \in Numbers |-> IF m = n THEN Closed ELSE table[m]]

Init ==
  /\ entry = {} /\ fd = 0
  /\ opened = [n \in Numbers |-> Closed]
  /\ offload = [current |-> 0, orderly |-> TRUE]
  /\ certMap = {}
  /\ issued = [current |-> 0, orderly |-> TRUE]
  /\ reused = FALSE /\ strayed = {}

\* How the host goes on to a handle: in order when it is done with the last.
Taken(h, history) ==
  [current |-> h, orderly |-> history.orderly /\ history.current \in {0, h}]

-----------------------------------------------------------------------------
\* The entry whose SourceDumpId is the handle; a failing call finds none.
FindDumpObjPath(d) == d \in entry

\* newFileAvailable: NotifyDump, on which the dump manager makes an entry.
NewDump(d) ==
  /\ d \notin entry
  /\ entry' = entry \union {d}
  /\ UNCHANGED <<fd, opened, strayed, offload, CertSide>>

\* The metadata is a further argument of the call.
NewDumpWithMetaData(d) == NewDump(d)

\* The user deletes the entry.
EntryDeleted(d) ==
  /\ d \in entry
  /\ entry' = entry \ {d}
  /\ offload' = [offload EXCEPT !.orderly = @ /\ offload.current # d]
  /\ UNCHANGED <<fd, opened, strayed, CertSide>>

\* A transfer to whatever has the number.  A failure of the DMA device leaves it
\* open; one of the select or the write closes it (once or twice, nothing being
\* opened between), and fd keeps the number, on which every later transfer fails
\* until something else is opened there.
Transfer(d, n, table, outcome) ==
  /\ fd' = n
  /\ IF outcome = "done" /\ table[n] # Closed
       THEN /\ opened' = table
            /\ strayed' = strayed \union (IF table[n] = Socket(d) THEN {} ELSE {"dump"})
     ELSE /\ UNCHANGED strayed
          /\ opened' = IF outcome = "no DMA" THEN table ELSE ClosedAt(n, table)

\* The first transfer sets up a socket at the OffloadUri of its dump; a dump
\* without an entry has none.  When nobody connects the listening socket stays
\* open.  The descriptor of another dump is taken as it is.
WriteDumpFromMemory(d, outcome) ==
  /\ offload' = Taken(d, offload)
  /\ IF fd # 0 THEN Transfer(d, fd, opened, outcome)
     ELSE \/ UNCHANGED <<fd, opened, strayed>>
          \/ \E n \in Free :
               \/ /\ opened' = [opened EXCEPT ![n] = Listener(d)]
                  /\ UNCHANGED <<fd, strayed>>
               \/ /\ FindDumpObjPath(d)
                  /\ Transfer(d, n, [opened EXCEPT ![n] = Socket(d)], outcome)
  /\ UNCHANGED <<entry, CertSide>>

\* write() connects nothing, and without a socket it never returns: -1 is no
\* descriptor to select, so that behaviour has no further step.
WriteDump(d, outcome) ==
  /\ fd # 0 /\ outcome # "no DMA"
  /\ offload' = Taken(d, offload)
  /\ Transfer(d, fd, opened, outcome)
  /\ UNCHANGED <<entry, CertSide>>

\* Mutant for DumpToOwnSocket: the connection outlives its dump.
MutAcked == <<fd, opened>>
Acked == <<0, ClosedAt(fd, opened)>>

\* fileAck of a dump that was offloaded; without an entry nothing is closed.
DumpAcked(d) ==
  /\ offload.current = d
  /\ IF FindDumpObjPath(d) THEN fd' = Acked[1] /\ opened' = Acked[2]
     ELSE UNCHANGED <<fd, opened>>
  /\ offload' = [offload EXCEPT !.current = 0]
  /\ UNCHANGED <<entry, strayed, CertSide>>

\* fileAck of a dump that was discarded deletes the entry, not the connection.
DumpDiscarded(d) ==
  /\ FindDumpObjPath(d)
  /\ entry' = entry \ {d}
  /\ offload' = IF offload.current = d THEN [current |-> 0, orderly |-> FALSE]
                ELSE offload
  /\ UNCHANGED <<fd, opened, strayed, CertSide>>

-----------------------------------------------------------------------------
\* newFileAvailable of a certificate opens (and truncates) its file, under a
\* number that is free; emplace leaves the entry of an earlier one in place, and
\* the new descriptor to nobody.
NewCertificate(c) ==
  /\ \E n \in Free :
       /\ opened' = [opened EXCEPT ![n] = File(c)]
       /\ certMap' = IF certMap = {} THEN {[number |-> n, rem |-> CertSize]} ELSE certMap
       /\ reused' = (reused \/ n = fd)
  /\ issued' = Taken(c, issued)
  /\ UNCHANGED <<DumpSide, strayed>>

\* newFileAvailableWithMetaData: of a CSR the host refused only the status of
\* its entry on D-Bus changes.
NewCertificateWithMetaData(c, signed) == signed /\ NewCertificate(c)

Remaining(e) == IF e.rem = 1 THEN {} ELSE {[e EXCEPT !.rem = @ - 1]}

\* What is written of c goes to whatever file has the number of the entry: a
\* socket, and a number that is closed, are refused by lseek.
Put(c, e) ==
  /\ issued.current = c
  /\ opened[e.number] \in {File(f) : f \in Certs}
  /\ strayed' = strayed \union
       (IF opened[e.number] = File(c) THEN {} ELSE {"certificate"})

\* A part came whole: the last closes the number.
PartDone(e) ==
  /\ certMap' = Remaining(e)
  /\ opened' = IF e.rem = 1 THEN ClosedAt(e.number, opened) ELSE opened
  /\ issued' = IF e.rem = 1 THEN [issued EXCEPT !.current = 0] ELSE issued

\* A DMA transfer to the file of the type, of whichever handle; one that fails
\* may have written a part.
WriteCertificate(c) ==
  /\ \E e \in certMap :
       /\ Put(c, e)
       /\ PartDone(e) \/ UNCHANGED <<certMap, opened, issued>>
  /\ UNCHANGED <<DumpSide, reused>>

\* write(): the BMC takes the certificate over after every chunk it writes, as
\* complete, and may remove the file, whose descriptor stays in the map.
TakeCertificate(c) ==
  /\ \E e \in certMap : Put(c, e) /\ PartDone(e)
  /\ UNCHANGED <<DumpSide, reused>>

Next ==
  \/ \E d \in Dumps, outcome \in {"done", "no DMA", "failed"} :
       WriteDumpFromMemory(d, outcome) \/ WriteDump(d, outcome)
  \/ \E d \in Dumps :
       NewDump(d) \/ NewDumpWithMetaData(d) \/ EntryDeleted(d) \/ DumpAcked(d)
       \/ DumpDiscarded(d)
  \/ \E c \in Certs :
       \/ NewCertificate(c) \/ WriteCertificate(c) \/ TakeCertificate(c)
       \/ \E signed \in BOOLEAN : NewCertificateWithMetaData(c, signed)

Spec == Init /\ [][Next]_vars

(* The data of a dump goes to the socket of that dump and nowhere else, whatever *)
(* transfer fails, when the host acknowledges each dump before the next and no  *)
(* entry it is sending is deleted or discarded meanwhile, and unless a          *)
(* certificate was opened while fd kept the number of a socket that a failed    *)
(* transfer had closed: it may get that number, and the data, and be closed     *)
(* with the dump.                                                               *)
DumpToOwnSocket ==
  offload.orderly /\ ~reused => "dump" \notin strayed

(* A certificate is written to the file of its handle, when the host finishes   *)
(* each before it announces the next, with the same exception.                  *)
CertToOwnFile ==
  issued.orderly /\ ~reused => "certificate" \notin strayed

-----------------------------------------------------------------------------
\* The inductive invariant that the two properties need.
Things == ({"closed"} \X {0}) \union ({"socket", "listener"} \X Dumps)
            \union ({"file"} \X Certs)

HostDataTypes ==
  /\ entry \subseteq Dumps /\ fd \in Numbers \union {0}
  /\ opened \in [Numbers -> Things]
  /\ offload \in [current : Dumps \union {0}, orderly : BOOLEAN]
  /\ issued \in [current : Certs \union {0}, orderly : BOOLEAN]
  /\ certMap \subseteq [number : Numbers, rem : Int]
  /\ reused \in BOOLEAN

\* Under the number of fd is nothing but the socket of the dump the host is
\* sending, which has its entry until its acknowledgement: only with the entry is
\* the number given up.
SocketOfCurrent ==
  ~reused /\ fd # 0 =>
    /\ opened[fd] = Closed \/ \E d \in Dumps : opened[fd] = Socket(d)
    /\ \A e \in certMap : e.number # fd
    /\ offload.orderly => /\ opened[fd] \in {Closed, Socket(offload.current)}
                         /\ offload.current \in entry

\* The open file is that of the certificate the host is writing.
FileOfCurrent ==
  ~reused => \A e \in certMap :
               /\ opened[e.number] # Closed
               /\ issued.orderly => opened[e.number] = File(issued.current)

HostDataInv ==
  HostDataTypes /\ SocketOfCurrent /\ FileOfCurrent /\ DumpToOwnSocket /\ CertToOwnFile
=============================================================================
