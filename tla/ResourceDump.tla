------------------------------ MODULE ResourceDump ------------------------------
(***************************************************************************)
(* oem/ibm/requester/dbus_to_file_handler.cpp and the parameters' side of  *)
(* file_io_type_dump.cpp: a new entry of the dump manager makes pldmd      *)
(* write the parameters of the resource dump to the file with the handle   *)
(* 1, the only one there is, and announce it to the host, which reads it   *)
(* part by part and acknowledges it.  Each entry gets a DbusToFileHandler  *)
(* that is kept for good.                                                  *)
(***************************************************************************)
EXTENDS Integers, Sequences

CONSTANTS
  Entries,     \* entries of the dump manager
  Parts        \* parts the parameters are read in

VARIABLES
  entry,       \* status of each: none, InProgress, Failed or Completed
  sourceIs1,   \* the entry whose SourceDumpId is 1, or None
  parameters,  \* the file: whose parameters each part of it holds
  notices,     \* NewFileAvailable requests not answered, by entry
  serving,     \* the entry the host reads the parameters of
  hostRead,    \* the parts it read
  trouble,     \* entries whose request could not be passed on (history)
  orderly      \* each was asked for when the host was done with the last (history)

vars == <<entry, sourceIs1, parameters, notices, serving, hostRead, trouble, orderly>>

None == 0

Init ==
  /\ entry = [d \in Entries |-> "none"] /\ sourceIs1 = None
  /\ parameters \in {<<>>, [k \in 1..Parts |-> None]}  \* left from an earlier pldmd
  /\ notices = <<>> /\ serving = None /\ hostRead = <<>>
  /\ trouble = {} /\ orderly = TRUE

-----------------------------------------------------------------------------
\* Mutant for ParametersKeptApart: the file is appended to.
MutWritten(d) == parameters \o [k \in 1..Parts |-> d]
\* The VSP string, the password and, with a password, the ACF file.
Written(d) == [k \in 1..Parts |-> d]

reportResourceDumpFailure(d) == /\ entry' = [entry EXCEPT ![d] = "Failed"]
                                /\ trouble' = trouble \cup {d}

\* sendNewFileAvailableCmd.  The file is written whatever becomes of the notice.
SendNewFileAvailable(d, sent) ==
  IF sent THEN /\ notices' = Append(notices, d)
               /\ entry' = [entry EXCEPT ![d] = "InProgress"] /\ UNCHANGED trouble
  ELSE reportResourceDumpFailure(d) /\ UNCHANGED notices

\* The entry may have changed its status before the signal is handled.
ProcessNewResourceDump(d, inProgress, opened, sent) ==
  /\ \/ /\ ~inProgress
        /\ entry' = [entry EXCEPT ![d] = "Completed"]
        /\ UNCHANGED <<parameters, notices, trouble, orderly>>
     \/ /\ inProgress /\ ~opened
        /\ reportResourceDumpFailure(d)
        /\ UNCHANGED <<parameters, notices, orderly>>
     \/ /\ inProgress /\ opened
        /\ parameters' = Written(d)
        /\ SendNewFileAvailable(d, sent)
        /\ orderly' = (orderly /\ serving = None /\ notices = <<>>)
  /\ UNCHANGED <<sourceIs1, serving, hostRead>>

\* A DbusToFileHandler for each new entry.
resDumpMatcher(d) ==
  /\ entry[d] = "none"
  /\ \E inProgress, opened, sent \in BOOLEAN :
       ProcessNewResourceDump(d, inProgress, opened, sent)

\* newFileAvailableRespHandler.  Of a host that does not answer nobody is told.
NoticeAnswered(answer) ==
  /\ notices # <<>>
  /\ notices' = Tail(notices)
  /\ IF answer = "refused" THEN reportResourceDumpFailure(Head(notices))
     ELSE UNCHANGED <<entry, trouble>>
  /\ IF answer = "accepted" THEN serving' = Head(notices) /\ hostRead' = <<>>
     ELSE UNCHANGED <<serving, hostRead>>
  /\ UNCHANGED <<sourceIs1, parameters, orderly>>

-----------------------------------------------------------------------------
\* read and readIntoMemory of the parameters, whichever entry they are of.
HostReads ==
  /\ serving # None /\ Len(hostRead) < Parts
  /\ Len(hostRead) < Len(parameters)
  /\ hostRead' = Append(hostRead, parameters[Len(hostRead) + 1])
  /\ UNCHANGED <<entry, sourceIs1, parameters, notices, serving, trouble, orderly>>

\* fileAck.  A refusal is put on the entry whose SourceDumpId is the handle, 1,
\* which is not the entry the parameters are of.
FileAck(ok) ==
  /\ serving # None
  /\ parameters' = <<>>
  /\ entry' = IF ok \/ sourceIs1 = None THEN entry
              ELSE [entry EXCEPT ![sourceIs1] = "Failed"]
  /\ serving' = None /\ hostRead' = <<>>
  /\ UNCHANGED <<sourceIs1, notices, trouble, orderly>>

\* The dump itself arrives, and the dump manager notes the host's number of it.
DumpArrives(d, is1) ==
  /\ entry[d] = "InProgress"
  /\ entry' = [entry EXCEPT ![d] = "Completed"]
  /\ sourceIs1' = IF is1 /\ sourceIs1 = None THEN d ELSE sourceIs1
  /\ UNCHANGED <<parameters, notices, serving, hostRead, trouble, orderly>>

Next ==
  \/ \E d \in Entries :
       \/ resDumpMatcher(d)
       \/ \E is1 \in BOOLEAN : DumpArrives(d, is1)
  \/ \E answer \in {"accepted", "refused", "none"} : NoticeAnswered(answer)
  \/ HostReads
  \/ \E ok \in BOOLEAN : FileAck(ok)

Spec == Init /\ [][Next]_vars

-----------------------------------------------------------------------------
\* The host reads the parameters of the dump it was asked for and of no other,
\* after any refusal, loss or failure of earlier ones, if the next is asked for
\* when it is done with the last; and a dump fails for what became of its own
\* request only, but for the entry an acknowledgement picks (fileAck).
ParametersKeptApart ==
  /\ orderly => \A k \in DOMAIN hostRead : hostRead[k] = serving
  /\ \A d \in Entries : entry[d] = "Failed" => d \in trouble \cup {sourceIs1}

\* "Failed" reaches the entry whose parameters the host refused (fileAck,
\* "Failure in resource dump file ack").  Not kept: see FileAck.
RefusalReachesEntry ==
  [][\A d \in Entries : FileAck(FALSE) /\ serving = d /\ entry[d] = "InProgress"
       => entry'[d] = "Failed"]_vars

-----------------------------------------------------------------------------
\* The inductive invariant that ParametersKeptApart needs.
ResDumpTypes ==
  /\ entry \in [Entries -> {"none", "InProgress", "Failed", "Completed"}]
  /\ sourceIs1 \in Entries \cup {None} /\ serving \in Entries \cup {None}
  /\ notices \in Seq(Entries) /\ trouble \subseteq Entries
  /\ parameters \in Seq(Entries \cup {None}) /\ hostRead \in Seq(Entries \cup {None})

\* One entry at a time has the file: the one that is announced or the one served.
FileOfOne ==
  orderly =>
    /\ notices # <<>> => /\ Len(notices) = 1 /\ serving = None
                         /\ parameters = Written(Head(notices))
    /\ serving # None => parameters = Written(serving)

ResDumpInv == ResDumpTypes /\ FileOfOne /\ ParametersKeptApart
=============================================================================
