------------------------------- MODULE CsrFiles -------------------------------
(***************************************************************************)
(* oem/ibm: certificate signing requests for the host.  A new CSR on D-Bus *)
(* is written to the file of its handle and announced                      *)
(* (requester/dbus_to_file_handler.cpp); the host reads it by its handle,  *)
(* and the first command that reads it removes it                          *)
(* (libpldmresponder/file_io_type_cert.cpp).  A CSR is named by the handle *)
(* its entry has, which the certificate manager gives once.                *)
(***************************************************************************)
EXTENDS Integers, Sequences

CONSTANT Handles     \* file names of the D-Bus entries: numbers

VARIABLES
  made,        \* CSRs with an entry
  file,        \* contents of CSR_<handle>: a CSR, or 0 if there is no file
  notices,     \* NewFileAvailable requests not answered, by handle
  wanted,      \* handles the host was told of and has not read
  hostRead,    \* <<handle, CSR>>: what the host read under which handle
  lost         \* handles whose file was not written, or read in vain (history)

vars == <<made, file, notices, wanted, hostRead, lost>>

Init ==
  /\ made = {} /\ file = [h \in Handles |-> 0]
  /\ notices = <<>> /\ wanted = {} /\ hostRead = {} /\ lost = {}

-----------------------------------------------------------------------------
\* Mutant for CsrReachesHost: one file for all, as for the resource dumps.
MutCertFilePath(h) == 1
CertFilePath(h) == h

\* newFileAvailableSendToHost.  Whatever becomes of it is logged only.
SendToHost(h, sent) == notices' = IF sent THEN Append(notices, h) ELSE notices

NewCsrFileAvailable(h, opened, sent) ==
  /\ IF opened THEN /\ file' = [file EXCEPT ![CertFilePath(h)] = h]
                    /\ SendToHost(h, sent)
     ELSE UNCHANGED <<file, notices>>
  /\ UNCHANGED <<wanted, hostRead, lost>>

\* A new entry of the certificate manager.
vmiCertMatcher(h) ==
  /\ h \notin made
  /\ made' = made \cup {h}
  /\ \E opened, sent \in BOOLEAN : NewCsrFileAvailable(h, opened, sent)

\* A request whose answer is lost may have reached the host as well.
NoticeAnswered(reached) ==
  /\ notices # <<>>
  /\ notices' = Tail(notices)
  /\ wanted' = IF reached THEN wanted \cup {Head(notices)} ELSE wanted
  /\ UNCHANGED <<made, file, hostRead, lost>>

-----------------------------------------------------------------------------
\* CertHandler::readIntoMemory and read: the file goes, were all of it asked for
\* or not, and whether the transfer succeeded or not.
Read(h, whole, ok) ==
  LET csr == file[CertFilePath(h)]
      got == whole /\ ok /\ csr # 0 IN
  /\ h \in wanted
  /\ file' = [file EXCEPT ![CertFilePath(h)] = 0]
  /\ hostRead' = IF got THEN hostRead \cup {<<h, csr>>} ELSE hostRead
  /\ wanted' = IF got THEN wanted \ {h} ELSE wanted
  /\ lost' = IF got THEN lost ELSE lost \cup {h}
  /\ UNCHANGED <<made, notices>>

Next ==
  \/ \E h \in Handles : vmiCertMatcher(h)
  \/ \E reached \in BOOLEAN : NoticeAnswered(reached)
  \/ \E h \in Handles, whole, ok \in BOOLEAN : Read(h, whole, ok)

Spec == Init /\ [][Next]_vars

-----------------------------------------------------------------------------
\* A CSR announced is there to be read under its handle until a command for
\* that handle took it, however the CSRs of other handles, their notices and
\* their failed transfers are interleaved (newCsrFileAvailable, read).
CsrReachesHost ==
  /\ \A h \in wanted \ lost : file[h] = h
  /\ \A r \in hostRead : r[2] = r[1]

\* The host can repeat a read that failed (PLDM_ERROR says so).  Not kept: the
\* file is removed before the result of the transfer is looked at.
FailedReadMayBeRepeated == \A h \in wanted : file[h] = h

-----------------------------------------------------------------------------
\* The inductive invariant that CsrReachesHost needs.
CsrTypes ==
  /\ made \subseteq Handles
  /\ file \in [Handles -> Handles \cup {0}] /\ \A h \in Handles : file[h] \in {0, h}
  /\ notices \in Seq(made) /\ wanted \subseteq made

\* A handle is announced once, and nobody reads its file before.
AnnouncedOnce ==
  /\ \A k \in DOMAIN notices : notices[k] \notin wanted /\ file[notices[k]] = notices[k]
  /\ \A j, k \in DOMAIN notices : notices[j] = notices[k] => j = k

CsrInv == CsrTypes /\ AnnouncedOnce /\ CsrReachesHost
=============================================================================
