------------------------------- MODULE BootSide -------------------------------
(***************************************************************************)
(* oem/ibm: which of the two firmware images is the running one ("Temp" or *)
(* "Perm" side) and which is booted next.  A file keeps it over restarts; *)
(* the BIOS attribute fw_boot_side and the Priority of the image objects  *)
(* change it from outside.                                                 *)
(***************************************************************************)
EXTENDS Integers

VARIABLES
  file,         \* bootSideDirPath: [cur, next, running]; NoFile if absent
  side,         \* CodeUpdate: [curr, next], currBootSide and nextBootSide
  image,        \* [running, first]: the running image, and the one of priority 0
  pending,      \* fw_boot_side set and not yet seen by updateBIOSMatch
  prioritySignal, \* changes of the running image's Priority, not yet seen
  up,           \* the daemon runs
  kept          \* what the file held when the daemon stopped, until the side
                \* is changed again (history)

vars == <<file, side, image, pending, prioritySignal, up, kept>>

Sides == {"Temp", "Perm"}
Versions == {1, 2}
None == "none"
NoFile == [cur |-> "", next |-> "", running |-> -1]
Blank == [cur |-> "", next |-> "", running |-> 0]

Init ==
  /\ file = NoFile /\ kept = NoFile
  /\ side = [curr |-> "Temp", next |-> "Temp"]
  /\ image = [running |-> 1, first |-> 1]
  /\ pending = None /\ prioritySignal = None /\ up = FALSE

-----------------------------------------------------------------------------
\* The record it parses the file into is not the one it returns.
readBootSideFile == Blank

Other(s) == IF s = "Temp" THEN "Perm" ELSE "Temp"
TempOr(s) == IF s = "Temp" THEN "Temp" ELSE "Perm"

\* The constructor of the platform handler: the first start ever takes the
\* value of the BIOS attribute, or its default, and leaves the members alone.
setVersions ==
  /\ ~up /\ up' = TRUE
  /\ IF file = NoFile
       THEN \E s \in Sides :
              /\ file' = [cur |-> s, next |-> s, running |-> image.running]
              /\ pending' = s /\ side' = [curr |-> "Temp", next |-> "Temp"]
     ELSE LET data == readBootSideFile
              cur == IF data.running # image.running THEN Other(data.cur)
                     ELSE data.cur
              outer == IF data.running # image.running THEN cur ELSE data.next IN
          /\ file' = [cur |-> cur, next |-> cur, running |-> image.running]
          /\ side' = [curr |-> TempOr(cur), next |-> TempOr(outer)]
          /\ pending' = cur
  /\ UNCHANGED <<image, prioritySignal, kept>>

\* The BMC reboots, into the image of priority 0, or the daemon alone restarts.
Stop ==
  /\ up /\ up' = FALSE
  /\ image' \in {image, [image EXCEPT !.running = image.first]}
  /\ pending' = None /\ prioritySignal' = None /\ kept' = file
  /\ UNCHANGED <<file, side>>

\* setNextBootSide, from the host's effecter or from fw_boot_side: it moves the
\* priority; ok is FALSE when the D-Bus calls fail, after the members changed.
setNextBootSide(s, ok) ==
  LET data == readBootSideFile
      curr == IF data.cur = "Perm" THEN "Perm" ELSE "Temp"
      target == IF s = curr THEN image.running ELSE 3 - image.running IN
  /\ side' = [curr |-> curr, next |-> s]
  /\ IF ok /\ image.first # target
       THEN /\ image' = [image EXCEPT !.first = target]
            /\ file' = [data EXCEPT !.next = s]
            /\ prioritySignal' = IF target = image.running THEN "0" ELSE "1"
     ELSE UNCHANGED <<image, file, prioritySignal>>

EffecterSetsSide(instance, s, ok) ==
  /\ up
  /\ IF instance = 0
       THEN side' = [side EXCEPT !.curr = s] /\ UNCHANGED <<image, file, prioritySignal>>
     ELSE setNextBootSide(s, ok)
  /\ kept' = NoFile
  /\ UNCHANGED <<pending, up>>

PendingAttributesChanged(ok) ==
  /\ up /\ pending # None
  /\ setNextBootSide(IF pending = "Perm" THEN "Perm" ELSE "Temp", ok)
  /\ pending' = None /\ kept' = NoFile
  /\ UNCHANGED up

\* The Priority of the running image changed.
processPriorityChangeNotification ==
  /\ up /\ prioritySignal # None
  /\ LET data == readBootSideFile
         next == IF prioritySignal = "0" THEN data.cur ELSE Other(data.cur) IN
     /\ file' = [data EXCEPT !.next = next]
     /\ side' = [side EXCEPT !.next = TempOr(next)]
     /\ pending' \in {pending, next}   \* set unless the attribute has it
  /\ prioritySignal' = None /\ kept' = NoFile
  /\ UNCHANGED <<image, up>>

\* An update from outside the host, or the host's effecter: what runs is Perm.
processRenameEvent ==
  /\ up
  /\ file' = [readBootSideFile EXCEPT !.cur = "Perm", !.next = "Perm"]
  /\ side' = [curr |-> "Perm", next |-> "Perm"]
  /\ pending' = "Perm" /\ kept' = NoFile
  /\ UNCHANGED <<image, prioritySignal, up>>

Next ==
  \/ setVersions \/ Stop \/ processPriorityChangeNotification
  \/ processRenameEvent
  \/ \E ok \in BOOLEAN : PendingAttributesChanged(ok)
  \/ \E instance \in {0, 1}, s \in Sides, ok \in BOOLEAN :
       EffecterSetsSide(instance, s, ok)

Spec == Init /\ [][Next]_vars

(* The file keeps the boot side over a restart: when the image that ran before  *)
(* runs again, and nothing happened since, the side it is on is the same        *)
(* ("Method to read the mapping file containing bootside which is stored on bmc *)
(* and stores that information in a structure", inband_code_update.hpp).        *)
BootSideRemembered ==
  up /\ kept # NoFile /\ kept.cur \in Sides /\ kept.running = image.running
     /\ file.running = image.running => file.cur = kept.cur
===============================================================================
