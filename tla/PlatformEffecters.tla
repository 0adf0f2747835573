--------------------------- MODULE PlatformEffecters ---------------------------
(***************************************************************************)
(* The effecters of the BMC as a terminus of the host:                     *)
(* libpldmresponder/platform.cpp with platform_state_effecter.hpp and      *)
(* platform_numeric_effecter.hpp.  One composite state effecter and one    *)
(* numeric effecter; 0 is an UNKNOWN state and never a possible one.       *)
(***************************************************************************)
EXTENDS Integers, Sequences, FiniteSetsExt

CONSTANTS
  Composite,       \* composite count of the state effecter
  States,          \* its possible states, none of them 0
  Width,           \* values of the numeric effecter's data size: 0..Width - 1
  Settable,        \* <<min, max>> settable of its PDR
  Scale            \* <<resolution, offset>>

VARIABLES
  mapped,          \* D-Bus mappings of the state effecter
  effecters,       \* values of the effecters' properties
  last,            \* last SetStateEffecterStates and its completion code
  host             \* of the numeric effecter: what the host wrote and read last

vars == <<mapped, effecters, last, host>>

Offsets == 1..Composite
Unknown == 0
Fields == [set : BOOLEAN, state : States \cup {Unknown}]
Before(n) == 1..Min({n, mapped})

\* The records are created by the first GetPDR; generateStateEffecterPDR stops
\* at the first composite whose D-Bus object has no service.
Generated(services) == Max({n \in 0..Composite : 1..n \subseteq services})

Init ==
  /\ \E services \in SUBSET Offsets : mapped = Generated(services)
  /\ effecters = [state |-> [o \in Offsets |-> Unknown], numeric |-> Unknown]
  /\ last = [rc |-> "none", fields |-> <<>>]
  /\ host = [wrote |-> Unknown, read |-> Unknown]

-----------------------------------------------------------------------------
\* Mutant for SuccessSetsAll: a D-Bus failure is logged and skipped.
MutEffecterLoop(fields, fails) ==
  LET stop == Min({o \in Before(Len(fields)) : fields[o].state \notin States}
                  \cup {Composite + 1})
  IN  [rc |-> IF stop <= Len(fields) THEN "unsupported" ELSE "success",
       done |-> {o \in Before(Len(fields)) : o < stop /\ fields[o].set /\ o \notin fails}]

\* The loop of setStateEffecterStatesHandler: it stops at the first state that
\* is not possible or that D-Bus refuses, and what came before stays set.
EffecterLoop(fields, fails) ==
  LET refused(o) == fields[o].state \notin States
      stop == Min({o \in Before(Len(fields)) :
                     refused(o) \/ (fields[o].set /\ o \in fails)}
                  \cup {Composite + 1})
  IN  [rc |-> IF stop > Composite THEN "success"
              ELSE IF refused(stop) THEN "unsupported" ELSE "error",
       done |-> {o \in Before(Len(fields)) : o < stop /\ fields[o].set}]

SetStateEffecterStates ==
  /\ mapped > 0
  /\ \E n \in Offsets : \E fields \in [1..n -> Fields], fails \in SUBSET Offsets :
       LET r == EffecterLoop(fields, fails) IN
       /\ effecters' = [effecters EXCEPT !.state = [o \in Offsets |->
            IF o \in r.done THEN fields[o].state ELSE @[o]]]
       /\ last' = [rc |-> r.rc, fields |-> fields]
  /\ UNCHANGED <<mapped, host>>

\* getEffecterRawValue: the conversion wraps to the data size (a negative one
\* is undefined) before the range is checked, and only if min < max.
rawValues(v) ==
  LET x == v - Scale[2] IN
  IF x < 0 THEN 0..(Width - 1) ELSE {(x \div Scale[1]) % Width}

\* Mutant for NumericStaysSettable: the range is checked before the
\* conversion.
MutAccepted(v, raw) == v \in Settable[1]..Settable[2]

Accepted(v, raw) ==
  Settable[1] < Settable[2] => raw \in Settable[1]..Settable[2]

SetNumericEffecterValue ==
  /\ \E v \in 0..(2 * Width) : \E raw \in rawValues(v) :
       /\ Accepted(v, raw)
       /\ effecters' = [effecters EXCEPT !.numeric = raw]
       /\ host' = [wrote |-> v, read |-> Unknown]
  /\ UNCHANGED <<mapped, last>>

\* getEffecterValue casts the property to the data size; nothing undoes the
\* conversion of a write.
EffecterValue == effecters.numeric % Width

\* Nothing is answered but an error if D-Bus fails or the property is not of
\* an unsigned type.
GetNumericEffecterValue ==
  /\ host' = [host EXCEPT !.read = EffecterValue]
  /\ UNCHANGED <<mapped, effecters, last>>

Next == \/ SetStateEffecterStates
        \/ SetNumericEffecterValue
        \/ GetNumericEffecterValue

Spec == Init /\ [][Next]_vars

-----------------------------------------------------------------------------
\* A successful SetStateEffecterStates has set every field that maps to D-Bus.
SuccessSetsAll ==
  last.rc = "success" =>
    \A o \in Before(Len(last.fields)) :
      last.fields[o].set => effecters.state[o] = last.fields[o].state

\* Whatever the host writes, the numeric property stays in the settable range.
NumericStaysSettable ==
  Settable[1] < Settable[2] =>
    effecters.numeric \in {Unknown} \cup (Settable[1]..Settable[2])

\* The host reads what it wrote (platform_numeric_effecter.hpp, "refer to
\* DSP0248_1.2.0 27.8": X = Round [ (Y - B) / m ]).  Kept only when m is 1 and
\* B is 0: the answer is X and not Y.
ReadsWhatItWrote ==
  host.read # Unknown /\ host.wrote < Width => host.read = host.wrote

-----------------------------------------------------------------------------
\* The inductive invariant that the first two properties need.
EffecterTypes ==
  /\ mapped \in 0..Composite
  /\ effecters.state \in [Offsets -> States \cup {Unknown}]
  /\ effecters = [state |-> effecters.state, numeric |-> effecters.numeric]
  /\ last.rc = "success" => \E n \in Offsets : last.fields \in [1..n -> Fields]

EffecterInv == EffecterTypes /\ SuccessSetsAll /\ NumericStaysSettable
=============================================================================
