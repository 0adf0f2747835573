------------------------------ MODULE BiosConfig ------------------------------
(***************************************************************************)
(* libpldmresponder/bios_config.cpp with bios.cpp, bios_table.cpp and the  *)
(* bios_*_attribute.cpp: the value of a BIOS attribute lives in the        *)
(* attribute value table on disk, in BaseBIOSTable of the BIOS settings    *)
(* manager and in the D-Bus property the attribute is mapped to; the host, *)
(* the settings manager and the property's owner all change it.            *)
(***************************************************************************)
EXTENDS Integers, Sequences, Functions, FiniteSets, SequencesExt

CONSTANTS
  Kind,         \* [attribute -> "integer" or "enum"]
  Valid,        \* bounds of the integers, possible values of the enums
  Values,       \* values a property or a pending attribute may have
  Default,      \* default value of an enum
  MaxSignals    \* bound: property changes not notified yet

VARIABLES
  tables,       \* on disk: string and attr, the attributes they name, and val,
                \* a function on those that have a value
  base,         \* BaseBIOSTable of the settings manager
  dbus,         \* the mapped properties
  signals,      \* PropertiesChanged on their way: <<attribute, value>>
  fresh,        \* attributes whose last write went to table and property
  mixed         \* the host made the tables disagree, or the settings manager
                \* did not answer at the start (history, as fresh)

vars == <<tables, base, dbus, signals, fresh, mixed>>

Attrs == DOMAIN Kind

\* getAttrValueIndex: what is not a possible value of an enum is its default.
OrDefault(a, v) == IF Kind[a] = "enum" /\ v \notin Valid THEN Default ELSE v

\* constructEntry: the value of BaseBIOSTable before that of the property; an
\* enum value in BaseBIOSTable that is not possible gets no entry at all.
Constructed(b, d) ==
  LET bad == {a \in Attrs \cap DOMAIN b : Kind[a] = "enum" /\ b[a] \notin Valid} IN
  [a \in Attrs \ bad |-> IF a \in DOMAIN b THEN b[a] ELSE OrDefault(a, d[a])]

\* BIOSConfig::BIOSConfig removes the tables and builds them from the JSON; the
\* settings manager may not answer yet.
Built(known, d) ==
  LET val == Constructed(known, d) IN
  /\ tables' = [string |-> Attrs, attr |-> Attrs, val |-> val]
  /\ signals' = <<>>
  /\ fresh' = {}

\* removeTables has left no table, and nothing was ever written to D-Bus.
Init ==
  /\ dbus \in [Attrs -> Values]
  /\ tables = [string |-> Attrs, attr |-> Attrs,
               val |-> Constructed(<<>>, dbus)]
  /\ base = tables.val
  /\ signals = <<>> /\ fresh = {} /\ mixed = FALSE

Restart ==
  /\ \E answers \in BOOLEAN :
       /\ Built(IF answers THEN base ELSE <<>>, dbus)
       /\ base' = IF answers THEN tables'.val ELSE base
       /\ mixed' = ~answers
  /\ UNCHANGED dbus

-----------------------------------------------------------------------------
\* checkAttributeValueTable: every entry has an attribute and a name.
Checked(t, val) == DOMAIN val \subseteq t.attr \cap t.string

\* What a set works on, so that the attributes of PendingAttributes can be
\* folded: s has tables, base, dbus and signals; ok is its completion code.
\* updateBaseBIOSTableProperty follows every stored value table.
Changed(d, sig, a, v) ==
  [dbus |-> [d EXCEPT ![a] = v],
   signals |-> IF d[a] = v THEN sig ELSE Append(sig, <<a, v>>)]

\* Mutant for TableFollowsDbus: the table is stored before D-Bus is written.
MutSetAttrValue(s, a, v, updateDBus, dbusFails) ==
  LET new == [s.tables.val EXCEPT ![a] = v]
      c == IF updateDBus /\ ~dbusFails THEN Changed(s.dbus, s.signals, a, v)
           ELSE [dbus |-> s.dbus, signals |-> s.signals] IN
  IF \/ a \notin s.tables.attr \cap s.tables.string \cap DOMAIN s.tables.val
     \/ v \notin Valid
    THEN [s EXCEPT !.ok = FALSE]
  ELSE [tables |-> [s.tables EXCEPT !.val = IF Checked(s.tables, new) THEN new ELSE @],
        base |-> IF Checked(s.tables, new) THEN new ELSE s.base,
        dbus |-> c.dbus, signals |-> c.signals, ok |-> ~(updateDBus /\ dbusFails)]

\* setAttrValue: bounds, property, then the table if it still checks; the
\* result of storing it is not looked at.
SetAttrValue(s, a, v, updateDBus, dbusFails) ==
  LET new == [s.tables.val EXCEPT ![a] = v]
      c == IF updateDBus THEN Changed(s.dbus, s.signals, a, v)
           ELSE [dbus |-> s.dbus, signals |-> s.signals] IN
  IF \/ a \notin s.tables.attr \cap s.tables.string \cap DOMAIN s.tables.val
     \/ v \notin Valid
     \/ updateDBus /\ dbusFails
    THEN [s EXCEPT !.ok = FALSE]
  ELSE [tables |-> [s.tables EXCEPT !.val = IF Checked(s.tables, new) THEN new ELSE @],
        base |-> IF Checked(s.tables, new) THEN new ELSE s.base,
        dbus |-> c.dbus, signals |-> c.signals, ok |-> TRUE]

Now == [tables |-> tables, base |-> base, dbus |-> dbus, signals |-> signals,
        ok |-> TRUE]

Becomes(s) ==
  /\ Len(s.signals) <= MaxSignals
  /\ tables' = s.tables /\ dbus' = s.dbus /\ signals' = s.signals
  /\ base' = s.base
  /\ UNCHANGED mixed

\* setBIOSAttributeCurrentValue
HostSetsAttribute ==
  \E a \in Attrs, v \in Values, dbusFails \in BOOLEAN :
    LET s == SetAttrValue(Now, a, v, TRUE, dbusFails) IN
    /\ Becomes(s)
    /\ fresh' = IF s.ok THEN fresh \cup {a} ELSE fresh

\* constructPendingAttribute: one set per pending attribute, the failures are
\* passed over.
PendingAttributes ==
  \E S \in SUBSET Attrs \ {{}} :
  \E pending \in [S -> [value : Values, dbusFails : BOOLEAN]] :
    LET set(s, a) == SetAttrValue(s, a, OrDefault(a, pending[a].value), TRUE,
                                  pending[a].dbusFails)
        after == FoldLeft(set, Now, SetToSeq(S))
    IN  /\ Becomes(after)
        /\ fresh' = fresh \cup {a \in S : set(Now, a).ok}

PropertyChanges ==
  \E a \in Attrs : \E v \in Values \ {dbus[a]} :
    /\ Len(signals) < MaxSignals
    /\ dbus' = [dbus EXCEPT ![a] = v]
    /\ signals' = Append(signals, <<a, v>>)
    /\ UNCHANGED <<tables, base, fresh, mixed>>

\* Mutant for BaseFollowsTable: the notification only stores the table.
MutNotified(s, a, v) == s

\* The set that ends processBiosAttrChangeNotification
Notified(s, a, v) == SetAttrValue(s, a, v, FALSE, FALSE)

\* processBiosAttrChangeNotification stores the value before it is checked.
Notification ==
  /\ signals # <<>>
  /\ LET a == signals[1][1]  v == signals[1][2]
         rest == [Now EXCEPT !.signals = Tail(signals)]
         stored == [rest EXCEPT !.tables.val = IF a \in DOMAIN @ THEN [@ EXCEPT ![a] = v]
                                               ELSE @]
         s == IF a \notin tables.attr \cap tables.string
                 \/ (Kind[a] = "enum" /\ v \notin Valid)
                THEN [rest EXCEPT !.ok = FALSE]
              ELSE Notified(stored, a, v)
     IN  /\ Becomes(s)
         /\ fresh' = IF s.ok THEN fresh \cup {a} ELSE fresh \ {a}

\* setBIOSTable of the host: string and attribute tables are stored whatever
\* the value table holds, its values are not compared with the bounds.
HostSetsTable ==
  LET stored(t) == /\ tables' = t
                   /\ mixed' = (mixed \/ ~Checked(t, t.val))
      S == {{a} : a \in Attrs} \cup {Attrs} IN
  /\ \/ \E A \in S : stored([tables EXCEPT !.string = A]) /\ UNCHANGED <<base, fresh>>
     \/ \E A \in S : /\ A \subseteq tables.string
                     /\ stored([tables EXCEPT !.attr = A])
                     /\ UNCHANGED <<base, fresh>>
     \/ \E A \in S : \E val \in [A -> Valid] :
          /\ Checked(tables, val)
          /\ stored([tables EXCEPT !.val = val])
          /\ base' = val
          /\ fresh' = {a \in fresh \cap A : tables.val[a] = val[a]}
  /\ UNCHANGED <<dbus, signals>>

Next ==
  \/ Restart \/ HostSetsAttribute \/ PendingAttributes \/ PropertyChanges
  \/ Notification \/ HostSetsTable

Spec == Init /\ [][Next]_vars

-----------------------------------------------------------------------------
\* As long as the tables fit together and the settings manager answers, it
\* shows the values the host reads, but for the integers a property change put
\* out of their bounds (processBiosAttrChangeNotification stores them).
BaseFollowsTable ==
  ~mixed => \A a \in DOMAIN tables.val :
              tables.val[a] \in Valid => a \in DOMAIN base /\ base[a] = tables.val[a]

\* Once the notifications are in, an attribute last written through D-Bus has
\* the value of its property, whatever the host and the settings manager
\* changed meanwhile (setAttrValue, processBiosAttrChangeNotification).
TableFollowsDbus ==
  signals = <<>> /\ ~mixed =>
    \A a \in fresh \cap DOMAIN tables.val : tables.val[a] = dbus[a]

-----------------------------------------------------------------------------
\* Inductive, of the state s that sets are folded over, with the fresh attributes
\* f and mixed m: the last notification of an attribute has its property's value,
\* and a fresh attribute has it too or a notification is on its way.
Overtaken(s, i) == \E j \in DOMAIN s.signals : j > i /\ s.signals[j][1] = s.signals[i][1]
Notifying(s, a) == \E i \in DOMAIN s.signals : s.signals[i][1] = a

Agrees(s, f, m) ==
  /\ DOMAIN s = {"tables", "base", "dbus", "signals", "ok"}
  /\ DOMAIN s.tables = {"string", "attr", "val"}
  /\ DOMAIN s.dbus = Attrs /\ s.tables.attr \subseteq Attrs
  /\ f \subseteq DOMAIN s.tables.val
  /\ s.signals \in Seq(Attrs \X (Values \cup {Default}))
  /\ \A i \in DOMAIN s.signals :
       Overtaken(s, i) \/ s.signals[i][2] = s.dbus[s.signals[i][1]]
  /\ ~m =>
       /\ Checked(s.tables, s.tables.val)
       /\ \A a \in DOMAIN s.tables.val :
            /\ s.tables.val[a] \in Valid => a \in DOMAIN s.base /\ s.base[a] = s.tables.val[a]
            /\ a \in f => Notifying(s, a) \/ s.tables.val[a] = s.dbus[a]

BiosInv == Agrees(Now, fresh, mixed)
=============================================================================
