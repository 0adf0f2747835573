-------------------------------- MODULE FruPdr --------------------------------
(***************************************************************************)
(* libpldmresponder/fru.cpp and the PDR side of platform.cpp: the FRU table *)
(* and the PDR repository of the BMC are built lazily, by whichever of the *)
(* FRU commands and GetPDR comes first, from a D-Bus inventory that may be *)
(* out of reach at that moment.                                            *)
(***************************************************************************)
EXTENDS Integers, Sequences, FiniteSets, SequencesExt

CONSTANTS
  Inventory,    \* objects, in the order of the lookup: [name, type, parent,
                \* records: sizes of its non-empty FRU records]; type is "" for
                \* an object without an entity
  Generated     \* number of PDRs the platform's JSON files describe

VARIABLES
  present,      \* names of the objects whose Present property is true
  fru,          \* FruImpl: [isBuilt, table, rsi, rh, padBytes, checksum]
  node,         \* objToEntityNode: [name -> entity], for those in the tree
  repo,         \* the PDR repository, in its order
  pdrCreated,   \* platform::Handler
  answer,       \* what the last command answered
  late          \* the table was built after the PDRs were (history)

vars == <<present, fru, node, repo, pdrCreated, answer, late>>

Names == {Inventory[i].name : i \in DOMAIN Inventory}
Object(n) == CHOOSE o \in Range(Inventory) : o.name = n

Init ==
  /\ present \in SUBSET Names
  /\ fru = [isBuilt |-> FALSE, table |-> <<>>, rsi |-> 0, rh |-> 0,
            padBytes |-> 0, checksum |-> <<>>]
  /\ node = <<>> /\ repo = <<>> /\ pdrCreated = FALSE /\ answer = <<>>
  /\ late = FALSE

-----------------------------------------------------------------------------
\* pldm_pdr_add with a record handle of 0 takes the one after the last record's.
NewHandle(r) == IF r = <<>> THEN 1 ELSE Last(r).handle + 1
Added(r, kind) == Append(r, [handle |-> NewHandle(r), kind |-> kind])

\* updateAssociationTree walks from the root of the inventory to the object and
\* enters what has an entity; a parent that is not in the tree ends the branch,
\* and instances count up among the entities of a type.
Entered(tree, n) ==
  LET o == Object(n)
      same == {m \in DOMAIN tree : tree[m].type = o.type} IN
  IF n \in DOMAIN tree \/ o.type = "" THEN tree
  ELSE IF o.parent # "" /\ o.parent \notin DOMAIN tree THEN tree
  ELSE tree @@ (n :> [type |-> o.type, instance |-> Cardinality(same) + 1])
PathTo(n) ==
  LET up[m \in Names] == IF Object(m).parent = "" THEN <<m>>
                         ELSE Append(up[Object(m).parent], m)
  IN  up[n]
UpdateAssociationTree(tree, n) == FoldLeft(Entered, tree, PathTo(n))

\* Mutant for CountsAgree: every record gets a record set of its own.
MutPopulateRecords(s, n) ==
  FoldLeft(LAMBDA t, size :
             [t EXCEPT !.fru.table = Append(@, [rsi |-> s.fru.rsi + 1, size |-> size]),
                       !.fru.rsi = @ + 1, !.fru.rh = @ + 1,
                       !.repo = IF t.fru.rsi = s.fru.rsi
                                  THEN Append(@, [handle |-> t.fru.rh + 1, kind |-> "fru"])
                                ELSE @],
           s, Object(n).records)

\* populateRecords: one record set and one PDR for the records that have a
\* field, with a record handle FruImpl counts itself.
PopulateRecords(s, n) ==
  IF Object(n).records = <<>> THEN s
  ELSE [s EXCEPT !.fru.rsi = @ + 1, !.fru.rh = @ + 1,
                 !.repo = Append(@, [handle |-> s.fru.rh + 1, kind |-> "fru"]),
                 !.fru.table = @ \o [i \in DOMAIN Object(n).records |->
                                       [rsi |-> s.fru.rsi + 1,
                                        size |-> Object(n).records[i]]]]

\* buildFRUTable: objects that are not present are passed over, those whose
\* interface has no JSON file (unknown) enter the tree but no record.
Build(s, lookup) ==
  LET one(t, o) ==
        IF o.name \notin lookup.present THEN t
        ELSE LET u == [t EXCEPT !.node = UpdateAssociationTree(@, o.name)] IN
             IF o.name \in lookup.unknown THEN u ELSE PopulateRecords(u, o.name)
      all == FoldLeft(one, s, Inventory)
      \* pldm_entity_association_pdr_add: a PDR per entity that contains others
      parents == {n \in Names : \E m \in DOMAIN all.node : Object(m).parent = n}
  IN  [all EXCEPT !.fru.isBuilt = TRUE,
                  !.repo = FoldLeft(Added, @, [i \in 1 .. Cardinality(parents) |-> "assoc"])]

Now == [fru |-> fru, node |-> node, repo |-> repo]

\* What buildFRUTable may do: the inventory lookup may fail, and the next command
\* tries again.
Outcomes ==
  {Now} \cup IF fru.isBuilt THEN {}
             ELSE {Build(Now, [present |-> present, unknown |-> u]) : u \in SUBSET present}

Size(table) == FoldLeft(LAMBDA n, r : n + r.size, 0, table)
Pad(n) == (4 - (n % 4)) % 4

\* tableResize and the checksum after it; an empty table leaves both as they are.
TableResize(f) ==
  IF f.table = <<>> THEN f
  ELSE [f EXCEPT !.padBytes = Pad(Size(f.table)), !.checksum = f.table]

Becomes(s, a) ==
  /\ fru' = s.fru /\ node' = s.node /\ repo' = s.repo /\ answer' = a
  /\ late' = (late \/ (pdrCreated /\ ~fru.isBuilt /\ s.fru.isBuilt))

Metadata ==
  /\ \E s \in Outcomes :
       LET f == TableResize(s.fru) IN
       Becomes([s EXCEPT !.fru = f],
               <<"metadata", Size(f.table), f.rsi, Len(f.table), f.checksum>>)
  /\ UNCHANGED <<present, pdrCreated>>

RecordTable ==
  /\ \E s \in Outcomes, badLength \in BOOLEAN :
       IF badLength THEN Becomes(s, <<"table", "badLength">>)
       ELSE LET f == TableResize(s.fru) IN
            Becomes([s EXCEPT !.fru = f], <<"table", f.table, f.padBytes, f.checksum>>)
  /\ UNCHANGED <<present, pdrCreated>>

\* getFRURecordByOption searches the table less padBytes, which the table does
\* not hold, and answers the checksum of the last whole table.
ByOption ==
  /\ \E s \in Outcomes : \E set \in 0 .. s.fru.rsi :
       LET f == s.fru
           within == {i \in DOMAIN f.table :
                        Size(SubSeq(f.table, 1, i)) <= Size(f.table) - f.padBytes}
           found == SelectSeq(SubSeq(f.table, 1, Cardinality(within)),
                              LAMBDA r : set \in {0, r.rsi})
       IN  Becomes(s, IF found = <<>> THEN <<"byOption", "unavailable">>
                      ELSE <<"byOption", found, f.checksum>>)
  /\ UNCHANGED <<present, pdrCreated>>

-----------------------------------------------------------------------------
\* generateTerminusLocatorPDR, the OEM's PDRs and generate
GeneratePdrs(r) ==
  FoldLeft(Added, r, <<"locator">> \o [i \in 1 .. Generated |-> "generated"])

\* Mutant for WalkSeesAll: the FRU table is built after the PDRs.
MutFirstGetPdr(s) ==
  IF fru.isBuilt THEN [s EXCEPT !.repo = GeneratePdrs(@)]
  ELSE Build([Now EXCEPT !.repo = GeneratePdrs(@)], [present |-> present, unknown |-> {}])

\* The first GetPDR
FirstGetPdr(s) == [s EXCEPT !.repo = GeneratePdrs(@)]

\* pldm_pdr_find_record: the first record of that handle, and the handle of the
\* record after it.
Found(r, handle) ==
  IF handle = 0 THEN SelectInSeq(r, LAMBDA x : TRUE)
  ELSE SelectInSeq(r, LAMBDA x : x.handle = handle)
NextHandle(r, i) == IF i < Len(r) THEN r[i + 1].handle ELSE 0

GetPdr ==
  /\ pdrCreated' = TRUE
  /\ \E s \in Outcomes :
       LET t == IF pdrCreated THEN s ELSE FirstGetPdr(s) IN
       \E handle \in {0} \cup {r.handle : r \in Range(t.repo)} :
         LET i == Found(t.repo, handle) IN
         Becomes(t, <<"pdr", t.repo[i], NextHandle(t.repo, i)>>)
  /\ UNCHANGED present

PresenceChanges ==
  /\ \E n \in Names : present' = (present \ {n}) \cup ({n} \ present)
  /\ UNCHANGED <<fru, node, repo, pdrCreated, answer, late>>

Next == Metadata \/ RecordTable \/ ByOption \/ GetPdr \/ PresenceChanges

Spec == Init /\ [][Next]_vars

-----------------------------------------------------------------------------
\* The host's walk along nextRecordHandle, as far as the repository is long
Walk ==
  LET w[k \in Nat] == IF k = 0 THEN <<1>>
                      ELSE LET h == NextHandle(repo, Last(w[k - 1])) IN
                           IF h = 0 THEN w[k - 1] ELSE Append(w[k - 1], Found(repo, h))
  IN  w[Len(repo)]

\* A walk of GetPDR meets every record of the repository once and ends, when
\* the inventory answered no later than the first GetPDR: the record handles
\* FruImpl counts itself are those of the records before (populateRecords,
\* getPDR).
WalkSeesAll ==
  repo # <<>> /\ ~late => Walk = [i \in DOMAIN repo |-> i]

\* What GetFRURecordTableMetadata counts are the record sets of the table and
\* of the repository (populateRecords, numRSI).
CountsAgree ==
  fru.isBuilt => /\ fru.rsi = Cardinality({r.rsi : r \in Range(fru.table)})
                 /\ fru.rsi = Cardinality({i \in DOMAIN repo : repo[i].kind = "fru"})

-----------------------------------------------------------------------------
\* Inductive, of a FRU table f and a repository r: the record sets are numbered from
\* 1 and each has a PDR; record handles are positions until a table is built late.
Record == [handle : Nat, kind : {"locator", "generated", "fru", "assoc"}]
Entry == [rsi : Nat, size : Nat]
RecordSets(table) == {table[i].rsi : i \in DOMAIN table}
FruPdrs(r) == {i \in DOMAIN r : r[i].kind = "fru"}
Numbered(r) == \A i \in DOMAIN r : r[i].handle = i

Counted(f, r) ==
  /\ DOMAIN f = {"isBuilt", "table", "rsi", "rh", "padBytes", "checksum"}
  /\ f.rsi \in Nat /\ f.rh \in Nat /\ f.table \in Seq(Entry)
  /\ RecordSets(f.table) = 1..f.rsi
  /\ r \in Seq(Record) /\ Cardinality(FruPdrs(r)) = f.rsi

FruInv ==
  /\ Counted(fru, repo)
  /\ ~fru.isBuilt => fru.rh = 0 /\ (pdrCreated \/ repo = <<>>)
  /\ late \/ Numbered(repo)
=============================================================================
