---------------------------- MODULE MCComponents ----------------------------
(***************************************************************************)
(* Instance for TLC of DeviceComponents, ResponderComponents and           *)
(* OemComponents: small records, tables and inventories in which the       *)
(* interesting cases occur.                                                *)
(***************************************************************************)
EXTENDS DeviceComponents, ResponderComponents, OemComponents

Init == DeviceInit \/ ResponderInit \/ OemInit
Next == DeviceNext \/ ResponderNext \/ OemNext
Spec == Init /\ [][Next]_vars

-----------------------------------------------------------------------------

\* Records of 1, 3 and 2 parts; events likewise
MCPdrParts == <<1, 3, 2>>

MCThresholds ==
  [k \in {<<"warning", "high">>, <<"critical", "high">>,
          <<"warning", "low">>, <<"critical", "low">>} |->
     CASE k[1] = "warning" -> IF k[2] = "high" THEN 3 ELSE 0
       [] k[1] = "critical" -> IF k[2] = "high" THEN 4 ELSE -2]

\* PDRs of a terminus: none; named sensors; names that collide or are empty;
\* an unreadable PDR, PDRs in the reverse order and names after the sensors
SensorName(i, n) == [type |-> "sensorNames", id |-> i, name |-> n, readable |-> TRUE]
NumericPdr(i) == [type |-> "numeric", id |-> i, name |-> "", readable |-> TRUE]
Compact(i, n) == [type |-> "compact", id |-> i, name |-> n, readable |-> TRUE]
EntityName(n) == [type |-> "entityNames", id |-> 0, name |-> n, readable |-> TRUE]
MCPdrTables ==
  {<<>>,
   <<EntityName("gpu"), SensorName(1, "temp"), NumericPdr(1), Compact(2, "power")>>,
   <<SensorName(1, ""), Compact(3, "temp"), NumericPdr(1), Compact(2, "temp")>>,
   <<[NumericPdr(4) EXCEPT !.readable = FALSE], NumericPdr(2), Compact(3, "fan"),
     Compact(4, ""), NumericPdr(1), SensorName(1, "fan")>>}

\* The second has more states than values, so the third is shifted.
MCStateEntries == <<[values |-> <<1, 2>>, states |-> <<1, 2>>],
                    [values |-> <<1>>, states |-> <<1, 3>>],
                    [values |-> <<2>>, states |-> <<3>>]>>

MCHostRecords == <<"tl", "assoc", "sensor", "fru">>

MCBiosKinds == [a \in {"int", "enum"} |-> IF a = "int" THEN "integer" ELSE "enum"]

MCFruObjects ==
  <<[name |-> "sys", type |-> "S", parent |-> "", records |-> <<3>>],
    [name |-> "a", type |-> "P", parent |-> "sys", records |-> <<2, 4>>],
    [name |-> "b", type |-> "P", parent |-> "sys", records |-> <<>>],
    [name |-> "c", type |-> "P", parent |-> "b", records |-> <<5>>]>>

MCPackageDevices ==
  {<<>>, <<[components |-> {0}, length |-> 12]>>, <<[components |-> {0}, length |-> 0]>>,
   <<[components |-> {0, 1}, length |-> 12], [components |-> {1}, length |-> 20]>>}
MCPackageImages == UNION {[1..n -> {0, 5, 9}] : n \in 1..2}

\* GetSensorReading stands for what base.cpp advertises and nothing handles
BaseCommands == {"getTypes", "getCommands", "getVersion"}
MCAdvertised == [t \in {"base", "platform"} |->
                 IF t = "base" THEN BaseCommands ELSE {"getPdr", "getSensorReading"}]
MCRegistered == [t \in {"base", "platform"} |->
                 IF t = "base" THEN BaseCommands ELSE {"getPdr"}]

\* The rest, one line for each module
MCSettable == <<2, 3>>
MCScale == <<1, 1>>
MCConfiguredFiles == <<1, 2>>
MCFileSizes == <<3, 0>>
MCPcieEntries == <<2, 1>>
=============================================================================
