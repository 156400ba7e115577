------------------------------ MODULE MCStore ------------------------------
(* An instance of Store for TLC: two versions of one map and one of another, two *)
(* zone sets that may be pushed, one of which may also be downloaded, and orders  *)
(* whose nodes enable maps.                                                       *)
EXTENDS Store

MCVersions == {"hall1", "hall2", "yard1"}
MCMapOf == [hall1 |-> "hall", hall2 |-> "hall", yard1 |-> "yard"]

MCOp == [
    get1 |-> "downloadMap", again1 |-> "downloadMap", use1 |-> "enableMap", drop1 |-> "deleteMap",
    get2 |-> "downloadMap", use2 |-> "enableMap",
    getYard |-> "downloadMap", useYard |-> "enableMap",
    getA |-> "downloadZoneSet", useA |-> "enableZoneSet", dropA |-> "deleteZoneSet",
    move |-> "initializePosition"]

MCTarget == [
    get1 |-> "hall1", again1 |-> "hall1", use1 |-> "hall1", drop1 |-> "hall1",
    get2 |-> "hall2", use2 |-> "hall2", getYard |-> "yard1", useYard |-> "yard1",
    getA |-> "zonesA", useA |-> "zonesA", dropA |-> "zonesA", move |-> "yard"]

MCIds == DOMAIN MCOp
MCOrders == {<<"use1">>, <<"useYard", "use1">>}
MCPushes == {<<"zonesA", "hall">>, <<"zonesB", "hall">>}
=============================================================================
