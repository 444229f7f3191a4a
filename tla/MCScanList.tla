----------------------------- MODULE MCScanList -----------------------------
(* Small instances of ScanList for TLC, with BSSIDs of MacIdentity.        *)
EXTENDS ScanList, MacIdentity

\* An open network, one pinned to a BSSID, a hidden one, and one that shows
\* the SSID of another network from a BSSID it is not pinned to.
MCNetworks == <<
    [ssid |-> "home", bssid |-> "any", hidden |-> FALSE],
    [ssid |-> "lab", bssid |-> "r2", hidden |-> FALSE],
    [ssid |-> "cave", bssid |-> "r3", hidden |-> TRUE] >>

\* One of each kind scan() tells apart: three routers, a foreign router that
\* shows "lab", two mesh nodes, a hidden network that is no mesh node.
MCSeen == {
    [ssid |-> "home", bssid |-> "r1"], [ssid |-> "lab", bssid |-> "r2"],
    [ssid |-> "", bssid |-> "r3"], [ssid |-> "lab", bssid |-> "x1"],
    [ssid |-> "", bssid |-> "n1"], [ssid |-> "", bssid |-> "n2"],
    [ssid |-> "", bssid |-> "x2"] }

\* In octets of four bits.
MCFeedback == {15, 10, 1, 0}
MCPassword == <<{0, 2}, {1}>>
MCKey == mesh_bssid_key(9)

\* Two that mesh nodes generate and one that is off by one.
MCMac ==
    [n1 |-> generate_mac(<<5, 1, 1, 0>>, MCKey),
     n2 |-> generate_mac(<<4, 6, 7, 0>>, MCKey),
     x2 |-> [generate_mac(<<5, 1, 1, 0>>, MCKey) EXCEPT ![6] = 6]]

MCMeshBSSIDs == {b \in DOMAIN MCMac : verify_bssid(MCMac[b], MCKey)}

\* Nodes whose ids have 24 bits recognize each other, and that some with
\* longer ids are not recognized is a fact too.
ASSUME NodesRecognized ==
    LET recognized(id) == verify_bssid(generate_mac(id, MCKey), MCKey)
        SomeIds == [1..4 -> {0, 1, 6, 15}]
    IN  /\ \A id \in SomeIds : id[4] = 0 => recognized(id)
        /\ \E id \in SomeIds : ~recognized(id)

ASSUME OneIsForeign == MCMeshBSSIDs = {"n1", "n2"}

\* Below, at and above WeakRssi.
MCVisible ==
    {[ssid |-> n.ssid, bssid |-> n.bssid, rssi |-> r] :
        n \in MCSeen, r \in {-78, -77, -76}}
=============================================================================
