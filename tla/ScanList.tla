------------------------------ MODULE ScanList ------------------------------
(***************************************************************************)
(* The list of candidates scan() builds from the results of a WiFi scan:   *)
(* which networks enter it (match_networks(), verify_bssid()), in which    *)
(* order, and how its ap_t cells are recycled from scan to scan.           *)
(*                                                                         *)
(* A step is one iteration of the loop over the results, so that what      *)
(* holds of the list while it grows can be stated; no callback runs        *)
(* between the iterations.  An ap_t is a record that carries its address.  *)
(***************************************************************************)
EXTENDS Integers, Sequences, SequencesExt

CONSTANTS
    Networks,     \* the table networks[], records [ssid, bssid, hidden]
    AnyBSSID,     \* a NULL bssid in that table
    NoSSID,       \* the empty SSID that a hidden network shows
    MeshBSSIDs,   \* BSSIDs verify_bssid() accepts
    IsGateway,    \* IS_GATEWAY: this node may join the configured networks
    Visible,      \* what scans may report, records [ssid, bssid, rssi]
    MaxResults    \* bound: networks one scan reports

\* NETWORK_MESH_NODE: the ssid_idx of a mesh node.  Positions in Networks
\* count from 1.
MeshNode == -1

\* Up to this RSSI a router is weak.
WeakRssi == -77

ASSUME NetworkAssumption == Networks \in Seq([ssid : STRING, bssid : STRING,
                                              hidden : BOOLEAN])
ASSUME VisibleAssumption ==
    Visible \subseteq [ssid : STRING, bssid : STRING, rssi : Int]
ASSUME AnyAssumption == \A r \in Visible : r.bssid # AnyBSSID
ASSUME BoundAssumption == MaxResults \in Nat

VARIABLES
    results,   \* the results of the last scan the loop has dealt with
    ap,        \* the candidates, ap[1] is the head of the list
    ap_unused, \* addresses of the cells on the list of unused ones
    allocated  \* cells made by `new ap_t` so far: addresses 1..allocated

vars == <<results, ap, ap_unused, allocated>>

Candidates ==
    [cell : Nat, bssid : STRING, rssi : Int,
     ssid_idx : {MeshNode} \union DOMAIN Networks]

TypeOK ==
    /\ results \in Seq(Visible)
    /\ ap \in Seq(Candidates)
    /\ ap_unused \in Seq(Nat)
    /\ allocated \in Nat

-----------------------------------------------------------------------------
(* match_networks() and the filter of the loop.                            *)

\* Mutant: the configured BSSID is compared but a mismatch is not fatal.
MatchesAnyway(network, r) ==
    \/ network.hidden /\ r.ssid = NoSSID /\ r.bssid = network.bssid
    \/ r.ssid # NoSSID /\ ~network.hidden /\ r.ssid = network.ssid

\* One turn of match_networks()'s loop: a requested BSSID must be the one
\* seen; a hidden network is known by it alone, any other by its SSID.
Matches(network, r) ==
    /\ network.bssid \in {AnyBSSID, r.bssid}
    /\ \/ network.bssid # AnyBSSID /\ network.hidden /\ r.ssid = NoSSID
       \/ r.ssid # NoSSID /\ ~network.hidden /\ r.ssid = network.ssid

match_networks(r) ==
    LET hits == {n \in DOMAIN Networks : Matches(Networks[n], r)}
    IN  IF hits = {} THEN MeshNode
        ELSE CHOOSE n \in hits : \A m \in hits : n <= m

network_idx(r) == IF IsGateway THEN match_networks(r) ELSE MeshNode

\* What does not match a configured network must be a mesh node: it shows
\* no SSID and its BSSID is one that a mesh node generates.
Accepted(r) ==
    \/ network_idx(r) # MeshNode
    \/ r.ssid = NoSSID /\ r.bssid \in MeshBSSIDs

-----------------------------------------------------------------------------
(* The order of the list.                                                  *)

IsMesh(c) == c.ssid_idx = MeshNode

\* Mutant: any mesh node goes in front of a weak router.
GoesBeforeWeak(c, e) ==
    IF IsMesh(c)
    THEN \/ IsMesh(e) /\ c.rssi >= e.rssi
         \/ ~IsMesh(e) /\ e.rssi <= WeakRssi
    ELSE \/ IsMesh(e) /\ (c.rssi >= WeakRssi \/ c.rssi >= e.rssi)
         \/ ~IsMesh(e) /\ c.rssi >= e.rssi

\* Mutant: a router goes in front of any mesh node.
GoesBeforeMesh(c, e) ==
    IF IsMesh(c)
    THEN (IsMesh(e) \/ e.rssi <= WeakRssi) /\ c.rssi >= e.rssi
    ELSE IsMesh(e) \/ c.rssi >= e.rssi

\* The loop stops at the first candidate e that c goes in front of.
GoesBefore(c, e) ==
    IF IsMesh(c)
    THEN (IsMesh(e) \/ e.rssi <= WeakRssi) /\ c.rssi >= e.rssi
    ELSE \/ IsMesh(e) /\ (c.rssi >= WeakRssi \/ c.rssi >= e.rssi)
         \/ ~IsMesh(e) /\ c.rssi >= e.rssi

\* p is where the loop stops: at the head, inside or behind the list.
IsPlace(c, p) ==
    /\ p \in 1..(Len(ap) + 1)
    /\ p <= Len(ap) => GoesBefore(c, ap[p])
    /\ \A q \in 1..(p - 1) : ~GoesBefore(c, ap[q])

-----------------------------------------------------------------------------
Cells(list) == [k \in DOMAIN list |-> list[k].cell]

\* Mutant: the unused list is overwritten by the old list of candidates.
ScanCompleteDrops ==
    /\ results' = <<>>
    /\ ap_unused' = Cells(ap)
    /\ ap' = <<>>
    /\ UNCHANGED allocated

\* A scan is complete: the cells of the old list join the unused ones.
ScanComplete ==
    /\ results' = <<>>
    /\ ap_unused' = ap_unused \o Cells(ap)
    /\ ap' = <<>>
    /\ UNCHANGED allocated

\* What the loop is at: a scan reports a BSSID once.
NextResult ==
    {r \in Visible : /\ Len(results) < MaxResults
                     /\ \A k \in DOMAIN results : results[k].bssid # r.bssid}

\* A result becomes a candidate, in a recycled or in a new cell.
AddCandidate(r) ==
    /\ Accepted(r)
    /\ LET cell == IF ap_unused = <<>> THEN allocated + 1 ELSE Head(ap_unused)
           c == [cell |-> cell, bssid |-> r.bssid, rssi |-> r.rssi,
                 ssid_idx |-> network_idx(r)]
       IN  \E p \in 1..(Len(ap) + 1) :
              IsPlace(c, p) /\ ap' = InsertAt(ap, p, c)
    /\ IF ap_unused = <<>>
       THEN allocated' = allocated + 1 /\ UNCHANGED ap_unused
       ELSE ap_unused' = Tail(ap_unused) /\ UNCHANGED allocated
    /\ results' = Append(results, r)

SkipResult(r) ==
    /\ ~Accepted(r)
    /\ results' = Append(results, r)
    /\ UNCHANGED <<ap, ap_unused, allocated>>

Init ==
    results = <<>> /\ ap = <<>> /\ ap_unused = <<>> /\ allocated = 0

Next ==
    \/ ScanComplete
    \/ \E r \in NextResult : AddCandidate(r) \/ SkipResult(r)

Spec == Init /\ [][Next]_vars

-----------------------------------------------------------------------------
(* Properties.                                                             *)

\* Every cell ever allocated is on exactly one of the two lists, once: no
\* scan leaks a cell and no cell is linked twice.
CellsConserved ==
    LET all == Cells(ap) \o ap_unused
    IN  /\ Len(all) = allocated
        /\ Range(all) = 1..allocated

\* The routers of the list stand in the order of their signal, and a mesh
\* node stands before a router only if that router is weak and the mesh
\* node's signal at least as strong: holds whatever was found.
RoutersInOrder ==
    \A j, k \in DOMAIN ap :
        j < k /\ ~IsMesh(ap[k]) =>
            /\ ap[j].rssi >= ap[k].rssi
            /\ IsMesh(ap[j]) => ap[k].rssi <= WeakRssi

\* The mesh nodes stand in the order of their signal, and a router before a
\* mesh node is strong or at least its equal, unless a router is seen at
\* WeakRssi exactly, where the two tests of the loop overlap.
MeshInOrderOffTheEdge ==
    (\A k \in DOMAIN ap : ~IsMesh(ap[k]) => ap[k].rssi # WeakRssi) =>
        \A j, k \in DOMAIN ap :
            j < k /\ IsMesh(ap[k]) =>
                \/ ap[j].rssi >= ap[k].rssi
                \/ ~IsMesh(ap[j]) /\ ap[j].rssi > WeakRssi

\* What a user of the table networks[] means by it: a hidden network is
\* given with its BSSID, one that shows its SSID with or without.
Configured(r) ==
    \E n \in DOMAIN Networks :
        LET network == Networks[n]
        IN  IF network.hidden THEN r.ssid = NoSSID /\ r.bssid = network.bssid
            ELSE /\ r.ssid = network.ssid /\ r.ssid # NoSSID
                 /\ network.bssid = AnyBSSID \/ r.bssid = network.bssid

\* The list holds the networks seen so far that this node may join, all of
\* them, each marked a mesh node exactly if it is no configured one.
ListsWhatMayBeJoined ==
    LET isRouter(r) == IsGateway /\ Configured(r)
        isMesh(r) == r.ssid = NoSSID /\ r.bssid \in MeshBSSIDs
        joinable == {r \in Range(results) : isRouter(r) \/ isMesh(r)}
    IN  {<<c.bssid, IsMesh(c)>> : c \in Range(ap)} =
            {<<r.bssid, ~isRouter(r)>> : r \in joinable}
=============================================================================
