--------------------------- MODULE ScanListProofs ---------------------------
(***************************************************************************)
(* Proofs about ScanList.tla, for every table of networks, every set of    *)
(* visible networks and any number of results and scans; and about         *)
(* MacIdentity.tla, by which it knows mesh nodes, for any key and octets.  *)
(***************************************************************************)
EXTENDS ScanList, MacIdentity, SequenceTheorems, WellFoundedInduction, TLAPS

-----------------------------------------------------------------------------
(* The helpers the list is built with.                                     *)

\* t is s with e inserted at p.
Inserted(t, s, p, e) ==
    /\ Len(t) = Len(s) + 1
    /\ \A k \in 1..(Len(s) + 1) :
          /\ k < p => t[k] = s[k]
          /\ k = p => t[k] = e
          /\ k > p => t[k] = s[k - 1]

LEMMA InsertAtElements ==
  ASSUME NEW S, NEW s \in Seq(S), NEW e \in S, NEW p \in 1..(Len(s) + 1)
  PROVE  /\ InsertAt(s, p, e) \in Seq(S)
         /\ Inserted(InsertAt(s, p, e), s, p, e)
<1> DEFINE front == SubSeq(s, 1, p - 1)
           back  == SubSeq(s, p, Len(s))
<1>0. Len(s) \in Nat /\ p \in Nat
  OBVIOUS
<1>1. /\ front \in Seq(S) /\ Len(front) = p - 1
      /\ \A k \in 1..(p - 1) : front[k] = s[k]
  BY <1>0
<1>2. /\ back \in Seq(S) /\ Len(back) = Len(s) - p + 1
      /\ \A k \in 1..(Len(s) - p + 1) : back[k] = s[p + k - 1]
  BY <1>0
<1>3. <<e>> \in Seq(S) /\ Len(<<e>>) = 1 /\ <<e>>[1] = e
  OBVIOUS
<1> DEFINE head == front \o <<e>>
<1> HIDE DEF front, back
<1>4. /\ head \in Seq(S) /\ Len(head) = p
      /\ \A k \in 1..p : head[k] = IF k < p THEN s[k] ELSE e
  BY <1>0, <1>1, <1>3
<1> HIDE DEF head
<1>5. /\ head \o back \in Seq(S) /\ Len(head \o back) = Len(s) + 1
      /\ \A k \in 1..(Len(s) + 1) :
           /\ k < p => (head \o back)[k] = s[k]
           /\ k = p => (head \o back)[k] = e
           /\ k > p => (head \o back)[k] = s[k - 1]
  <2>1. /\ head \o back \in Seq(S)
        /\ Len(head \o back) = Len(s) + 1
        /\ Len(head) = p /\ Len(back) = Len(s) - p + 1
    BY <1>0, <1>2, <1>4
  <2>2. ASSUME NEW k \in 1..(Len(s) + 1)
        PROVE  /\ k < p => (head \o back)[k] = s[k]
               /\ k = p => (head \o back)[k] = e
               /\ k > p => (head \o back)[k] = s[k - 1]
    <3>1. CASE k <= p
      <4>1. (head \o back)[k] = head[k]
        BY <1>0, <1>2, <1>4, <2>1, <3>1
      <4> QED
        BY <1>0, <1>4, <3>1, <4>1
    <3>2. CASE k > p
      <4>1. (head \o back)[k] = back[k - p]
        BY <1>0, <1>2, <1>4, <2>1, <3>2
      <4>2. k - p \in 1..(Len(s) - p + 1) /\ p + (k - p) - 1 = k - 1
        BY <1>0, <3>2
      <4>3. back[k - p] = s[k - 1]
        BY <1>2, <4>2
      <4> QED
        BY <1>0, <3>2, <4>1, <4>3
    <3>3. k <= p \/ k > p
      BY <1>0
    <3> QED
      BY <3>1, <3>2, <3>3
  <2> QED
    BY <2>1, <2>2
<1>6. InsertAt(s, p, e) = head \o back
  BY DEF head, front, back, InsertAt
<1>7. Inserted(head \o back, s, p, e)
  BY <1>5, Zenon DEF Inserted
<1> QED
  BY <1>5, <1>6, <1>7, Zenon

LEMMA RangeConcat ==
  ASSUME NEW S, NEW s \in Seq(S), NEW t \in Seq(S)
  PROVE  Range(s \o t) = Range(s) \union Range(t)
<1>1. Len(s) \in Nat /\ Len(t) \in Nat /\ Len(s \o t) = Len(s) + Len(t)
  OBVIOUS
<1>2. ASSUME NEW k \in 1..Len(s) PROVE (s \o t)[k] = s[k]
  BY <1>1
<1>3. ASSUME NEW k \in 1..Len(t) PROVE (s \o t)[Len(s) + k] = t[k]
  BY <1>1
<1>4. ASSUME NEW k \in 1..Len(s \o t)
      PROVE  (s \o t)[k] \in Range(s) \union Range(t)
  <2>1. CASE k <= Len(s)
    BY <1>1, <2>1 DEF Range
  <2>2. CASE k > Len(s)
    <3>1. k - Len(s) \in 1..Len(t) /\ (s \o t)[k] = t[k - Len(s)]
      BY <1>1, <2>2
    <3> QED
      BY <3>1 DEF Range
  <2> QED
    BY <1>1, <2>1, <2>2
<1>5. Range(s) \subseteq Range(s \o t)
  BY <1>1, <1>2 DEF Range
<1>6. Range(t) \subseteq Range(s \o t)
  <2>1. ASSUME NEW k \in 1..Len(t) PROVE t[k] \in Range(s \o t)
    <3>1. Len(s) + k \in 1..Len(s \o t)
      BY <1>1
    <3> QED
      BY <1>3, <3>1 DEF Range
  <2> QED
    BY <2>1 DEF Range
<1>7. Range(s \o t) \subseteq Range(s) \union Range(t)
  <2>1. DOMAIN (s \o t) = 1..Len(s \o t)
    OBVIOUS
  <2> QED
    BY <1>4, <2>1 DEF Range
<1> QED
  BY <1>5, <1>6, <1>7

\* match_networks() answers with the first position that matches.
LEMMA FirstHit ==
  ASSUME NEW r
  PROVE  LET hits == {n \in DOMAIN Networks : Matches(Networks[n], r)}
         IN  hits # {} => match_networks(r) \in hits
<1> DEFINE hits == {n \in DOMAIN Networks : Matches(Networks[n], r)}
<1> SUFFICES ASSUME hits # {} PROVE match_networks(r) \in hits
  OBVIOUS
<1>1. hits \subseteq Nat
  BY NetworkAssumption
<1>2. \E n \in hits : \A m \in hits : ~ (<<m, n>> \in OpToRel(<, Nat))
  BY <1>1, NatLessThanWellFounded, WFMin
<1> HIDE DEF hits
<1>3. \E n \in hits : \A m \in hits : n <= m
  <2>1. PICK n \in hits : \A m \in hits : ~ (<<m, n>> \in OpToRel(<, Nat))
    BY <1>2
  <2>2. ASSUME NEW m \in hits PROVE n <= m
    <3>1. m \in Nat /\ n \in Nat
      BY <1>1
    <3>2. m < n => <<m, n>> \in OpToRel(<, Nat)
      BY <3>1 DEF OpToRel
    <3>3. ~ (m < n)
      BY <2>1, <3>2
    <3> QED
      BY <3>1, <3>3
  <2> QED
    BY <2>2
<1>4. (CHOOSE n \in hits : \A m \in hits : n <= m) \in hits
  BY <1>3
<1> QED
  BY <1>4 DEF hits, match_networks

\* It answers with a position of the table or MeshNode.
LEMMA MatchType ==
  ASSUME NEW r
  PROVE  match_networks(r) \in {MeshNode} \union DOMAIN Networks
<1> DEFINE hits == {n \in DOMAIN Networks : Matches(Networks[n], r)}
<1>1. CASE hits = {}
  BY <1>1 DEF match_networks
<1>2. CASE hits # {}
  BY <1>2, FirstHit
<1> QED
  BY <1>1, <1>2

-----------------------------------------------------------------------------
(* Types, and what AddCandidate() does to the list.                        *)

\* A result that is accepted enters the list at the place the loop finds.
LEMMA AddShape ==
  ASSUME TypeOK, NEW r \in Visible, AddCandidate(r)
  PROVE  \E c \in Candidates, p \in 1..(Len(ap) + 1) :
            /\ c.cell = IF ap_unused = <<>> THEN allocated + 1
                        ELSE Head(ap_unused)
            /\ c.bssid = r.bssid /\ c.ssid_idx = network_idx(r)
            /\ IsPlace(c, p)
            /\ ap' \in Seq(Candidates)
            /\ Len(ap') = Len(ap) + 1
            /\ \A k \in 1..(Len(ap) + 1) :
                  /\ k < p => ap'[k] = ap[k]
                  /\ k = p => ap'[k] = c
                  /\ k > p => ap'[k] = ap[k - 1]
<1> DEFINE cell == IF ap_unused = <<>> THEN allocated + 1 ELSE Head(ap_unused)
           c == [cell |-> cell, bssid |-> r.bssid, rssi |-> r.rssi,
                 ssid_idx |-> network_idx(r)]
<1>1. cell \in Nat
  BY DEF TypeOK
<1>2. network_idx(r) \in {MeshNode} \union DOMAIN Networks
  BY MatchType DEF network_idx
<1>3. r.bssid \in STRING /\ r.rssi \in Int
  BY VisibleAssumption
<1> HIDE DEF cell
<1>4. /\ c \in Candidates /\ c.cell = cell
      /\ c.bssid = r.bssid /\ c.ssid_idx = network_idx(r)
  BY <1>1, <1>2, <1>3 DEF Candidates
<1>5. PICK p \in 1..(Len(ap) + 1) : IsPlace(c, p) /\ ap' = InsertAt(ap, p, c)
  BY DEF AddCandidate, cell
<1> HIDE DEF c
<1>6. ap \in Seq(Candidates)
  BY DEF TypeOK
<1>7. ap' \in Seq(Candidates) /\ Inserted(ap', ap, p, c)
  BY <1>4, <1>5, <1>6, InsertAtElements, Zenon
<1> QED
  BY <1>4, <1>5, <1>7 DEF cell, Inserted

LEMMA CellsType ==
  ASSUME TypeOK
  PROVE  /\ Cells(ap) \in Seq(Nat) /\ Len(Cells(ap)) = Len(ap)
         /\ Range(Cells(ap)) = {ap[k].cell : k \in 1..Len(ap)}
<1>1. ap \in Seq(Candidates) /\ Len(ap) \in Nat /\ DOMAIN ap = 1..Len(ap)
  BY DEF TypeOK
<1>2. Cells(ap) \in [1..Len(ap) -> Nat]
  <2>1. \A k \in 1..Len(ap) : ap[k] \in Candidates
    BY <1>1
  <2>2. \A k \in 1..Len(ap) : ap[k].cell \in Nat
    BY <2>1 DEF Candidates
  <2> QED
    BY <1>1, <2>2 DEF Cells
<1>3. Cells(ap) \in Seq(Nat)
  BY <1>1, <1>2, SeqDef
<1>4. Len(Cells(ap)) = Len(ap)
  BY <1>1, <1>2, <1>3, LenProperties
<1>5. Range(Cells(ap)) = {ap[k].cell : k \in 1..Len(ap)}
  BY <1>1, <1>2 DEF Range, Cells
<1> QED
  BY <1>3, <1>4, <1>5

LEMMA StepTypes ==
  ASSUME TypeOK, [Next]_vars
  PROVE  TypeOK'
<1>1. CASE ScanComplete
  <2>1. Cells(ap) \in Seq(Nat)
    BY CellsType
  <2> QED
    BY <1>1, <2>1 DEF TypeOK, ScanComplete
<1>2. ASSUME NEW r \in NextResult, AddCandidate(r) PROVE TypeOK'
  <2>1. r \in Visible
    BY <1>2 DEF NextResult
  <2>2. ap' \in Seq(Candidates)
    BY <1>2, <2>1, AddShape
  <2>3. results' \in Seq(Visible)
    BY <1>2, <2>1 DEF TypeOK, AddCandidate
  <2>4. ap_unused' \in Seq(Nat) /\ allocated' \in Nat
    <3>1. CASE ap_unused = <<>>
      BY <1>2, <3>1 DEF TypeOK, AddCandidate
    <3>2. CASE ap_unused # <<>>
      <4>1. ap_unused' = Tail(ap_unused) /\ allocated' = allocated
        BY <1>2, <3>2 DEF AddCandidate
      <4> QED
        BY <3>2, <4>1 DEF TypeOK
    <3> QED
      BY <3>1, <3>2
  <2> QED
    BY <2>2, <2>3, <2>4 DEF TypeOK
<1>3. ASSUME NEW r \in NextResult, SkipResult(r) PROVE TypeOK'
  BY <1>3 DEF TypeOK, SkipResult, NextResult
<1>4. CASE UNCHANGED vars
  BY <1>4 DEF TypeOK, vars
<1> QED
  BY <1>1, <1>2, <1>3, <1>4 DEF Next

\* The variables keep the types declared for them, whatever the table and
\* the scans hold: what the loop of scan() stores in an ap_t is an index of
\* networks[] or NETWORK_MESH_NODE.
THEOREM ScanTypes == Spec => []TypeOK
<1>1. Init => TypeOK
  BY DEF Init, TypeOK
<1>2. TypeOK /\ [Next]_vars => TypeOK'
  BY StepTypes
<1> QED
  BY <1>1, <1>2, PTL DEF Spec

-----------------------------------------------------------------------------
(* The order of the list.                                                  *)

\* What the loop compares of two candidates, in integers.
LEMMA CandidateSignal ==
  ASSUME NEW c \in Candidates
  PROVE  c.rssi \in Int
BY DEF Candidates

LEMMA AddKeepsRouters ==
  ASSUME TypeOK, RoutersInOrder, NEW r \in Visible, AddCandidate(r)
  PROVE  RoutersInOrder'
<1>1. PICK c \in Candidates, p \in 1..(Len(ap) + 1) :
          /\ IsPlace(c, p)
          /\ ap' \in Seq(Candidates)
          /\ Len(ap') = Len(ap) + 1
          /\ \A k \in 1..(Len(ap) + 1) :
                /\ k < p => ap'[k] = ap[k]
                /\ k = p => ap'[k] = c
                /\ k > p => ap'[k] = ap[k - 1]
  BY AddShape
<1>2. /\ ap \in Seq(Candidates) /\ Len(ap) \in Nat
      /\ DOMAIN ap = 1..Len(ap) /\ DOMAIN ap' = 1..(Len(ap) + 1)
      /\ p \in Nat
  BY <1>1 DEF TypeOK
<1>3. \A k \in 1..Len(ap) : ap[k] \in Candidates /\ ap[k].rssi \in Int
  BY <1>2, CandidateSignal
<1>4. c.rssi \in Int
  BY CandidateSignal
<1> DEFINE Ordered(a, b) ==
             ~IsMesh(b) => /\ a.rssi >= b.rssi
                           /\ IsMesh(a) => b.rssi <= WeakRssi
<1>5. \A j, k \in 1..Len(ap) : j < k => Ordered(ap[j], ap[k])
  BY <1>2 DEF RoutersInOrder
<1>6. ASSUME NEW j \in 1..(p - 1) PROVE Ordered(ap[j], c)
  <2>1. ~GoesBefore(c, ap[j]) /\ j \in 1..Len(ap)
    BY <1>1, <1>2 DEF IsPlace
  <2> QED
    BY <1>3, <1>4, <2>1 DEF GoesBefore, WeakRssi
<1>7. ASSUME NEW k \in p..Len(ap) PROVE Ordered(c, ap[k])
  <2>1. GoesBefore(c, ap[p]) /\ p \in 1..Len(ap) /\ k \in 1..Len(ap)
    BY <1>1, <1>2 DEF IsPlace
  <2>2. Ordered(c, ap[p])
    BY <1>3, <1>4, <2>1 DEF GoesBefore, WeakRssi
  <2>3. CASE k = p
    BY <2>2, <2>3
  <2>4. CASE k # p
    <3>1. Ordered(ap[p], ap[k])
      BY <1>2, <1>5, <2>1, <2>4
    <3> QED
      BY <1>3, <1>4, <2>1, <2>2, <3>1 DEF GoesBefore, WeakRssi
  <2> QED
    BY <2>3, <2>4
<1> SUFFICES ASSUME NEW j \in 1..(Len(ap) + 1), NEW k \in 1..(Len(ap) + 1),
                    j < k
             PROVE  Ordered(ap'[j], ap'[k])
  BY <1>2 DEF RoutersInOrder
<1> HIDE DEF Ordered
<1>8. CASE k < p
  BY <1>1, <1>2, <1>5, <1>8
<1>9. CASE k = p
  BY <1>1, <1>2, <1>6, <1>9
<1>10. CASE k > p /\ j = p
  BY <1>1, <1>2, <1>7, <1>10
<1>11. CASE k > p /\ j < p
  BY <1>1, <1>2, <1>5, <1>11
<1>12. CASE k > p /\ j > p
  BY <1>1, <1>2, <1>5, <1>12
<1> QED
  BY <1>2, <1>8, <1>9, <1>10, <1>11, <1>12

\* Routers stay sorted by signal, and only a weak router ever stands behind
\* a mesh node, after any number of scans and in the middle of one: the two
\* different tests of the insertion loop in scan() agree on that much.
THEOREM RoutersSorted == Spec => []RoutersInOrder
<1>1. Init => RoutersInOrder
  BY DEF Init, RoutersInOrder
<1>2. ASSUME TypeOK, RoutersInOrder, [Next]_vars PROVE RoutersInOrder'
  <2>1. CASE ScanComplete
    BY <2>1 DEF ScanComplete, RoutersInOrder
  <2>2. ASSUME NEW r \in NextResult, AddCandidate(r) PROVE RoutersInOrder'
    BY <1>2, <2>2, AddKeepsRouters DEF NextResult
  <2>3. ASSUME NEW r \in NextResult, SkipResult(r) PROVE RoutersInOrder'
    BY <1>2, <2>3 DEF SkipResult, RoutersInOrder
  <2>4. CASE UNCHANGED vars
    BY <1>2, <2>4 DEF vars, RoutersInOrder
  <2> QED
    BY <1>2, <2>1, <2>2, <2>3, <2>4 DEF Next
<1> QED
  BY <1>1, <1>2, ScanTypes, PTL DEF Spec

LEMMA AddKeepsMesh ==
  ASSUME TypeOK, MeshInOrderOffTheEdge, NEW r \in Visible, AddCandidate(r)
  PROVE  MeshInOrderOffTheEdge'
<1>1. PICK c \in Candidates, p \in 1..(Len(ap) + 1) :
          /\ IsPlace(c, p)
          /\ ap' \in Seq(Candidates)
          /\ Len(ap') = Len(ap) + 1
          /\ \A k \in 1..(Len(ap) + 1) :
                /\ k < p => ap'[k] = ap[k]
                /\ k = p => ap'[k] = c
                /\ k > p => ap'[k] = ap[k - 1]
  BY AddShape
<1>2. /\ ap \in Seq(Candidates) /\ Len(ap) \in Nat
      /\ DOMAIN ap = 1..Len(ap) /\ DOMAIN ap' = 1..(Len(ap) + 1)
      /\ p \in Nat
  BY <1>1 DEF TypeOK
<1>3. \A k \in 1..Len(ap) : ap[k] \in Candidates /\ ap[k].rssi \in Int
  BY <1>2, CandidateSignal
<1>4. c.rssi \in Int
  BY CandidateSignal
<1> DEFINE OffTheEdge(a) == ~IsMesh(a) => a.rssi # WeakRssi
           Ordered(a, b) ==
             IsMesh(b) => \/ a.rssi >= b.rssi
                          \/ ~IsMesh(a) /\ a.rssi > WeakRssi
<1> SUFFICES ASSUME \A k \in 1..(Len(ap) + 1) : OffTheEdge(ap'[k]),
                    NEW j \in 1..(Len(ap) + 1), NEW k \in 1..(Len(ap) + 1),
                    j < k
             PROVE  Ordered(ap'[j], ap'[k])
  BY <1>2 DEF MeshInOrderOffTheEdge
<1>5. OffTheEdge(c)
  BY <1>1, <1>2
<1>6. ASSUME NEW m \in 1..Len(ap) PROVE OffTheEdge(ap[m])
  <2>1. CASE m < p
    BY <1>1, <1>2, <2>1
  <2>2. CASE m >= p
    <3>1. m + 1 \in 1..(Len(ap) + 1) /\ ap'[m + 1] = ap[m]
      BY <1>1, <1>2, <2>2
    <3> QED
      BY <3>1
  <2> QED
    BY <1>2, <2>1, <2>2
<1>7. \A l, m \in 1..Len(ap) : l < m => Ordered(ap[l], ap[m])
  BY <1>2, <1>6 DEF MeshInOrderOffTheEdge
<1>8. ASSUME NEW m \in 1..(p - 1) PROVE Ordered(ap[m], c)
  <2>1. ~GoesBefore(c, ap[m]) /\ m \in 1..Len(ap)
    BY <1>1, <1>2 DEF IsPlace
  <2> QED
    BY <1>3, <1>4, <2>1 DEF GoesBefore, WeakRssi
<1>9. ASSUME NEW m \in p..Len(ap) PROVE Ordered(c, ap[m])
  <2>1. GoesBefore(c, ap[p]) /\ p \in 1..Len(ap) /\ m \in 1..Len(ap)
    BY <1>1, <1>2 DEF IsPlace
  <2>2. CASE m = p
    BY <1>3, <1>4, <1>5, <2>1, <2>2 DEF GoesBefore, WeakRssi
  <2>3. CASE m # p
    <3>1. Ordered(ap[p], ap[m])
      BY <1>2, <1>7, <2>1, <2>3
    <3> QED
      BY <1>3, <1>4, <1>5, <2>1, <3>1 DEF GoesBefore, WeakRssi
  <2> QED
    BY <2>2, <2>3
<1> HIDE DEF Ordered
<1>10. CASE k < p
  BY <1>1, <1>2, <1>7, <1>10
<1>11. CASE k = p
  BY <1>1, <1>2, <1>8, <1>11
<1>12. CASE k > p /\ j = p
  BY <1>1, <1>2, <1>9, <1>12
<1>13. CASE k > p /\ j < p
  BY <1>1, <1>2, <1>7, <1>13
<1>14. CASE k > p /\ j > p
  BY <1>1, <1>2, <1>7, <1>14
<1> QED
  BY <1>2, <1>10, <1>11, <1>12, <1>13, <1>14

\* The mesh nodes of the list are sorted too, as long as no router is seen
\* at exactly -77 dBm, the one value for which both tests of the insertion
\* loop in scan() hold.
THEOREM MeshSortedOffTheEdge == Spec => []MeshInOrderOffTheEdge
<1>1. Init => MeshInOrderOffTheEdge
  BY DEF Init, MeshInOrderOffTheEdge
<1>2. ASSUME TypeOK, MeshInOrderOffTheEdge, [Next]_vars
      PROVE  MeshInOrderOffTheEdge'
  <2>1. CASE ScanComplete
    BY <2>1 DEF ScanComplete, MeshInOrderOffTheEdge
  <2>2. ASSUME NEW r \in NextResult, AddCandidate(r)
        PROVE  MeshInOrderOffTheEdge'
    BY <1>2, <2>2, AddKeepsMesh DEF NextResult
  <2>3. ASSUME NEW r \in NextResult, SkipResult(r)
        PROVE  MeshInOrderOffTheEdge'
    BY <1>2, <2>3 DEF SkipResult, MeshInOrderOffTheEdge
  <2>4. CASE UNCHANGED vars
    BY <1>2, <2>4 DEF vars, MeshInOrderOffTheEdge
  <2> QED
    BY <1>2, <2>1, <2>2, <2>3, <2>4 DEF Next
<1> QED
  BY <1>1, <1>2, ScanTypes, PTL DEF Spec

-----------------------------------------------------------------------------
(* The cells of the list.                                                  *)

\* CellsConserved by its two halves: how many cells there are, and which.
CellCount == Len(ap) + Len(ap_unused) = allocated
CellSet == Range(Cells(ap)) \union Range(ap_unused) = 1..allocated

LEMMA ConservedHalves ==
  ASSUME TypeOK
  PROVE  CellsConserved <=> CellCount /\ CellSet
<1>1. Cells(ap) \in Seq(Nat) /\ Len(Cells(ap)) = Len(ap)
  BY CellsType
<1>2. ap_unused \in Seq(Nat)
  BY DEF TypeOK
<1>3. Range(Cells(ap) \o ap_unused) = Range(Cells(ap)) \union Range(ap_unused)
  BY <1>1, <1>2, RangeConcat
<1>4. Len(Cells(ap) \o ap_unused) = Len(ap) + Len(ap_unused)
  <2>1. Len(Cells(ap) \o ap_unused) = Len(Cells(ap)) + Len(ap_unused)
    BY <1>1, <1>2, ConcatProperties, Zenon
  <2> QED
    BY <1>1, <2>1, Zenon
<1> QED
  BY <1>3, <1>4 DEF CellsConserved, CellCount, CellSet

LEMMA ScanKeepsCells ==
  ASSUME TypeOK, CellCount, CellSet, ScanComplete
  PROVE  CellCount' /\ CellSet'
<1>1. /\ Cells(ap) \in Seq(Nat) /\ Len(Cells(ap)) = Len(ap)
      /\ ap_unused \in Seq(Nat)
  BY CellsType DEF TypeOK
<1>2. /\ ap' = <<>> /\ allocated' = allocated
      /\ ap_unused' = ap_unused \o Cells(ap)
  BY DEF ScanComplete
<1>3. Range(ap_unused') = Range(ap_unused) \union Range(Cells(ap))
  BY <1>1, <1>2, RangeConcat
<1>4. Len(ap_unused') = Len(ap_unused) + Len(ap)
  <2>1. Len(ap_unused \o Cells(ap)) = Len(ap_unused) + Len(Cells(ap))
    BY <1>1, ConcatProperties
  <2> QED
    BY <1>1, <1>2, <2>1
<1>5. Range(Cells(ap')) = {}
  BY <1>2 DEF Range, Cells
<1>6. CellCount'
  BY <1>1, <1>2, <1>4 DEF CellCount, TypeOK
<1>7. CellSet'
  BY <1>2, <1>3, <1>5 DEF CellSet
<1> QED
  BY <1>6, <1>7

\* The list holds the cells it held and the one of the new candidate.
LEMMA AddCells ==
  ASSUME TypeOK, NEW r \in Visible, AddCandidate(r)
  PROVE  /\ Len(ap') = Len(ap) + 1
         /\ Range(Cells(ap')) = Range(Cells(ap)) \union
               {IF ap_unused = <<>> THEN allocated + 1 ELSE Head(ap_unused)}
<1> DEFINE cell == IF ap_unused = <<>> THEN allocated + 1 ELSE Head(ap_unused)
<1>1. PICK c \in Candidates, p \in 1..(Len(ap) + 1) :
          /\ c.cell = cell
          /\ ap' \in Seq(Candidates)
          /\ Len(ap') = Len(ap) + 1
          /\ \A k \in 1..(Len(ap) + 1) :
                /\ k < p => ap'[k] = ap[k]
                /\ k = p => ap'[k] = c
                /\ k > p => ap'[k] = ap[k - 1]
  BY AddShape
<1>2. Len(ap) \in Nat /\ DOMAIN ap = 1..Len(ap) /\ p \in Nat
  BY DEF TypeOK
<1>3. DOMAIN ap' = 1..(Len(ap) + 1)
  BY <1>1, <1>2
<1> HIDE DEF cell
<1>4. Range(Cells(ap)) = {ap[k].cell : k \in 1..Len(ap)}
  BY <1>2 DEF Range, Cells
<1>5. Range(Cells(ap')) = {ap'[k].cell : k \in 1..(Len(ap) + 1)}
  BY <1>3 DEF Range, Cells
<1>6. ASSUME NEW k \in 1..(Len(ap) + 1)
      PROVE  ap'[k].cell \in {ap[m].cell : m \in 1..Len(ap)} \union {cell}
  <2>1. CASE k < p
    BY <1>1, <1>2, <2>1
  <2>2. CASE k = p
    BY <1>1, <1>2, <2>2
  <2>3. CASE k > p
    <3>1. k - 1 \in 1..Len(ap) /\ ap'[k] = ap[k - 1]
      BY <1>1, <1>2, <2>3
    <3> QED
      BY <3>1
  <2> QED
    BY <1>2, <2>1, <2>2, <2>3
<1>7. ASSUME NEW m \in 1..Len(ap)
      PROVE  ap[m].cell \in {ap'[k].cell : k \in 1..(Len(ap) + 1)}
  <2>1. CASE m < p
    BY <1>1, <1>2, <2>1
  <2>2. CASE m >= p
    <3>1. m + 1 \in 1..(Len(ap) + 1) /\ ap'[m + 1] = ap[m]
      BY <1>1, <1>2, <2>2
    <3> QED
      BY <3>1
  <2> QED
    BY <1>2, <2>1, <2>2
<1>8. cell \in {ap'[k].cell : k \in 1..(Len(ap) + 1)}
  BY <1>1, <1>2
<1>9. Range(Cells(ap')) = Range(Cells(ap)) \union {cell}
  BY <1>4, <1>5, <1>6, <1>7, <1>8
<1> QED
  BY <1>1, <1>9 DEF cell

LEMMA AddKeepsCells ==
  ASSUME TypeOK, CellCount, CellSet, NEW r \in Visible, AddCandidate(r)
  PROVE  CellCount' /\ CellSet'
<1>1. ap_unused \in Seq(Nat) /\ allocated \in Nat /\ Len(ap) \in Nat
  BY DEF TypeOK
<1>2. CASE ap_unused = <<>>
  <2>1. allocated' = allocated + 1 /\ ap_unused' = ap_unused
    BY <1>2 DEF AddCandidate
  <2>2. /\ Len(ap') = Len(ap) + 1
        /\ Range(Cells(ap')) = Range(Cells(ap)) \union {allocated + 1}
    BY <1>2, AddCells
  <2>3. CellCount'
    BY <1>1, <2>1, <2>2 DEF CellCount
  <2>4. 1..(allocated + 1) = 1..allocated \union {allocated + 1}
    BY <1>1
  <2>5. CellSet'
    BY <2>1, <2>2, <2>4 DEF CellSet
  <2> QED
    BY <2>3, <2>5
<1>3. CASE ap_unused # <<>>
  <2>1. allocated' = allocated /\ ap_unused' = Tail(ap_unused)
    BY <1>3 DEF AddCandidate
  <2>2. /\ Len(ap') = Len(ap) + 1
        /\ Range(Cells(ap')) = Range(Cells(ap)) \union {Head(ap_unused)}
    BY <1>3, AddCells
  <2>3. /\ Tail(ap_unused) \in Seq(Nat)
        /\ Len(Tail(ap_unused)) = Len(ap_unused) - 1
        /\ Len(ap_unused) \in Nat \ {0}
        /\ Head(ap_unused) = ap_unused[1]
    BY <1>1, <1>3
  <2>4. \A k \in 1..(Len(ap_unused) - 1) :
           Tail(ap_unused)[k] = ap_unused[k + 1]
    BY <1>1, <1>3, <2>3
  <2>5. Range(ap_unused) = {Head(ap_unused)} \union Range(Tail(ap_unused))
    <3>1. /\ DOMAIN ap_unused = 1..Len(ap_unused)
          /\ DOMAIN Tail(ap_unused) = 1..(Len(ap_unused) - 1)
      BY <1>1, <2>3
    <3>2. ASSUME NEW k \in 1..Len(ap_unused)
          PROVE  ap_unused[k] \in {Head(ap_unused)} \union
                                     Range(Tail(ap_unused))
      <4>1. CASE k = 1
        BY <2>3, <4>1
      <4>2. CASE k # 1
        <5>1. /\ k - 1 \in 1..(Len(ap_unused) - 1)
              /\ Tail(ap_unused)[k - 1] = ap_unused[k]
          BY <2>3, <2>4, <4>2
        <5> QED
          BY <3>1, <5>1 DEF Range
      <4> QED
        BY <4>1, <4>2
    <3>3. ASSUME NEW k \in 1..(Len(ap_unused) - 1)
          PROVE  Tail(ap_unused)[k] \in Range(ap_unused)
      BY <2>3, <2>4, <3>1 DEF Range
    <3>4. Head(ap_unused) \in Range(ap_unused)
      BY <2>3, <3>1 DEF Range
    <3>5. Range(ap_unused) \subseteq {Head(ap_unused)} \union
                                        Range(Tail(ap_unused))
      BY <3>1, <3>2 DEF Range
    <3>6. Range(Tail(ap_unused)) \subseteq Range(ap_unused)
      BY <3>1, <3>3 DEF Range
    <3> QED
      BY <3>4, <3>5, <3>6
  <2>6. CellCount'
    BY <1>1, <2>1, <2>2, <2>3 DEF CellCount
  <2>7. CellSet'
    BY <2>1, <2>2, <2>5 DEF CellSet
  <2> QED
    BY <2>6, <2>7
<1> QED
  BY <1>2, <1>3

\* No scan, whatever it finds and however often it is repeated, leaks an
\* ap_t or links one into both lists: the recycling of scan() is exact.
THEOREM Conserved == Spec => []CellsConserved
<1>1. Init => TypeOK /\ CellsConserved
  <2>1. Init => TypeOK /\ CellCount /\ CellSet
    BY DEF Init, TypeOK, CellCount, CellSet, Cells, Range
  <2> QED
    BY <2>1, ConservedHalves
<1>2. ASSUME TypeOK, TypeOK', CellsConserved, [Next]_vars
      PROVE  CellsConserved'
  <2>1. CellCount /\ CellSet
    BY <1>2, ConservedHalves
  <2>2. ASSUME ScanComplete PROVE CellCount' /\ CellSet'
    BY <1>2, <2>1, <2>2, ScanKeepsCells
  <2>3. ASSUME NEW r \in NextResult, AddCandidate(r)
        PROVE  CellCount' /\ CellSet'
    BY <1>2, <2>1, <2>3, AddKeepsCells DEF NextResult
  <2>4. ASSUME NEW r \in NextResult, SkipResult(r)
        PROVE  CellCount' /\ CellSet'
    BY <2>1, <2>4 DEF SkipResult, CellCount, CellSet
  <2>5. ASSUME UNCHANGED vars PROVE CellCount' /\ CellSet'
    BY <2>1, <2>5 DEF vars, CellCount, CellSet
  <2>6. CellCount' /\ CellSet'
    BY <1>2, <2>2, <2>3, <2>4, <2>5 DEF Next
  <2>7. TypeOK' => (CellsConserved' <=> CellCount' /\ CellSet')
    BY ConservedHalves, PTL
  <2> QED
    BY <1>2, <2>6, <2>7
<1> QED
  BY <1>1, <1>2, ScanTypes, PTL DEF Spec

-----------------------------------------------------------------------------
(* What the list holds.                                                    *)

LEMMA MatchedByOne ==
  ASSUME NEW r \in Visible, NEW n \in DOMAIN Networks
  PROVE  Matches(Networks[n], r) <=>
           IF Networks[n].hidden
           THEN r.ssid = NoSSID /\ r.bssid = Networks[n].bssid
           ELSE /\ r.ssid = Networks[n].ssid /\ r.ssid # NoSSID
                /\ Networks[n].bssid = AnyBSSID \/ r.bssid = Networks[n].bssid
<1> DEFINE Network == [ssid : STRING, bssid : STRING, hidden : BOOLEAN]
<1>1. Networks[n] \in Network
  <2>1. Networks \in Seq(Network)
    BY NetworkAssumption
  <2> HIDE DEF Network
  <2> QED
    BY <2>1
<1>2. Networks[n].hidden \in BOOLEAN
  BY <1>1
<1>3. r.bssid # AnyBSSID
  BY AnyAssumption
<1> DEFINE network == Networks[n]
<1> HIDE DEF network
<1>4. CASE network.hidden
  BY <1>3, <1>4 DEF Matches, network
<1>5. CASE ~network.hidden
  BY <1>3, <1>5 DEF Matches, network
<1> QED
  BY <1>4, <1>5

\* match_networks() finds a network of the table exactly if there is one.
LEMMA MatchedIfConfigured ==
  ASSUME NEW r \in Visible
  PROVE  match_networks(r) # MeshNode <=> Configured(r)
<1> DEFINE hits == {n \in DOMAIN Networks : Matches(Networks[n], r)}
<1>1. hits # {} <=> Configured(r)
  BY MatchedByOne, Zenon DEF Configured
<1>2. CASE hits = {}
  BY <1>1, <1>2 DEF match_networks
<1>3. CASE hits # {}
  <2>1. match_networks(r) \in hits
    BY <1>3, FirstHit
  <2>2. \A n \in hits : n # MeshNode
    BY NetworkAssumption DEF MeshNode
  <2> QED
    BY <1>1, <1>3, <2>1, <2>2
<1> QED
  BY <1>2, <1>3

\* The two sides of ListsWhatMayBeJoined, and one result's share of them.
Listed(list) == {<<c.bssid, IsMesh(c)>> : c \in Range(list)}
IsRouter(r) == IsGateway /\ Configured(r)
IsMeshNode(r) == r.ssid = NoSSID /\ r.bssid \in MeshBSSIDs
Joinable(found) == {r \in Range(found) : IsRouter(r) \/ IsMeshNode(r)}
Seen(found) == {<<r.bssid, ~IsRouter(r)>> : r \in Joinable(found)}

LEMMA RouterKnown ==
  ASSUME NEW r \in Visible
  PROVE  /\ network_idx(r) # MeshNode <=> IsRouter(r)
         /\ Accepted(r) <=> IsRouter(r) \/ IsMeshNode(r)
BY MatchedIfConfigured, Zenon
   DEF network_idx, IsRouter, Accepted, IsMeshNode

LEMMA AppendRange ==
  ASSUME NEW S, NEW s \in Seq(S), NEW e \in S
  PROVE  Range(Append(s, e)) = Range(s) \union {e}
<1>1. /\ Len(s) \in Nat /\ DOMAIN s = 1..Len(s)
      /\ DOMAIN Append(s, e) = 1..(Len(s) + 1)
      /\ Append(s, e)[Len(s) + 1] = e
      /\ \A k \in 1..Len(s) : Append(s, e)[k] = s[k]
  OBVIOUS
<1>2. ASSUME NEW n \in Nat PROVE 1..(n + 1) = 1..n \union {n + 1}
  OBVIOUS
<1>3. Range(Append(s, e)) =
        {Append(s, e)[k] : k \in 1..Len(s)} \union {Append(s, e)[Len(s) + 1]}
  BY <1>1, <1>2 DEF Range
<1>4. {Append(s, e)[k] : k \in 1..Len(s)} = Range(s)
  BY <1>1, Zenon DEF Range
<1> QED
  BY <1>1, <1>3, <1>4

LEMMA SeenWithOneMore ==
  ASSUME NEW found \in Seq(Visible), NEW r \in Visible
  PROVE  Seen(Append(found, r)) =
           Seen(found) \union
             IF Accepted(r) THEN {<<r.bssid, ~IsRouter(r)>>} ELSE {}
<1>1. Range(Append(found, r)) = Range(found) \union {r}
  BY AppendRange
<1>2. Accepted(r) <=> IsRouter(r) \/ IsMeshNode(r)
  BY RouterKnown
<1> HIDE DEF Range
<1>3. Joinable(Append(found, r)) =
        Joinable(found) \union IF Accepted(r) THEN {r} ELSE {}
  BY <1>1, <1>2 DEF Joinable
<1> QED
  BY <1>3, Zenon DEF Seen

\* Inserting a candidate adds it and keeps the others.
LEMMA ListedWithOneMore ==
  ASSUME TypeOK, NEW r \in Visible, AddCandidate(r)
  PROVE  Listed(ap') = Listed(ap) \union {<<r.bssid, ~IsRouter(r)>>}
<1>1. PICK c \in Candidates, p \in 1..(Len(ap) + 1) :
          /\ c.bssid = r.bssid /\ c.ssid_idx = network_idx(r)
          /\ ap' \in Seq(Candidates)
          /\ Len(ap') = Len(ap) + 1
          /\ \A k \in 1..(Len(ap) + 1) :
                /\ k < p => ap'[k] = ap[k]
                /\ k = p => ap'[k] = c
                /\ k > p => ap'[k] = ap[k - 1]
  BY AddShape
<1>2. /\ Len(ap) \in Nat /\ DOMAIN ap = 1..Len(ap) /\ p \in Nat
      /\ DOMAIN ap' = 1..(Len(ap) + 1)
  BY <1>1 DEF TypeOK
<1>3. ASSUME NEW k \in 1..(Len(ap) + 1) PROVE ap'[k] \in Range(ap) \union {c}
  <2>1. CASE k < p
    BY <1>1, <1>2, <2>1 DEF Range
  <2>2. CASE k = p
    BY <1>1, <1>2, <2>2
  <2>3. CASE k > p
    <3>1. k - 1 \in 1..Len(ap) /\ ap'[k] = ap[k - 1]
      BY <1>1, <1>2, <2>3
    <3> QED
      BY <1>2, <3>1 DEF Range
  <2> QED
    BY <1>2, <2>1, <2>2, <2>3
<1>4. ASSUME NEW m \in 1..Len(ap) PROVE ap[m] \in Range(ap')
  <2>1. CASE m < p
    BY <1>1, <1>2, <2>1 DEF Range
  <2>2. CASE m >= p
    <3>1. m + 1 \in 1..(Len(ap) + 1) /\ ap'[m + 1] = ap[m]
      BY <1>1, <1>2, <2>2
    <3> QED
      BY <1>2, <3>1 DEF Range
  <2> QED
    BY <1>2, <2>1, <2>2
<1>5. c \in Range(ap')
  BY <1>1, <1>2 DEF Range
<1>6. Range(ap') = Range(ap) \union {c}
  BY <1>2, <1>3, <1>4, <1>5 DEF Range
<1>7. <<c.bssid, IsMesh(c)>> = <<r.bssid, ~IsRouter(r)>>
  <2>1. IsMesh(c) <=> ~IsRouter(r)
    BY <1>1, RouterKnown DEF IsMesh
  <2>2. IsMesh(c) \in BOOLEAN /\ IsRouter(r) \in BOOLEAN
    BY DEF IsMesh, IsRouter
  <2> QED
    BY <1>1, <2>1, <2>2
<1> HIDE DEF Range
<1>8. Listed(ap') = Listed(ap) \union {<<c.bssid, IsMesh(c)>>}
  BY <1>6, Zenon DEF Listed
<1> QED
  BY <1>7, <1>8

\* The list holds exactly the networks among the results that the node may
\* join, each with the right kind: the tests of match_networks() agree with
\* what the table means, whatever the table and the scans hold, a hidden
\* network or one pinned to a BSSID included, and no insertion drops another
\* candidate.
THEOREM ListedRight == Spec => []ListsWhatMayBeJoined
<1> DEFINE Agree == Listed(ap) = Seen(results)
<1>0. ListsWhatMayBeJoined <=> Agree
  BY Zenon DEF ListsWhatMayBeJoined, Listed, Seen, Joinable, IsRouter, IsMeshNode
<1>1. Init => Agree
  BY DEF Init, Listed, Seen, Joinable, Range
<1>2. ASSUME TypeOK, Agree, [Next]_vars PROVE Agree'
  <2>1. CASE ScanComplete
    BY <2>1 DEF ScanComplete, Listed, Seen, Joinable, Range
  <2>2. ASSUME NEW r \in NextResult, AddCandidate(r) PROVE Agree'
    <3>1. r \in Visible /\ results \in Seq(Visible)
      BY <1>2 DEF NextResult, TypeOK
    <3>2. Accepted(r) /\ results' = Append(results, r)
      BY <2>2 DEF AddCandidate
    <3>3. Listed(ap') = Listed(ap) \union {<<r.bssid, ~IsRouter(r)>>}
      BY <1>2, <2>2, <3>1, ListedWithOneMore
    <3> QED
      BY <1>2, <3>1, <3>2, <3>3, SeenWithOneMore
  <2>3. ASSUME NEW r \in NextResult, SkipResult(r) PROVE Agree'
    <3>1. r \in Visible /\ results \in Seq(Visible)
      BY <1>2 DEF NextResult, TypeOK
    <3>2. ~Accepted(r) /\ results' = Append(results, r) /\ ap' = ap
      BY <2>3 DEF SkipResult
    <3> QED
      BY <1>2, <3>1, <3>2, SeenWithOneMore
  <2>4. CASE UNCHANGED vars
    BY <1>2, <2>4 DEF vars, Listed
  <2> QED
    BY <1>2, <2>1, <2>2, <2>3, <2>4 DEF Next
<1> QED
  BY <1>0, <1>1, <1>2, ScanTypes, PTL DEF Spec

-----------------------------------------------------------------------------
(* MacIdentity.                                                            *)

LEMMA Division ==
  ASSUME NEW x \in Nat, NEW d \in Nat \ {0}
  PROVE  x \div d \in Nat /\ x % d \in 0..(d - 1) /\ x = d * (x \div d) + (x % d)
<1>1. x = d * (x \div d) + (x % d)
  BY Z3
<1>2. x % d \in 0..(d - 1)
  BY SMT
<1>3. x \div d \in Nat
  BY SMT
<1> QED
  BY <1>1, <1>2, <1>3

\* The lowest bits outlive a remainder by a multiple of eight.
LEMMA LowestBits ==
  ASSUME NEW y \in Nat, NEW e \in Nat \ {0}
  PROVE  /\ (8 * y + 2) % (8 * e) \in Nat
         /\ ((8 * y + 2) % (8 * e)) % 8 = 2
<1> DEFINE x == 8 * y + 2
           d == 8 * e
           q == x \div d
           r == x % d
<1>1. x \in Nat /\ d \in Nat \ {0}
  OBVIOUS
<1>2. q \in Nat /\ r \in Nat /\ x = d * q + r
  <2> HIDE DEF x, d
  <2>1. x \div d \in Nat /\ x % d \in 0..(d - 1) /\ x = d * (x \div d) + (x % d)
    BY <1>1, Division
  <2> QED
    BY <1>1, <2>1
<1>3. PICK z \in Nat : z = e * q
  BY <1>2
<1>4. d * q = 8 * z
  BY <1>2, <1>3
<1>5. r = 8 * (y - z) + 2
  BY <1>2, <1>3, <1>4
<1> HIDE DEF r
<1>6. r % 8 = 2
  BY <1>2, <1>3, <1>5
<1> QED
  BY <1>2, <1>6 DEF r

LEMMA LowestOctet ==
  ASSUME NEW id, NEW key \in Nat, Hash(id) \in Nat
  PROVE  /\ Octets(encrypt_id(id, key))[1] \in Nat
         /\ Octets(encrypt_id(id, key))[1] % 8 = 2
<1>1. PICK e \in Nat \ {0} : Octet = 8 * e
  <2>1. Octet \in Nat \ {0} /\ Octet % 8 = 0
    BY OctetAssumption
  <2>2. Octet = 8 * (Octet \div 8) /\ Octet \div 8 \in Nat \ {0}
    BY <2>1
  <2> QED
    BY <2>2
<1>2. PICK f \in Nat \ {0} : Kept = 8 * f
  <2>1. Octet * Octet \in Nat \ {0}
    BY OctetAssumption
  <2>2. e * (Octet * Octet) \in Nat \ {0}
    BY <2>1
  <2>3. Kept = 8 * (e * (Octet * Octet))
    BY <1>1, <2>1 DEF Kept
  <2> QED
    BY <2>2, <2>3
<1>3. PICK y \in Nat : y = (Hash(id) % Kept) * (key % Kept)
  <2>1. Kept \in Nat \ {0}
    BY <1>2
  <2>2. Hash(id) % Kept \in Nat /\ key % Kept \in Nat
    BY <2>1, Division
  <2> QED
    BY <2>2
<1> DEFINE n == (8 * y + 2) % (8 * f)
<1>4. encrypt_id(id, key) = n
  BY <1>2, <1>3 DEF encrypt_id
<1>5. n \in Nat /\ n % 8 = 2
  BY LowestBits
<1> HIDE DEF n
<1>6. PICK z \in Nat : n = 8 * z + 2
  BY <1>5
<1>7. n % Octet \in Nat /\ (n % Octet) % 8 = 2
  BY <1>1, <1>6, LowestBits
<1> QED
  BY <1>4, <1>7 DEF Octets

\* A node whose chip id has 24 bits, as an ESP8266 has, is recognized by
\* every node of its mesh.  (That lfsr() makes a natural number of the id is
\* a hypothesis here.)
THEOREM RecognizedInItsMesh ==
  ASSUME NEW id \in Ids, id[4] = 0, NEW key \in Nat, Hash(id) \in Nat
  PROVE  verify_bssid(generate_mac(id, key), key)
<1> DEFINE n == encrypt_id(id, key)
           bssid == generate_mac(id, key)
<1>1. id = <<id[1], id[2], id[3], 0>>
  BY DEF Ids
<1>2. /\ bssid[1] = Octets(n)[1] /\ bssid[2] = Octets(n)[2]
      /\ bssid[3] = Octets(n)[3]
      /\ bssid[4] = id[3] /\ bssid[5] = id[2] /\ bssid[6] = id[1]
  BY DEF generate_mac, Octets
<1>3. WithoutStationBit(Octets(n)[1]) = Octets(n)[1]
  <2> DEFINE v == Octets(n)[1]
  <2>1. v \in Nat /\ v % 8 = 2
    BY LowestOctet
  <2> HIDE DEF v
  <2>2. (v \div 4) % 2 = 0
    BY <2>1
  <2>3. WithoutStationBit(v) = v
    BY <2>2 DEF WithoutStationBit
  <2> QED
    BY <2>3 DEF v
<1>4. Octets(n) = <<Octets(n)[1], Octets(n)[2], Octets(n)[3]>>
  BY DEF Octets
<1> QED
  BY <1>1, <1>2, <1>3, <1>4 DEF verify_bssid

\* The BSSID of a node is always one of a unicast address that is locally
\* administered, as the comment of encrypt_id() asks for.
THEOREM LocallyAdministered ==
  ASSUME NEW id, NEW key \in Nat, Hash(id) \in Nat
  PROVE  generate_mac(id, key)[1] % 4 = 2
<1> DEFINE v == Octets(encrypt_id(id, key))[1]
<1>1. generate_mac(id, key)[1] = v
  BY DEF generate_mac, Octets
<1>2. v \in Nat /\ v % 8 = 2
  BY LowestOctet
<1> HIDE DEF v
<1>3. v % 4 = 2
  BY <1>2
<1> QED
  BY <1>1, <1>3
=============================================================================
