------------------------------- MODULE OtaProofs -------------------------------
(***************************************************************************)
(* Proofs about Ota.tla, for any nodes, images and sizes, any number of    *)
(* runs of send_ota.py, with and without losses and failing writes; and    *)
(* about Base64.tla, in which blocks travel, for byte sequences of any     *)
(* length.                                                                 *)
(***************************************************************************)
EXTENDS Ota, Base64, SequenceTheorems, WellFoundedInduction, TLAPS

-----------------------------------------------------------------------------
(* Helpers.                                                                *)

LEMMA AddressTypes == Addresses \in SUBSET Int
BY SpaceAssumption, SizeAssumption DEF Addresses

LEMMA ByteTypes ==
  ASSUME NEW i \in Images, NEW a \in Nat
  PROVE  Byte(i, a) \in Bytes
BY DEF Byte, Bytes

LEMMA BlankTypes == Blank \in Bytes /\ Mixed \in Bytes /\ Foreign \in Bytes
BY DEF Bytes

LEMMA WholeTypes ==
  ASSUME NEW i \in Images
  PROVE  Whole(i) \in Seq(Bytes)
<1>1. Length[i] \in Nat
  BY ImageAssumption
<1>2. ASSUME NEW k \in 1..Length[i]
      PROVE  Byte(i, k - 1) \in Bytes
  <2>1. k - 1 \in Nat
    BY <1>1
  <2> QED
    BY <2>1, ByteTypes
<1>3. Whole(i) \in [1..Length[i] -> Bytes]
  BY <1>2 DEF Whole
<1> QED
  BY <1>1, <1>3, SeqDef

\* A block is not empty and does not reach behind the image.
LEMMA BlockLenBounds ==
  ASSUME NEW i \in Images, NEW p \in Nat, p < Length[i]
  PROVE  BlockLen(i, p) \in 1..(Length[i] - p)
BY ImageAssumption, SizeAssumption DEF BlockLen

CommandNames == {"start", "block", "check", "flash"}

LEMMA PublishTypes ==
  ASSUME TypeOK, NEW to \in SUBSET Nodes, NEW cmd \in CommandNames,
         NEW i \in Images, NEW p \in Nat, NEW list \in SUBSET Nodes,
         NEW own \in SUBSET Nodes, Publish(to, cmd, i, p, list, own)
  PROVE  down' \in [Nodes -> Seq(Commands)]
<1> DEFINE m == [cmd |-> cmd, image |-> i, pos |-> p, listed |-> list, own |-> own]
<1>1. m \in Commands
  BY DEF Commands, CommandNames
<1>2. down' = [n \in Nodes |-> IF n \in to THEN Append(down[n], m) ELSE down[n]]
  BY DEF Publish
<1> HIDE DEF m
<1>3. ASSUME NEW n \in Nodes
      PROVE  Append(down[n], m) \in Seq(Commands) /\ down[n] \in Seq(Commands)
  BY <1>1, AppendProperties DEF TypeOK
<1> QED
  BY <1>2, <1>3

LEMMA AnswerTypes ==
  ASSUME TypeOK, NEW n \in Nodes, NEW kind \in {"erase", "md5", "check"},
         NEW i \in Images \union {None}, NEW p \in Nat, NEW ok \in BOOLEAN,
         Answer(n, kind, i, p, ok)
  PROVE  up' \in [Nodes -> Seq(Answers)]
<1> DEFINE a == [kind |-> kind, image |-> i, pos |-> p, ok |-> ok]
<1>1. a \in Answers
  BY DEF Answers
<1>2. up' = [up EXCEPT ![n] = Append(@, a)]
  BY DEF Answer
<1> HIDE DEF a
<1>3. Append(up[n], a) \in Seq(Answers)
  BY <1>1, AppendProperties DEF TypeOK
<1> QED
  BY <1>2, <1>3 DEF TypeOK

-----------------------------------------------------------------------------
(* Types.                                                                  *)

LEMMA InitTypes == Init => TypeOK
BY BlankTypes, BoundAssumption, SpaceAssumption
   DEF Init, TypeOK, Seen, NoCommand, EbootCommands

LEMMA EraseTypes ==
  ASSUME TypeOK, NEW n \in Nodes, EraseSector(n)
  PROVE  TypeOK'
<1>1. flash' \in [Nodes -> [Addresses -> Bytes]]
  <2> DEFINE cells == [a \in Addresses |->
               IF a \div SectorSize = nextErase[n] THEN Blank ELSE flash[n][a]]
  <2>1. cells \in [Addresses -> Bytes]
    BY BlankTypes DEF TypeOK
  <2>2. flash' = flash \/ flash' = [flash EXCEPT ![n] = cells]
    BY DEF EraseSector
  <2> HIDE DEF cells
  <2> QED
    BY <2>1, <2>2 DEF TypeOK
<1>2. nextErase' \in [Nodes -> Nat \union {-1}] /\ eraser' \in [Nodes -> BOOLEAN]
  <2>1. nextErase[n] \in Nat \union {-1}
    BY DEF TypeOK
  <2>2. CASE nextErase[n] >= 0
    <3>1. nextErase[n] - 1 \in Nat \union {-1}
      BY <2>1, <2>2
    <3>2. nextErase' = [nextErase EXCEPT ![n] = nextErase[n] - 1] /\ eraser' = eraser
      BY <2>2 DEF EraseSector
    <3> QED
      BY <3>1, <3>2 DEF TypeOK
  <2>3. CASE ~(nextErase[n] >= 0)
    BY <2>3 DEF TypeOK, EraseSector
  <2> QED
    BY <2>2, <2>3
<1>3. up' \in [Nodes -> Seq(Answers)]
  <2>1. up' = up \/ Answer(n, "erase", None, 0, heard[n] = runs)
    BY DEF EraseSector, Erased
  <2> QED
    BY <2>1, AnswerTypes DEF TypeOK
<1> QED
  BY <1>1, <1>2, <1>3 DEF TypeOK, EraseSector, sendVars

LEMMA StartTypes ==
  ASSUME TypeOK, NEW n \in Nodes, NEW m \in Commands, Start(n, m)
  PROVE  /\ ota_info' \in [Nodes -> Images \union {None}]
         /\ nextErase' \in [Nodes -> Nat \union {-1}]
         /\ eraser' \in [Nodes -> BOOLEAN]
         /\ heard' \in [Nodes -> 0..MaxRuns]
<1>1. m.image \in Images /\ Length[m.image] \in Nat
  BY ImageAssumption DEF Commands
<1>2. Sectors(m.image) \in Nat
  BY <1>1, SizeAssumption DEF Sectors
<1>3. Sectors(m.image) - 1 \in Nat \union {-1}
  BY <1>2
<1> QED
  BY <1>1, <1>3 DEF Start, TypeOK

LEMMA BlockTypes ==
  ASSUME TypeOK, NEW n \in Nodes, NEW m \in Commands, WriteBlock(n, m)
  PROVE  /\ flash' \in [Nodes -> [Addresses -> Bytes]]
         /\ up' \in [Nodes -> Seq(Answers)]
<1> DEFINE len == BlockLen(m.image, m.pos)
           cells == [a \in Addresses |->
                       IF a \in m.pos..(m.pos + len - 1)
                       THEN Written(flash[n][a], Byte(m.image, a))
                       ELSE flash[n][a]]
<1>1. m.image \in Images /\ m.pos \in Nat
  BY DEF Commands
<1>2. \/ flash' = flash /\ up' = up
      \/ /\ flash' = flash \/ flash' = [flash EXCEPT ![n] = cells]
         /\ Answer(n, "md5", m.image, m.pos, TRUE)
  BY DEF WriteBlock
<1>3. cells \in [Addresses -> Bytes]
  <2>1. ASSUME NEW a \in Addresses, a \in m.pos..(m.pos + len - 1)
        PROVE  Written(flash[n][a], Byte(m.image, a)) \in Bytes
    <3>1. a \in Nat
      BY <1>1, <2>1, AddressTypes
    <3> QED
      BY <1>1, <3>1, ByteTypes, BlankTypes DEF Written
  <2> QED
    BY <2>1 DEF TypeOK
<1> HIDE DEF cells
<1> QED
  BY <1>1, <1>2, <1>3, AnswerTypes DEF TypeOK

\* What a flash command boots is an image.
LEMMA CheckedRegion ==
  ASSUME TypeOK, NEW n \in Nodes, check_ota_md5(n)
  PROVE  ota_info[n] \in Images /\ Region(n) = Whole(ota_info[n])
BY DEF TypeOK, check_ota_md5

LEMMA FlashTypes ==
  ASSUME TypeOK, NEW n \in Nodes, NEW m \in Commands, Flash(n, m)
  PROVE  /\ ebcmd' \in [Nodes -> EbootCommands]
         /\ \A k \in Nodes : ebcmd'[k].len <= Space[k]
<1>1. CASE UNCHANGED ebcmd
  BY <1>1 DEF TypeOK
<1>2. CASE check_ota_md5(n)
  <2> DEFINE command == [len |-> Length[ota_info[n]], sent |-> m.image,
                         listed |-> n \in m.listed, own |-> n \in m.own,
                         erasing |-> eraser[n]]
  <2>1. ebcmd' = [ebcmd EXCEPT ![n] = command]
    BY <1>2 DEF Flash
  <2>2. Length[ota_info[n]] \in Nat /\ Length[ota_info[n]] <= Space[n]
    BY <1>2, CheckedRegion, ImageAssumption DEF check_ota_md5
  <2>3. command \in EbootCommands /\ command.len <= Space[n]
    BY <2>2 DEF Commands, TypeOK, EbootCommands
  <2> HIDE DEF command
  <2> QED
    BY <2>1, <2>3 DEF TypeOK
<1> QED
  BY <1>1, <1>2 DEF Flash

\* What eboot copies is read from the flash.
LEMMA CopiedTypes ==
  ASSUME TypeOK, NEW n \in Nodes
  PROVE  [k \in 1..ebcmd[n].len |-> flash[n][k - 1]] \in Seq(Bytes)
<1>1. ebcmd[n].len \in Nat /\ ebcmd[n].len <= Space[n]
  BY DEF TypeOK, EbootCommands
<1>2. ASSUME NEW k \in 1..ebcmd[n].len
      PROVE  flash[n][k - 1] \in Bytes
  <2>1. k - 1 \in 0..(Space[n] + BlockSize)
    BY <1>1, SpaceAssumption, SizeAssumption
  <2>2. k - 1 \in Addresses
    BY <2>1 DEF Addresses
  <2> QED
    BY <2>2 DEF TypeOK
<1> QED
  BY <1>1, <1>2, SeqDef

LEMMA ResetTypes ==
  ASSUME TypeOK, NEW n \in Nodes, ResetNode(n)
  PROVE  /\ ota_info' \in [Nodes -> Images \union {None}]
         /\ nextErase' \in [Nodes -> Nat \union {-1}]
         /\ eraser' \in [Nodes -> BOOLEAN]
         /\ ebcmd' \in [Nodes -> EbootCommands]
         /\ \A k \in Nodes : ebcmd'[k].len <= Space[k]
<1>1. NoCommand \in EbootCommands /\ NoCommand.len <= Space[n]
  BY SpaceAssumption DEF NoCommand, EbootCommands
<1> QED
  BY <1>1 DEF TypeOK, ResetNode

LEMMA BootTypes ==
  ASSUME TypeOK, NEW n \in Nodes, Boot(n)
  PROVE  TypeOK'
<1> DEFINE copied == [k \in 1..ebcmd[n].len |-> flash[n][k - 1]]
           cells == [a \in Addresses |-> IF a < Space[n] THEN Mixed ELSE flash[n][a]]
<1>1. /\ booted' = [booted EXCEPT ![n] = [cells |-> copied, by |-> ebcmd[n]]]
      /\ flash' = [flash EXCEPT ![n] = cells]
  BY DEF Boot
<1>2. copied \in Seq(Bytes) /\ cells \in [Addresses -> Bytes]
  BY CopiedTypes, BlankTypes DEF TypeOK
<1> HIDE DEF copied, cells
<1>3. /\ booted' \in [Nodes -> [cells : Seq(Bytes), by : EbootCommands]]
      /\ flash' \in [Nodes -> [Addresses -> Bytes]]
  BY <1>1, <1>2 DEF TypeOK
<1> QED
  BY <1>3, ResetTypes DEF TypeOK, Boot, sendVars

LEMMA HandleTypes ==
  ASSUME TypeOK, NEW n \in Nodes, Handle(n)
  PROVE  TypeOK'
<1> DEFINE m == Head(down[n])
<1>1. /\ m \in Commands
      /\ down' \in [Nodes -> Seq(Commands)]
  <2>1. down[n] \in Seq(Commands) /\ down[n] # <<>>
    BY DEF TypeOK, Handle
  <2>2. Head(down[n]) \in Commands /\ Tail(down[n]) \in Seq(Commands)
    BY <2>1, HeadTailProperties
  <2> QED
    BY <2>2 DEF TypeOK, Handle
<1>2. Start(n, m) \/ WriteBlock(n, m) \/ Check(n, m) \/ Flash(n, m)
  BY DEF Handle
<1>3. UNCHANGED sendVars
  BY DEF Handle
<1> HIDE DEF m
<1>4. CASE Start(n, m)
  BY <1>1, <1>3, <1>4, StartTypes DEF Start, TypeOK, sendVars
<1>5. CASE WriteBlock(n, m)
  BY <1>1, <1>3, <1>5, BlockTypes DEF WriteBlock, TypeOK, sendVars
<1>6. CASE Check(n, m)
  <2>1. check_ota_md5(n) \in BOOLEAN
    BY DEF check_ota_md5
  <2>2. up' \in [Nodes -> Seq(Answers)]
    BY <1>6, <2>1, AnswerTypes DEF Check
  <2> QED
    BY <1>1, <1>3, <1>6, <2>2 DEF Check, TypeOK, sendVars, nodeVars
<1>7. CASE Flash(n, m)
  <2>1. UNCHANGED up
    BY <1>7 DEF Flash
  <2> QED
    BY <1>1, <1>3, <1>7, <2>1, FlashTypes DEF Flash, TypeOK, sendVars
<1> QED
  BY <1>2, <1>4, <1>5, <1>6, <1>7

LEMMA SendStartTypes ==
  ASSUME TypeOK, SendStart
  PROVE  TypeOK'
<1>1. PICK i \in Images :
         /\ image' = i
         /\ \E to \in SUBSET Nodes : \E list \in SUBSET Nodes : SendTo(to, list, i)
  <2>1. PICK i \in Images :
           /\ image' = i
           /\ SendTo(Nodes, {}, i) \/ \E n \in Nodes : SendTo({n}, {n}, i)
    BY DEF SendStart
  <2>2. CASE SendTo(Nodes, {}, i)
    BY <2>1, <2>2
  <2>3. ASSUME NEW n \in Nodes, SendTo({n}, {n}, i)
        PROVE  \E to \in SUBSET Nodes : \E list \in SUBSET Nodes : SendTo(to, list, i)
    <3>1. {n} \in SUBSET Nodes
      OBVIOUS
    <3> QED
      BY <2>3, <3>1
  <2> QED
    BY <2>1, <2>2, <2>3
<1>2. PICK to \in SUBSET Nodes, list \in SUBSET Nodes : SendTo(to, list, i)
  BY <1>1
<1>3. down' \in [Nodes -> Seq(Commands)]
  <2>1. Publish(to, "start", i, 0, {}, {}) /\ {} \in SUBSET Nodes /\ 0 \in Nat
    BY <1>2 DEF SendTo
  <2> QED
    BY <2>1, PublishTypes DEF CommandNames
<1>4. topic' \subseteq Nodes /\ nodes' \subseteq Nodes
  BY <1>2 DEF SendTo
<1>5. 0 <= Length[i] /\ None \notin Images
  BY ImageAssumption
<1>6. runs' \in 0..MaxRuns
  BY BoundAssumption DEF TypeOK, SendStart
<1>7. seen' \in [Nodes -> Answers \union {NoAnswer}]
  BY DEF SendStart, Forget
<1>8. phase' = "erase" /\ pos' = 0
  BY DEF SendStart
<1> QED
  BY <1>1, <1>3, <1>4, <1>5, <1>6, <1>7, <1>8 DEF TypeOK, SendStart, nodeVars

LEMMA TakeTypes ==
  ASSUME TypeOK, NEW n \in Nodes, Take(n)
  PROVE  TypeOK'
<1>1. up[n] \in Seq(Answers) /\ up[n] # <<>>
  BY DEF TypeOK, Take
<1>2. Head(up[n]) \in Answers /\ Tail(up[n]) \in Seq(Answers)
  BY <1>1, HeadTailProperties
<1>3. seen' \in [Nodes -> Answers \union {NoAnswer}]
  BY <1>2 DEF TypeOK, Take
<1>4. up' \in [Nodes -> Seq(Answers)]
  BY <1>2 DEF TypeOK, Take
<1> QED
  BY <1>3, <1>4 DEF TypeOK, Take, nodeVars

\* The next turn of the loop, or the final check.
LEMMA SendBlockTypes ==
  ASSUME TypeOK, image \in Images, NEW p \in Nat, p <= Length[image], SendBlock(p)
  PROVE  /\ down' \in [Nodes -> Seq(Commands)]
         /\ phase' \in {"md5", "check"} /\ pos' \in Nat
         /\ pos' <= Length[image'] /\ image' = image /\ topic' = topic
<1>1. topic \in SUBSET Nodes
  BY DEF TypeOK
<1>2. CASE p < Length[image]
  BY <1>1, <1>2, PublishTypes DEF SendBlock, CommandNames
<1>3. CASE ~(p < Length[image])
  BY <1>1, <1>3, PublishTypes DEF SendBlock, CommandNames
<1> QED
  BY <1>2, <1>3

LEMMA ErasesTypes ==
  ASSUME TypeOK, ErasesSeen
  PROVE  TypeOK'
<1>1. image \in Images /\ Length[image] \in Nat
  BY ImageAssumption DEF TypeOK, ErasesSeen, WaitOver
<1>2. seen' \in [Nodes -> Answers \union {NoAnswer}]
  BY DEF ErasesSeen, Forget
<1>3. CASE Seen = {}
  BY <1>1, <1>2, <1>3 DEF ErasesSeen, Stop, TypeOK, nodeVars
<1>4. CASE Seen # {}
  <2>1. Seen \subseteq Nodes /\ nodes' = Seen /\ SendBlock(0)
    BY <1>4 DEF Seen, ErasesSeen
  <2> QED
    <3>1. 0 <= Length[image]
      BY <1>1
    <3>2. /\ down' \in [Nodes -> Seq(Commands)]
          /\ phase' \in {"md5", "check"} /\ pos' \in Nat
          /\ pos' <= Length[image'] /\ image' = image /\ topic' = topic
      BY <1>1, <2>1, <3>1, SendBlockTypes
    <3>3. UNCHANGED <<nodeVars, up, runs>>
      BY DEF ErasesSeen
    <3>4. image # None
      BY <1>1, ImageAssumption
    <3>5. answered' \subseteq Nodes
      BY DEF ErasesSeen, Seen
    <3> QED
      BY <1>1, <1>2, <2>1, <3>2, <3>3, <3>4, <3>5 DEF TypeOK, nodeVars
<1> QED
  BY <1>3, <1>4

LEMMA BlockSeenTypes ==
  ASSUME TypeOK, BlockSeen
  PROVE  TypeOK'
<1>1. image \in Images /\ Length[image] \in Nat /\ pos \in Nat /\ pos <= Length[image]
  BY ImageAssumption DEF TypeOK, BlockSeen, WaitOver
<1>2. seen' \in [Nodes -> Answers \union {NoAnswer}]
  BY DEF BlockSeen, Forget
<1>3. CASE ~Confirmed
  BY <1>1, <1>2, <1>3 DEF BlockSeen, Stop, TypeOK, nodeVars
<1>4. CASE Confirmed
  <2>1. pos + BlockLen(image, pos) \in Nat /\ pos + BlockLen(image, pos) <= Length[image]
    BY <1>1, SizeAssumption DEF BlockLen
  <2>2. SendBlock(pos + BlockLen(image, pos)) /\ UNCHANGED nodes
    BY <1>4 DEF BlockSeen
  <2> QED
    <3>1. /\ down' \in [Nodes -> Seq(Commands)]
          /\ phase' \in {"md5", "check"} /\ pos' \in Nat
          /\ pos' <= Length[image'] /\ image' = image /\ topic' = topic
      BY <1>1, <2>1, <2>2, SendBlockTypes
    <3>2. UNCHANGED <<nodeVars, up, answered, runs>>
      BY DEF BlockSeen
    <3>3. image # None
      BY <1>1, ImageAssumption
    <3> QED
      BY <1>1, <1>2, <2>2, <3>1, <3>2, <3>3 DEF TypeOK, nodeVars
<1> QED
  BY <1>3, <1>4

LEMMA ChecksTypes ==
  ASSUME TypeOK, ChecksSeen
  PROVE  TypeOK'
<1>1. image \in Images
  BY DEF TypeOK, ChecksSeen, WaitOver
<1>2. seen' \in [Nodes -> Answers \union {NoAnswer}]
  BY DEF ChecksSeen, Forget
<1>3. down' \in [Nodes -> Seq(Commands)]
  <2>1. down' = down \/ Publish(topic, "flash", image, 0, nodes, answered)
    BY DEF ChecksSeen
  <2>2. topic \in SUBSET Nodes /\ nodes \in SUBSET Nodes /\ answered \in SUBSET Nodes
    BY DEF TypeOK
  <2> QED
    BY <1>1, <2>1, <2>2, PublishTypes DEF TypeOK, CommandNames
<1> QED
  BY <1>2, <1>3 DEF ChecksSeen, Stop, TypeOK, nodeVars

\* Of what is on its way, a node that is lost leaves a part.
LEMMA LossTypes ==
  ASSUME TypeOK, NEW n \in Nodes, LoseMessages(n)
  PROVE  down' \in [Nodes -> Seq(Commands)] /\ up' \in [Nodes -> Seq(Answers)]
<1>1. PICK k \in 0..Len(up[n]) : up' = [up EXCEPT ![n] = SubSeq(@, 1, k)]
  BY DEF LoseMessages
<1>2. up[n] \in Seq(Answers) /\ Len(up[n]) \in Nat
  BY LenProperties DEF TypeOK
<1>3. SubSeq(up[n], 1, k) \in Seq(Answers)
  BY <1>2
<1> QED
  BY <1>1, <1>3 DEF TypeOK, LoseMessages

LEMMA LinkLostTypes ==
  ASSUME TypeOK, NEW n \in Nodes, LinkLost(n)
  PROVE  TypeOK'
BY LossTypes DEF LinkLost, TypeOK, sendVars

LEMMA RestartTypes ==
  ASSUME TypeOK, NEW n \in Nodes, Restart(n)
  PROVE  TypeOK'
BY LossTypes, ResetTypes DEF Restart, TypeOK, sendVars

LEMMA StepTypes == TypeOK /\ [Next]_vars => TypeOK'
<1> SUFFICES ASSUME TypeOK, [Next]_vars
             PROVE  TypeOK'
  OBVIOUS
<1>1. CASE Sender
  BY <1>1, SendStartTypes, ErasesTypes, BlockSeenTypes, ChecksTypes DEF Sender
<1>2. ASSUME NEW n \in Nodes,
             \/ Handle(n) \/ EraseSector(n) \/ Boot(n)
             \/ Take(n) \/ LinkLost(n) \/ Restart(n)
      PROVE  TypeOK'
  BY <1>2, HandleTypes, BootTypes, EraseTypes, TakeTypes, LinkLostTypes, RestartTypes
<1>3. CASE UNCHANGED vars
  BY <1>3 DEF vars, nodeVars, sendVars, TypeOK
<1> QED
  BY <1>1, <1>2, <1>3 DEF Next

\* Type correctness of nodes, program and channels, whatever the sizes.
THEOREM OtaTypes == Spec => []TypeOK
<1>1. Init => TypeOK
  BY InitTypes
<1>2. TypeOK /\ [Next]_vars => TypeOK'
  BY StepTypes
<1> QED
  BY <1>1, <1>2, PTL DEF Spec

-----------------------------------------------------------------------------
(* What is on its way after a step.                                        *)

LEMMA AppendRange ==
  ASSUME NEW S, NEW s \in Seq(S), NEW e \in S
  PROVE  Range(Append(s, e)) = Range(s) \union {e}
<1>1. /\ Append(s, e) \in Seq(S) /\ Len(Append(s, e)) = Len(s) + 1
      /\ \A i \in 1..Len(s) : Append(s, e)[i] = s[i]
      /\ Append(s, e)[Len(s) + 1] = e
  BY AppendProperties
<1>2. Range(s) = {s[i] : i \in 1..Len(s)}
  BY RangeEquality
<1>3. Range(Append(s, e)) = {Append(s, e)[i] : i \in 1..(Len(s) + 1)}
  BY <1>1, RangeEquality
<1>4. Len(s) \in Nat /\ 1..(Len(s) + 1) = 1..Len(s) \union {Len(s) + 1}
  BY LenProperties
<1> QED
  BY <1>1, <1>2, <1>3, <1>4

LEMMA HeadTailRange ==
  ASSUME NEW S, NEW s \in Seq(S), s # <<>>
  PROVE  Head(s) \in Range(s) /\ Range(Tail(s)) \subseteq Range(s)
<1>1. /\ Tail(s) \in Seq(S) /\ Len(Tail(s)) = Len(s) - 1
      /\ \A i \in 1..Len(Tail(s)) : Tail(s)[i] = s[i + 1]
  BY HeadTailProperties
<1>2. Len(s) \in Nat \ {0} /\ Head(s) = s[1]
  BY LenProperties, EmptySeq
<1>3. Range(s) = {s[i] : i \in 1..Len(s)}
  BY RangeEquality
<1>4. Range(Tail(s)) = {Tail(s)[i] : i \in 1..Len(Tail(s))}
  BY <1>1, RangeEquality
<1>5. ASSUME NEW i \in 1..Len(Tail(s))
      PROVE  Tail(s)[i] \in Range(s)
  <2>1. i + 1 \in 1..Len(s)
    BY <1>1, <1>2
  <2> QED
    BY <1>1, <1>3, <2>1
<1> QED
  BY <1>2, <1>3, <1>4, <1>5

LEMMA PublishRange ==
  ASSUME TypeOK, NEW to \in SUBSET Nodes, NEW cmd \in CommandNames,
         NEW i \in Images, NEW p \in Nat, NEW list \in SUBSET Nodes,
         NEW own \in SUBSET Nodes, Publish(to, cmd, i, p, list, own),
         NEW n \in Nodes
  PROVE  Range(down'[n]) \subseteq
           Range(down[n]) \union
             {[cmd |-> cmd, image |-> i, pos |-> p, listed |-> list, own |-> own]}
<1> DEFINE m == [cmd |-> cmd, image |-> i, pos |-> p, listed |-> list, own |-> own]
<1>1. m \in Commands
  BY DEF Commands, CommandNames
<1>2. down'[n] = down[n] \/ down'[n] = Append(down[n], m)
  BY DEF Publish
<1> HIDE DEF m
<1>3. Range(Append(down[n], m)) = Range(down[n]) \union {m}
  BY <1>1, AppendRange DEF TypeOK
<1>4. Range(down'[n]) \subseteq Range(down[n]) \union {m}
  BY <1>2, <1>3
<1> QED
  BY <1>4 DEF m

LEMMA AnswerRange ==
  ASSUME TypeOK, NEW n \in Nodes, NEW kind \in {"erase", "md5", "check"},
         NEW i \in Images \union {None}, NEW p \in Nat, NEW ok \in BOOLEAN,
         Answer(n, kind, i, p, ok), NEW k \in Nodes
  PROVE  Range(up'[k]) \subseteq
           Range(up[k]) \union
             (IF k = n THEN {[kind |-> kind, image |-> i, pos |-> p, ok |-> ok]}
                       ELSE {})
<1> DEFINE a == [kind |-> kind, image |-> i, pos |-> p, ok |-> ok]
<1>1. a \in Answers
  BY DEF Answers
<1>2. up' = [up EXCEPT ![n] = Append(@, a)]
  BY DEF Answer
<1> HIDE DEF a
<1>3. Range(Append(up[n], a)) = Range(up[n]) \union {a}
  BY <1>1, AppendRange DEF TypeOK
<1>4. up'[k] = IF k = n THEN Append(up[n], a) ELSE up[k]
  BY <1>2 DEF TypeOK
<1>5. Range(up'[k]) \subseteq Range(up[k]) \union (IF k = n THEN {a} ELSE {})
  BY <1>3, <1>4
<1> QED
  BY <1>5 DEF a

LEMMA LossRange ==
  ASSUME TypeOK, NEW n \in Nodes, LoseMessages(n), NEW k \in Nodes
  PROVE  Range(down'[k]) \subseteq Range(down[k]) /\ Range(up'[k]) \subseteq Range(up[k])
<1>1. down'[k] = <<>> \/ down'[k] = down[k]
  BY DEF LoseMessages, TypeOK
<1>2. PICK j \in 0..Len(up[n]) : up' = [up EXCEPT ![n] = SubSeq(@, 1, j)]
  BY DEF LoseMessages
<1>3. Range(<<>>) = {}
  BY DEF Range
<1>4. Range(SubSeq(up[n], 1, j)) \subseteq Range(up[n])
  <2>1. up[n] \in Seq(Answers) /\ Len(up[n]) \in Nat
    BY LenProperties DEF TypeOK
  <2>2. /\ SubSeq(up[n], 1, j) \in Seq(Answers)
        /\ Len(SubSeq(up[n], 1, j)) = j
        /\ \A i \in 1..j : SubSeq(up[n], 1, j)[i] = up[n][i]
    BY <2>1
  <2>3. Range(SubSeq(up[n], 1, j)) = {SubSeq(up[n], 1, j)[i] : i \in 1..j}
    BY <2>2, RangeEquality
  <2>4. Range(up[n]) = {up[n][i] : i \in 1..Len(up[n])}
    BY <2>1, RangeEquality
  <2> QED
    BY <2>1, <2>2, <2>3, <2>4
<1> QED
  BY <1>1, <1>2, <1>3, <1>4 DEF TypeOK

-----------------------------------------------------------------------------
(* What eboot copies.                                                      *)
(*                                                                         *)
(* A start command is the first thing on its way to a node and a flash     *)
(* command the last, so nothing is on its way to a node that is to be      *)
(* copied, and nothing but an eraser that was at work when it was checked  *)
(* changes its flash.  An eraser that answered the start command of the    *)
(* run under way is none: once the answer is sent, no start is on its way  *)
(* to arm another, which holds of the answers on their way, of those seen  *)
(* and of the lists that go with a flash command.                          *)

NoStart(n) == \A i \in 1..Len(down[n]) : down[n][i].cmd # "start"
Settled(n) == ~eraser[n] /\ NoStart(n)

Ordered(s, ph) ==
    \A i \in 1..Len(s) :
        /\ s[i].cmd = "start" => i = 1
        /\ s[i].cmd = "flash" => i = Len(s) /\ ph = "idle"

OrderOK == \A n \in Nodes : Ordered(down[n], phase)
HeardOK == \A n \in Nodes : heard[n] <= runs /\ (heard[n] = runs => NoStart(n))
OwnOK ==
    \A n \in Nodes :
        /\ \A a \in Range(up[n]) : a.kind = "erase" /\ a.ok => Settled(n)
        /\ phase = "erase" /\ seen[n].ok => Settled(n)
        /\ n \in answered => Settled(n)
        /\ \A i \in 1..Len(down[n]) :
              down[n][i].cmd = "flash" /\ n \in down[n][i].own => Settled(n)

\* What eboot would copy now.
Pending(n) == [k \in 1..ebcmd[n].len |-> flash[n][k - 1]]

PendingOK(n) ==
    /\ down[n] = <<>> /\ phase = "idle" /\ (eraser[n] => ebcmd[n].erasing)
    /\ \E i \in Images : WholeBut(Pending(n), i, ebcmd[n].erasing)
    /\ ebcmd[n].listed /\ ebcmd[n].own => ~ebcmd[n].erasing
EbootOK == \A n \in Nodes : ebcmd[n] # NoCommand => PendingOK(n)

EInv == OrderOK /\ HeardOK /\ OwnOK /\ EbootOK

LEMMA InitEInv == Init => EInv
<1> SUFFICES ASSUME Init
             PROVE  EInv
  OBVIOUS
<1>1. \A n \in Nodes : /\ Len(down[n]) = 0 /\ heard[n] = 0 /\ ebcmd[n] = NoCommand
                       /\ up[n] = <<>> /\ seen[n] = NoAnswer
  BY DEF Init
<1>2. Range(<<>>) = {}
  BY DEF Range
<1>3. runs = 0 /\ answered = {} /\ phase = "idle"
  BY DEF Init
<1> QED
  BY <1>1, <1>2, <1>3
     DEF EInv, OrderOK, Ordered, HeardOK, NoStart, OwnOK, EbootOK

-----------------------------------------------------------------------------
(* Steps but SendStart.                                                    *)

\* What the sender appends.
LEMMA Sends ==
  ASSUME TypeOK, ErasesSeen \/ BlockSeen \/ ChecksSeen
  PROVE  /\ phase # "idle" /\ UNCHANGED <<nodeVars, up, runs>>
         /\ \E m \in Commands :
               /\ m.cmd \in {"block", "check", "flash"}
               /\ m.cmd = "flash" => phase' = "idle" /\ m.own = answered
               /\ \A n \in Nodes : down'[n] \in {down[n], Append(down[n], m)}
<1>1. /\ phase \in {"erase", "md5", "check"} /\ UNCHANGED <<nodeVars, up, runs>>
      /\ image \in Images
  BY DEF ErasesSeen, BlockSeen, ChecksSeen, WaitOver, TypeOK
<1> DEFINE Sent(cmd, p, list, own) ==
             [cmd |-> cmd, image |-> image, pos |-> p, listed |-> list, own |-> own]
<1>2. CASE down' = down
  <2>1. Sent("check", 0, {}, {}) \in Commands
    BY <1>1 DEF Commands
  <2>2. Sent("check", 0, {}, {}).cmd = "check"
    OBVIOUS
  <2> QED
    BY <1>1, <1>2, <2>1, <2>2
<1>3. ASSUME NEW p \in Nat, SendBlock(p)
      PROVE  \E m \in Commands :
               /\ m.cmd \in {"block", "check"}
               /\ \A n \in Nodes : down'[n] \in {down[n], Append(down[n], m)}
  <2>1. CASE p < Length[image]
    <3>1. Sent("block", p, {}, {}) \in Commands
      BY <1>1 DEF Commands
    <3>2. Publish(topic, "block", image, p, {}, {})
      BY <1>3, <2>1 DEF SendBlock
    <3> QED
      BY <3>1, <3>2 DEF Publish
  <2>2. CASE ~(p < Length[image])
    <3>1. Sent("check", 0, {}, {}) \in Commands
      BY <1>1 DEF Commands
    <3>2. Publish(topic, "check", image, 0, {}, {})
      BY <1>3, <2>2 DEF SendBlock
    <3> QED
      BY <3>1, <3>2 DEF Publish
  <2> QED
    BY <2>1, <2>2
<1>4. CASE Publish(topic, "flash", image, 0, nodes, answered) /\ phase' = "idle"
  <2> DEFINE m == Sent("flash", 0, nodes, answered)
  <2>1. m \in Commands /\ m.cmd = "flash" /\ m.own = answered
    BY <1>1 DEF Commands, TypeOK
  <2>2. \A n \in Nodes : down'[n] \in {down[n], Append(down[n], m)}
    BY <1>4 DEF Publish
  <2> HIDE DEF m
  <2> QED
    BY <1>1, <1>4, <2>1, <2>2
<1>5. CASE ErasesSeen /\ down' # down
  <2>1. SendBlock(0)
    BY <1>5 DEF ErasesSeen
  <2> QED
    BY <1>1, <1>3, <2>1
<1>6. CASE BlockSeen /\ down' # down
  <2>1. SendBlock(pos + BlockLen(image, pos))
    BY <1>6 DEF BlockSeen
  <2>2. pos + BlockLen(image, pos) \in Nat
    BY <1>1, ImageAssumption, SizeAssumption DEF BlockLen, TypeOK
  <2> QED
    BY <1>1, <1>3, <2>1, <2>2
<1>7. CASE ChecksSeen /\ down' # down
  BY <1>4, <1>7 DEF ChecksSeen, Stop
<1> QED
  BY <1>2, <1>5, <1>6, <1>7

LEMMA Appended ==
  ASSUME TypeOK, NEW n \in Nodes, NEW m \in Commands
  PROVE  /\ Len(Append(down[n], m)) = Len(down[n]) + 1 /\ Len(down[n]) \in Nat
         /\ \A i \in 1..Len(down[n]) : Append(down[n], m)[i] = down[n][i]
         /\ Append(down[n], m)[Len(down[n]) + 1] = m
<1>1. down[n] \in Seq(Commands)
  BY DEF TypeOK
<1> QED
  BY <1>1, AppendProperties, LenProperties

LEMMA Removed ==
  ASSUME TypeOK, NEW n \in Nodes, Handle(n)
  PROVE  /\ Len(down[n]) \in Nat \ {0} /\ Head(down[n]) = down[n][1]
         /\ Head(down[n]) \in Commands
         /\ Len(down'[n]) = Len(down[n]) - 1
         /\ \A i \in 1..Len(down'[n]) : down'[n][i] = down[n][i + 1]
         /\ \A k \in Nodes \ {n} : down'[k] = down[k]
<1>1. down[n] \in Seq(Commands) /\ down[n] # <<>>
  BY DEF TypeOK, Handle
<1>2. /\ Len(down[n]) \in Nat \ {0} /\ Head(down[n]) = down[n][1]
      /\ Head(down[n]) \in Commands
  BY <1>1, LenProperties, EmptySeq, HeadTailProperties
<1>3. /\ Len(Tail(down[n])) = Len(down[n]) - 1
      /\ \A i \in 1..Len(Tail(down[n])) : Tail(down[n])[i] = down[n][i + 1]
  BY <1>1, HeadTailProperties
<1>4. down'[n] = Tail(down[n]) /\ \A k \in Nodes \ {n} : down'[k] = down[k]
  BY DEF Handle, TypeOK
<1> QED
  BY <1>2, <1>3, <1>4

\* Between the flash command and the copy, only an eraser touches the flash.
LEMMA HandleCommand ==
  ASSUME TypeOK, NEW n \in Nodes, Handle(n)
  PROVE  LET m == Head(down[n]) IN
         /\ UNCHANGED sendVars
         /\ \/ m.cmd = "start" /\ Start(n, m)
            \/ m.cmd = "block" /\ WriteBlock(n, m)
            \/ m.cmd = "check" /\ Check(n, m)
            \/ m.cmd = "flash" /\ Flash(n, m)
BY DEF Handle

LEMMA OtherNode ==
  ASSUME TypeOK, NEW n \in Nodes, NEW k \in Nodes \ {n}, Handle(k)
  PROVE  /\ eraser'[n] = eraser[n] /\ flash'[n] = flash[n]
         /\ ebcmd'[n] = ebcmd[n]
<1> DEFINE m == Head(down[k])
<1>1. Start(k, m) \/ WriteBlock(k, m) \/ Check(k, m) \/ Flash(k, m)
  BY DEF Handle
<1> HIDE DEF m
<1>2. CASE Start(k, m)
  BY <1>2 DEF Start, TypeOK
<1>3. CASE WriteBlock(k, m)
  BY <1>3 DEF WriteBlock, TypeOK
<1>4. CASE Check(k, m)
  BY <1>4 DEF Check, nodeVars
<1>5. CASE Flash(k, m)
  BY <1>5 DEF Flash, TypeOK
<1> QED
  BY <1>1, <1>2, <1>3, <1>4, <1>5

LEMMA OtherSteps ==
  ASSUME TypeOK, NEW k \in Nodes,
         EraseSector(k) \/ Boot(k) \/ Take(k) \/ LinkLost(k) \/ Restart(k)
  PROVE  /\ UNCHANGED <<heard, runs, phase, answered>>
         /\ \A n \in Nodes : eraser'[n] => eraser[n]
         /\ \A n \in Nodes : down'[n] \in {down[n], <<>>}
<1>1. UNCHANGED <<heard, runs, phase, answered>>
  BY DEF EraseSector, Boot, Take, LinkLost, Restart, nodeVars, sendVars
<1>2. \A n \in Nodes : eraser'[n] => eraser[n]
  <2>1. \/ eraser' = eraser \/ eraser' = [eraser EXCEPT ![k] = FALSE]
    BY DEF EraseSector, Boot, Take, LinkLost, Restart, nodeVars, ResetNode
  <2> QED
    BY <2>1 DEF TypeOK
<1>3. \A n \in Nodes : down'[n] \in {down[n], <<>>}
  <2>1. \/ down' = down \/ down' = [down EXCEPT ![k] = <<>>]
    BY DEF EraseSector, Boot, Take, LinkLost, Restart, LoseMessages
  <2> QED
    BY <2>1 DEF TypeOK
<1> QED
  BY <1>1, <1>2, <1>3

Later ==
    ErasesSeen \/ BlockSeen \/ ChecksSeen
      \/ \E k \in Nodes : Handle(k) \/ EraseSector(k) \/ Boot(k) \/ Take(k)
                          \/ LinkLost(k) \/ Restart(k)

\* Without a start command on its way, nothing arms an eraser.
LEMMA KeepSettled ==
  ASSUME TypeOK, Later, NEW n \in Nodes
  PROVE  /\ NoStart(n) => NoStart(n)'
         /\ Settled(n) => Settled(n)'
<1>1. CASE ErasesSeen \/ BlockSeen \/ ChecksSeen
  <2>1. PICK m \in Commands :
           /\ m.cmd \in {"block", "check", "flash"}
           /\ \A k \in Nodes : down'[k] \in {down[k], Append(down[k], m)}
    BY <1>1, Sends
  <2>2. NoStart(n) => NoStart(n)'
    <3> SUFFICES ASSUME NoStart(n), NEW i \in 1..Len(down'[n])
                 PROVE  down'[n][i].cmd # "start"
      BY DEF NoStart
    <3>1. CASE down'[n] = down[n]
      BY <3>1 DEF NoStart
    <3>2. CASE down'[n] = Append(down[n], m)
      <4>1. i \in 1..Len(down[n]) \/ i = Len(down[n]) + 1
        BY <3>2, Appended
      <4> QED
        BY <2>1, <3>2, <4>1, Appended DEF NoStart
    <3> QED
      BY <2>1, <3>1, <3>2
  <2>3. eraser' = eraser
    BY <1>1, Sends DEF nodeVars
  <2> QED
    BY <2>2, <2>3 DEF Settled
<1>2. ASSUME NEW k \in Nodes, Handle(k)
      PROVE  /\ NoStart(n) => NoStart(n)'
             /\ Settled(n) => Settled(n)'
  <2>1. CASE k = n
    <3>1. NoStart(n) => NoStart(n)'
      <4> SUFFICES ASSUME NoStart(n), NEW i \in 1..Len(down'[n])
                   PROVE  down'[n][i].cmd # "start"
        BY DEF NoStart
      <4>1. i + 1 \in 1..Len(down[n]) /\ down'[n][i] = down[n][i + 1]
        BY <1>2, <2>1, Removed
      <4> QED
        BY <4>1 DEF NoStart
    <3>2. NoStart(n) => eraser' = eraser
      <4>1. 1 \in 1..Len(down[n]) /\ Head(down[n]) = down[n][1]
        BY <1>2, <2>1, Removed
      <4>2. NoStart(n) => Head(down[n]).cmd # "start"
        BY <4>1 DEF NoStart
      <4> QED
        BY <1>2, <2>1, <4>2 DEF Handle, WriteBlock, Check, Flash, nodeVars
    <3> QED
      BY <3>1, <3>2 DEF Settled
  <2>2. CASE k # n
    <3>1. down'[n] = down[n]
      BY <1>2, <2>2, Removed
    <3>2. eraser'[n] = eraser[n]
      BY <1>2, <2>2, OtherNode
    <3> QED
      BY <3>1, <3>2 DEF Settled, NoStart
  <2> QED
    BY <2>1, <2>2
<1>3. ASSUME NEW k \in Nodes,
             EraseSector(k) \/ Boot(k) \/ Take(k) \/ LinkLost(k) \/ Restart(k)
      PROVE  /\ NoStart(n) => NoStart(n)'
             /\ Settled(n) => Settled(n)'
  <2>1. (eraser'[n] => eraser[n]) /\ down'[n] \in {down[n], <<>>}
    BY <1>3, OtherSteps
  <2>2. Len(<<>>) = 0
    OBVIOUS
  <2> QED
    BY <2>1, <2>2 DEF Settled, NoStart
<1> QED
  BY <1>1, <1>2, <1>3 DEF Later

-----------------------------------------------------------------------------
(* The invariant, part by part.                                            *)

LEMMA StartEInv ==
  ASSUME TypeOK, EInv, SendStart
  PROVE  EInv'
<1>1. /\ \A n \in Nodes : /\ down[n] = <<>> /\ up'[n] = <<>>
                          /\ ebcmd'[n] = NoCommand /\ heard'[n] = heard[n]
                          /\ seen'[n] = NoAnswer
      /\ runs' = runs + 1 /\ answered' = {} /\ phase' = "erase"
  BY DEF SendStart, NothingOnItsWay, nodeVars, Forget
<1>2. Range(<<>>) = {} /\ Len(<<>>) = 0
  BY DEF Range
<1>3. PICK m : \A n \in Nodes : down'[n] \in {<<>>, <<m>>} /\ m.cmd = "start"
  <2>1. PICK i \in Images, to \in SUBSET Nodes : Publish(to, "start", i, 0, {}, {})
    <3>1. \A n \in Nodes : {n} \in SUBSET Nodes
      OBVIOUS
    <3> QED
      BY <3>1 DEF SendStart, SendTo
  <2> DEFINE m == [cmd |-> "start", image |-> i, pos |-> 0, listed |-> {}, own |-> {}]
  <2>2. \A n \in Nodes : down'[n] \in {<<>>, Append(<<>>, m)}
    BY <1>1, <2>1 DEF Publish
  <2>3. Append(<<>>, m) = <<m>> /\ m.cmd = "start"
    OBVIOUS
  <2> HIDE DEF m
  <2> QED
    BY <2>2, <2>3
<1>4. \A n \in Nodes : \A i \in 1..Len(down'[n]) :
          i = 1 /\ down'[n][i].cmd = "start"
  <2> SUFFICES ASSUME NEW n \in Nodes, NEW i \in 1..Len(down'[n])
               PROVE  i = 1 /\ down'[n][i].cmd = "start"
    OBVIOUS
  <2>1. down'[n] # <<>>
    BY <1>2
  <2>2. down'[n] = <<m>> /\ m.cmd = "start"
    BY <1>3, <2>1
  <2>3. i \in 1..1
    BY <2>2
  <2> QED
    BY <2>2, <2>3
<1>5. OrderOK'
  BY <1>4 DEF OrderOK, Ordered
<1>6. HeardOK'
  <2>1. \A n \in Nodes : heard[n] \in Nat /\ heard[n] <= runs
    <3>1. heard \in [Nodes -> 0..MaxRuns]
      BY DEF TypeOK
    <3>2. \A n \in Nodes : heard[n] <= runs
      BY DEF EInv, HeardOK
    <3>3. 0..MaxRuns \subseteq Nat
      BY BoundAssumption
    <3> QED
      BY <3>1, <3>2, <3>3, Zenon
  <2>2. runs \in Nat
    BY BoundAssumption DEF TypeOK
  <2> QED
    BY <1>1, <2>1, <2>2 DEF HeardOK
<1>7. OwnOK'
  BY <1>1, <1>2, <1>4 DEF OwnOK, NoAnswer
<1>8. EbootOK'
  BY <1>1 DEF EbootOK
<1> QED
  BY <1>5, <1>6, <1>7, <1>8 DEF EInv

LEMMA StepOrder ==
  ASSUME TypeOK, EInv, Later
  PROVE  OrderOK'
<1> SUFFICES ASSUME NEW n \in Nodes
             PROVE  Ordered(down'[n], phase')
  BY DEF OrderOK, Ordered
<1>0. Ordered(down[n], phase)
  BY DEF EInv, OrderOK
<1>1. CASE ErasesSeen \/ BlockSeen \/ ChecksSeen
  <2>1. phase # "idle"
    BY <1>1, Sends
  <2>2. PICK m \in Commands :
           /\ m.cmd \in {"block", "check", "flash"}
           /\ m.cmd = "flash" => phase' = "idle"
           /\ \A k \in Nodes : down'[k] \in {down[k], Append(down[k], m)}
    BY <1>1, Sends
  <2>3. CASE down'[n] = down[n]
    BY <1>0, <2>1, <2>3 DEF Ordered
  <2>4. CASE down'[n] = Append(down[n], m)
    <3> SUFFICES ASSUME NEW i \in 1..Len(down'[n])
                 PROVE  /\ down'[n][i].cmd = "start" => i = 1
                        /\ down'[n][i].cmd = "flash"
                             => i = Len(down'[n]) /\ phase' = "idle"
      BY DEF Ordered
    <3>1. i \in 1..Len(down[n]) \/ i = Len(down[n]) + 1
      BY <2>4, Appended
    <3> QED
      BY <1>0, <2>1, <2>2, <2>4, <3>1, Appended DEF Ordered
  <2> QED
    BY <2>2, <2>3, <2>4
<1>2. ASSUME NEW k \in Nodes, Handle(k)
      PROVE  Ordered(down'[n], phase')
  <2>1. phase' = phase
    BY <1>2 DEF Handle, sendVars
  <2>2. CASE k = n
    <3> SUFFICES ASSUME NEW i \in 1..Len(down'[n])
                 PROVE  /\ down'[n][i].cmd = "start" => i = 1
                        /\ down'[n][i].cmd = "flash"
                             => i = Len(down'[n]) /\ phase' = "idle"
      BY DEF Ordered
    <3>1. /\ i + 1 \in 1..Len(down[n]) /\ down'[n][i] = down[n][i + 1]
          /\ Len(down'[n]) = Len(down[n]) - 1 /\ Len(down[n]) \in Nat
      BY <1>2, <2>2, Removed
    <3> QED
      BY <1>0, <2>1, <3>1 DEF Ordered
  <2>3. CASE k # n
    BY <1>0, <1>2, <2>1, <2>3, Removed
  <2> QED
    BY <2>2, <2>3
<1>3. ASSUME NEW k \in Nodes,
             EraseSector(k) \/ Boot(k) \/ Take(k) \/ LinkLost(k) \/ Restart(k)
      PROVE  Ordered(down'[n], phase')
  <2>1. phase' = phase /\ down'[n] \in {down[n], <<>>}
    BY <1>3, OtherSteps
  <2>2. Len(<<>>) = 0
    OBVIOUS
  <2> QED
    BY <1>0, <2>1, <2>2 DEF Ordered
<1> QED
  BY <1>1, <1>2, <1>3 DEF Later

LEMMA StepHeard ==
  ASSUME TypeOK, EInv, Later
  PROVE  HeardOK'
<1> SUFFICES ASSUME NEW n \in Nodes
             PROVE  heard'[n] <= runs' /\ (heard'[n] = runs' => NoStart(n)')
  BY DEF HeardOK
<1>0. runs \in Nat
  BY BoundAssumption DEF TypeOK
<1>1. ASSUME UNCHANGED <<heard, runs>>
      PROVE  heard'[n] <= runs' /\ (heard'[n] = runs' => NoStart(n)')
  BY <1>1, KeepSettled DEF EInv, HeardOK
<1>2. CASE ErasesSeen \/ BlockSeen \/ ChecksSeen
  BY <1>1, <1>2, Sends DEF nodeVars
<1>3. ASSUME NEW k \in Nodes, Handle(k)
      PROVE  heard'[n] <= runs' /\ (heard'[n] = runs' => NoStart(n)')
  <2>1. runs' = runs
    BY <1>3 DEF Handle, sendVars
  <2>2. CASE heard' = heard
    BY <1>1, <2>1, <2>2
  <2>3. CASE Start(k, Head(down[k])) /\ k # n
    <3>1. heard'[n] = heard[n]
      BY <2>3 DEF Start, TypeOK
    <3> QED
      BY <2>1, <3>1, KeepSettled DEF EInv, HeardOK
  <2>4. CASE Start(k, Head(down[k])) /\ k = n
    <3>1. heard'[n] = runs
      BY <2>4 DEF Start, TypeOK
    <3>2. NoStart(n)'
      <4> SUFFICES ASSUME NEW i \in 1..Len(down'[n])
                   PROVE  down'[n][i].cmd # "start"
        BY DEF NoStart
      <4>1. i + 1 \in 1..Len(down[n]) /\ down'[n][i] = down[n][i + 1] /\ i \in Nat
        BY <1>3, <2>4, Removed
      <4> QED
        BY <4>1 DEF EInv, OrderOK, Ordered
    <3> QED
      BY <1>0, <2>1, <3>1, <3>2
  <2> QED
    BY <1>3, <2>2, <2>3, <2>4 DEF Handle, WriteBlock, Check, Flash, nodeVars
<1>4. ASSUME NEW k \in Nodes,
             EraseSector(k) \/ Boot(k) \/ Take(k) \/ LinkLost(k) \/ Restart(k)
      PROVE  UNCHANGED <<heard, runs>>
  BY <1>4, OtherSteps
<1> QED
  BY <1>1, <1>2, <1>3, <1>4 DEF Later

\* The answers on their way: an eraser is at rest when it answers.
LEMMA StepAnswers ==
  ASSUME TypeOK, EInv, Later, NEW n \in Nodes, NEW a \in Range(up'[n]),
         a.kind = "erase", a.ok
  PROVE  Settled(n)'
<1>1. CASE a \in Range(up[n])
  BY <1>1, KeepSettled DEF EInv, OwnOK
<1>2. CASE ErasesSeen \/ BlockSeen \/ ChecksSeen
  BY <1>1, <1>2, Sends
<1>3. ASSUME NEW k \in Nodes, Handle(k)
      PROVE  Settled(n)'
  <2> DEFINE m == Head(down[k])
  <2>1. m \in Commands
    BY <1>3, Removed
  <2>2. Start(k, m) \/ WriteBlock(k, m) \/ Check(k, m) \/ Flash(k, m)
    BY <1>3 DEF Handle
  <2> HIDE DEF m
  <2>3. CASE up' = up
    BY <1>1, <2>3
  <2>4. CASE WriteBlock(k, m) /\ up' # up
    <3>1. Answer(k, "md5", m.image, m.pos, TRUE) /\ m.image \in Images /\ m.pos \in Nat
      BY <2>1, <2>4 DEF WriteBlock, Commands
    <3> DEFINE sent == [kind |-> "md5", image |-> m.image, pos |-> m.pos, ok |-> TRUE]
    <3>3. Range(up'[n]) \subseteq Range(up[n]) \union (IF n = k THEN {sent} ELSE {})
      BY <3>1, AnswerRange
    <3>4. sent.kind = "md5"
      OBVIOUS
    <3> HIDE DEF sent
    <3>2. a \in Range(up[n]) \/ a.kind = "md5"
      BY <3>3, <3>4
    <3> QED
      BY <1>1, <3>2
  <2>5. CASE Check(k, m)
    <3>1. Answer(k, "check", None, 0, check_ota_md5(k)) /\ check_ota_md5(k) \in BOOLEAN
      BY <2>5 DEF Check, check_ota_md5
    <3>2. a \in Range(up[n]) \/ a.kind = "check"
      BY <3>1, AnswerRange
    <3> QED
      BY <1>1, <3>2
  <2> QED
    BY <2>2, <2>3, <2>4, <2>5 DEF Start, Flash
<1>4. ASSUME NEW k \in Nodes, EraseSector(k)
      PROVE  Settled(n)'
  <2>1. CASE up' = up
    BY <1>1, <2>1
  <2>2. CASE up' # up
    <3>1. /\ Answer(k, "erase", None, 0, heard[k] = runs)
          /\ eraser' = [eraser EXCEPT ![k] = FALSE] /\ down' = down
      BY <1>4, <2>2 DEF EraseSector, Erased
    <3> DEFINE own == heard[k] = runs
               sent == [kind |-> "erase", image |-> None, pos |-> 0, ok |-> own]
    <3>4. Range(up'[n]) \subseteq Range(up[n]) \union (IF n = k THEN {sent} ELSE {})
      <4>1. own \in BOOLEAN /\ Answer(k, "erase", None, 0, own)
        BY <3>1
      <4> HIDE DEF own
      <4> QED
        BY <4>1, AnswerRange
    <3>5. sent.ok = (heard[k] = runs)
      OBVIOUS
    <3> HIDE DEF sent
    <3>2. a \in Range(up[n]) \/ (n = k /\ a.ok = (heard[k] = runs))
      BY <3>4, <3>5
    <3>3. CASE n = k /\ a.ok = (heard[k] = runs)
      BY <3>1, <3>3 DEF EInv, HeardOK, Settled, NoStart, TypeOK
    <3> QED
      BY <1>1, <3>2, <3>3
  <2> QED
    BY <2>1, <2>2
<1>5. ASSUME NEW k \in Nodes, Take(k)
      PROVE  Settled(n)'
  <2>1. up[k] \in Seq(Answers) /\ up[k] # <<>> /\ up' = [up EXCEPT ![k] = Tail(@)]
    BY <1>5 DEF Take, TypeOK
  <2>2. Range(up'[n]) \subseteq Range(up[n])
    BY <2>1, HeadTailRange DEF TypeOK
  <2> QED
    BY <1>1, <2>2
<1>6. ASSUME NEW k \in Nodes, LinkLost(k) \/ Restart(k)
      PROVE  Settled(n)'
  <2>1. Range(up'[n]) \subseteq Range(up[n])
    BY <1>6, LossRange DEF LinkLost, Restart
  <2> QED
    BY <1>1, <2>1
<1>7. ASSUME NEW k \in Nodes, Boot(k)
      PROVE  Settled(n)'
  BY <1>1, <1>7 DEF Boot
<1> QED
  BY <1>2, <1>3, <1>4, <1>5, <1>6, <1>7 DEF Later

\* The answers seen and the nodes counted.
LEMMA StepSeen ==
  ASSUME TypeOK, EInv, Later, NEW n \in Nodes
  PROVE  /\ phase' = "erase" /\ seen'[n].ok => Settled(n)'
         /\ n \in answered' => Settled(n)'
<1>0. phase = "erase" /\ seen[n].ok => Settled(n)'
  BY KeepSettled DEF EInv, OwnOK
<1>1. n \in answered => Settled(n)'
  BY KeepSettled DEF EInv, OwnOK
<1>2. CASE ErasesSeen
  <2>1. ~seen'[n].ok
    BY <1>2 DEF ErasesSeen, Forget, NoAnswer
  <2>2. n \in answered' => phase = "erase" /\ seen[n].ok
    BY <1>2 DEF ErasesSeen, WaitOver, Seen
  <2> QED
    BY <1>0, <2>1, <2>2
<1>3. CASE BlockSeen \/ ChecksSeen
  <2>1. ~seen'[n].ok
    BY <1>3 DEF BlockSeen, ChecksSeen, Forget, NoAnswer
  <2>2. answered' = answered
    BY <1>3 DEF BlockSeen, ChecksSeen
  <2> QED
    BY <1>1, <2>1, <2>2
<1>4. ASSUME NEW k \in Nodes, Take(k)
      PROVE  /\ phase' = "erase" /\ seen'[n].ok => Settled(n)'
             /\ n \in answered' => Settled(n)'
  <2>1. UNCHANGED <<phase, answered>>
    BY <1>4 DEF Take
  <2>2. \/ seen'[n] = seen[n]
        \/ n = k /\ seen'[n] = Head(up[n]) /\ Head(up[n]).kind = phase
    BY <1>4 DEF Take, TypeOK
  <2>3. n = k => Head(up[n]) \in Range(up[n])
    BY <1>4, HeadTailRange DEF Take, TypeOK
  <2>4. n = k /\ Head(up[n]).kind = "erase" /\ Head(up[n]).ok => Settled(n)'
    BY <2>3, KeepSettled DEF EInv, OwnOK
  <2> QED
    BY <1>0, <1>1, <2>1, <2>2, <2>4
<1>5. ASSUME UNCHANGED sendVars
      PROVE  /\ phase' = "erase" /\ seen'[n].ok => Settled(n)'
             /\ n \in answered' => Settled(n)'
  BY <1>0, <1>1, <1>5 DEF sendVars
<1>6. ASSUME NEW k \in Nodes,
             Handle(k) \/ EraseSector(k) \/ Boot(k) \/ LinkLost(k) \/ Restart(k)
      PROVE  UNCHANGED sendVars
  BY <1>6 DEF Handle, EraseSector, Boot, LinkLost, Restart
<1> QED
  BY <1>2, <1>3, <1>4, <1>5, <1>6 DEF Later

\* The nodes counted go with the flash command.
LEMMA StepFlashes ==
  ASSUME TypeOK, EInv, Later, NEW n \in Nodes, NEW i \in 1..Len(down'[n]),
         down'[n][i].cmd = "flash", n \in down'[n][i].own
  PROVE  Settled(n)'
<1>0. ASSUME NEW j \in 1..Len(down[n]), down[n][j] = down'[n][i]
      PROVE  Settled(n)'
  BY <1>0, KeepSettled DEF EInv, OwnOK
<1>1. CASE ErasesSeen \/ BlockSeen \/ ChecksSeen
  <2>1. PICK m \in Commands :
           /\ m.cmd = "flash" => m.own = answered
           /\ \A k \in Nodes : down'[k] \in {down[k], Append(down[k], m)}
    BY <1>1, Sends
  <2>2. CASE down'[n] = down[n]
    BY <1>0, <2>2
  <2>3. CASE down'[n] = Append(down[n], m)
    <3>1. i \in 1..Len(down[n]) \/ i = Len(down[n]) + 1
      BY <2>3, Appended
    <3>2. CASE i \in 1..Len(down[n])
      BY <1>0, <2>3, <3>2, Appended
    <3>3. CASE i = Len(down[n]) + 1
      <4>1. down'[n][i] = m
        BY <2>3, <3>3, Appended
      <4> QED
        BY <2>1, <4>1, KeepSettled DEF EInv, OwnOK
    <3> QED
      BY <3>1, <3>2, <3>3
  <2> QED
    BY <2>1, <2>2, <2>3
<1>2. ASSUME NEW k \in Nodes, Handle(k)
      PROVE  Settled(n)'
  <2>1. CASE k = n
    <3>1. i + 1 \in 1..Len(down[n]) /\ down'[n][i] = down[n][i + 1]
      BY <1>2, <2>1, Removed
    <3> QED
      BY <1>0, <3>1
  <2>2. CASE k # n
    BY <1>0, <1>2, <2>2, Removed
  <2> QED
    BY <2>1, <2>2
<1>3. ASSUME NEW k \in Nodes,
             EraseSector(k) \/ Boot(k) \/ Take(k) \/ LinkLost(k) \/ Restart(k)
      PROVE  Settled(n)'
  <2>1. down'[n] \in {down[n], <<>>}
    BY <1>3, OtherSteps
  <2>2. Len(<<>>) = 0
    OBVIOUS
  <2>3. down'[n] = down[n]
    BY <2>1, <2>2
  <2> QED
    BY <1>0, <2>3
<1> QED
  BY <1>1, <1>2, <1>3 DEF Later

LEMMA StepOwn ==
  ASSUME TypeOK, EInv, Later
  PROVE  OwnOK'
BY StepAnswers, StepSeen, StepFlashes DEF OwnOK

\* What is checked on a flash command is an image.
LEMMA FlashPending ==
  ASSUME TypeOK, EInv, NEW n \in Nodes, Handle(n), ebcmd'[n] # ebcmd[n]
  PROVE  LET m == Head(down[n]) IN
         /\ Flash(n, m) /\ down'[n] = <<>> /\ phase' = "idle"
         /\ flash' = flash /\ eraser'[n] = eraser[n]
         /\ check_ota_md5(n)
         /\ ebcmd'[n] = [len |-> Length[ota_info[n]], sent |-> m.image,
                         listed |-> n \in m.listed, own |-> n \in m.own,
                         erasing |-> eraser[n]]
         /\ n \in m.own => ~eraser[n]
<1> DEFINE m == Head(down[n])
<1>1. m.cmd = "flash" /\ Flash(n, m)
  BY DEF Handle, Start, WriteBlock, Check, nodeVars
<1>2. Len(down[n]) \in Nat \ {0} /\ m = down[n][1] /\ Len(down'[n]) = Len(down[n]) - 1
  BY Removed
<1>3. Len(down[n]) = 1 /\ phase = "idle" /\ 1 \in 1..Len(down[n])
  <2>1. 1 \in 1..Len(down[n])
    BY <1>2
  <2>2. Ordered(down[n], phase)
    BY DEF EInv, OrderOK
  <2>3. down[n][1].cmd = "flash"
    BY <1>1, <1>2
  <2>4. 1 = Len(down[n]) /\ phase = "idle"
    BY <2>1, <2>2, <2>3 DEF Ordered
  <2> QED
    BY <2>1, <2>4
<1>4. down'[n] = <<>>
  <2>1. down'[n] \in Seq(Commands)
    BY HandleTypes DEF TypeOK
  <2>2. Len(down'[n]) = 0
    BY <1>2, <1>3
  <2> QED
    BY <2>1, <2>2, EmptySeq
<1>5. phase' = "idle"
  BY <1>3 DEF Handle, sendVars
<1>6. n \in m.own => ~eraser[n]
  BY <1>1, <1>2, <1>3 DEF EInv, OwnOK, Settled
<1> HIDE DEF m
<1>7. /\ check_ota_md5(n) /\ flash' = flash /\ eraser' = eraser
      /\ ebcmd'[n] = [len |-> Length[ota_info[n]], sent |-> m.image,
                      listed |-> n \in m.listed, own |-> n \in m.own,
                      erasing |-> eraser[n]]
  BY <1>1 DEF Flash, TypeOK
<1> QED
  BY <1>1, <1>4, <1>5, <1>6, <1>7 DEF m

\* Behind it, cells are kept or emptied by an eraser at work.
LEMMA KeepPending ==
  ASSUME TypeOK, EInv, Later, NEW n \in Nodes,
         ebcmd[n] # NoCommand, ebcmd'[n] = ebcmd[n]
  PROVE  /\ down'[n] = <<>> /\ phase' = "idle" /\ (eraser'[n] => eraser[n])
         /\ \A k \in 1..ebcmd[n].len :
               \/ flash'[n][k - 1] = flash[n][k - 1]
               \/ flash'[n][k - 1] = Blank /\ ebcmd[n].erasing
<1>1. PendingOK(n)
  BY DEF EInv, EbootOK
<1>2. phase = "idle" /\ down[n] = <<>>
  BY <1>1 DEF PendingOK
<1>3. ~(ErasesSeen \/ BlockSeen \/ ChecksSeen) /\ ~Handle(n)
  BY <1>2, Sends DEF Handle
<1>4. ASSUME NEW k \in Nodes \ {n}, Handle(k)
      PROVE  /\ down'[n] = down[n] /\ phase' = phase /\ eraser'[n] = eraser[n]
             /\ flash'[n] = flash[n]
  <2>1. down'[n] = down[n] /\ phase' = phase
    BY <1>4, Removed DEF Handle, sendVars
  <2>2. eraser'[n] = eraser[n] /\ flash'[n] = flash[n]
    BY <1>4, OtherNode
  <2> QED
    BY <2>1, <2>2
<1>5. ASSUME NEW k \in Nodes,
             EraseSector(k) \/ Boot(k) \/ Take(k) \/ LinkLost(k) \/ Restart(k)
      PROVE  /\ down'[n] = <<>> /\ phase' = phase /\ (eraser'[n] => eraser[n])
             /\ \A j \in 1..ebcmd[n].len :
                   \/ flash'[n][j - 1] = flash[n][j - 1]
                   \/ flash'[n][j - 1] = Blank /\ ebcmd[n].erasing
  <2>1. down'[n] = <<>> /\ phase' = phase /\ (eraser'[n] => eraser[n])
    BY <1>2, <1>5, OtherSteps
  <2>2. CASE flash'[n] = flash[n]
    BY <2>1, <2>2
  <2>3. CASE flash'[n] # flash[n] /\ EraseSector(k)
    <3> DEFINE cells == [a \in Addresses |->
                 IF a \div SectorSize = nextErase[k] THEN Blank ELSE flash[k][a]]
    <3>1. n = k /\ flash' = [flash EXCEPT ![k] = cells] /\ eraser[n]
      BY <2>3 DEF EraseSector, TypeOK
    <3>2. flash'[n] = cells
      BY <3>1 DEF TypeOK
    <3>3. ebcmd[n].erasing
      BY <1>1, <3>1 DEF PendingOK
    <3>4. ASSUME NEW j \in 1..ebcmd[n].len
          PROVE  j - 1 \in Addresses
      <4>1. ebcmd[n].len \in Nat /\ ebcmd[n].len <= Space[n]
        BY DEF TypeOK, EbootCommands
      <4>2. j - 1 \in 0..(Space[n] + BlockSize)
        BY <4>1, SpaceAssumption, SizeAssumption
      <4> QED
        BY <4>2 DEF Addresses
    <3>5. ASSUME NEW j \in 1..ebcmd[n].len
          PROVE  cells[j - 1] \in {flash[n][j - 1], Blank}
      <4>1. j - 1 \in Addresses
        BY <3>4
      <4> QED
        BY <3>1, <4>1
    <3> HIDE DEF cells
    <3> QED
      BY <2>1, <3>2, <3>3, <3>5
  <2>4. CASE flash'[n] # flash[n] /\ Boot(k)
    <3>1. n = k
      BY <2>4 DEF Boot, TypeOK
    <3>2. ebcmd'[n] = NoCommand
      BY <2>4, <3>1 DEF Boot, ResetNode, TypeOK
    <3> QED
      BY <3>2
  <2> QED
    BY <1>5, <2>2, <2>3, <2>4 DEF Take, LinkLost, Restart, nodeVars
<1>6. PICK k \in Nodes : Handle(k) \/ EraseSector(k) \/ Boot(k) \/ Take(k)
                         \/ LinkLost(k) \/ Restart(k)
  BY <1>3 DEF Later
<1>7. CASE Handle(k)
  <2>1. k \in Nodes \ {n}
    BY <1>3, <1>7
  <2> QED
    BY <1>2, <1>4, <1>7, <2>1
<1> QED
  BY <1>2, <1>5, <1>6, <1>7

LEMMA KeepWholeBut ==
  ASSUME TypeOK, EInv, Later, NEW n \in Nodes, NEW i \in Images,
         ebcmd[n] # NoCommand, ebcmd'[n] = ebcmd[n],
         WholeBut(Pending(n), i, ebcmd[n].erasing)
  PROVE  WholeBut(Pending(n)', i, ebcmd[n].erasing)
<1>1. ebcmd[n].len \in Nat
  BY DEF TypeOK, EbootCommands
<1>2. Len(Pending(n)) = ebcmd[n].len /\ Len(Pending(n)') = ebcmd[n].len
  BY <1>1 DEF Pending
<1>3. ebcmd[n].len = Length[i]
  BY <1>2 DEF WholeBut
<1>4. ASSUME NEW k \in 1..Length[i]
      PROVE  Pending(n)'[k] = Byte(i, k - 1)
               \/ (ebcmd[n].erasing /\ Pending(n)'[k] = Blank)
  <2>1. Pending(n)[k] = flash[n][k - 1] /\ Pending(n)'[k] = flash'[n][k - 1]
    BY <1>3 DEF Pending
  <2>2. Pending(n)[k] = Byte(i, k - 1) \/ (ebcmd[n].erasing /\ Pending(n)[k] = Blank)
    BY DEF WholeBut
  <2>3. \/ flash'[n][k - 1] = flash[n][k - 1]
        \/ flash'[n][k - 1] = Blank /\ ebcmd[n].erasing
    BY <1>3, KeepPending
  <2> QED
    BY <2>1, <2>2, <2>3
<1> QED
  BY <1>2, <1>3, <1>4 DEF WholeBut

\* How the eboot_command of a node changes.
LEMMA EbootSteps ==
  ASSUME TypeOK, Later, NEW n \in Nodes
  PROVE  ebcmd'[n] = ebcmd[n] \/ ebcmd'[n] = NoCommand \/ Handle(n)
<1>1. CASE ErasesSeen \/ BlockSeen \/ ChecksSeen
  BY <1>1, Sends DEF nodeVars
<1>2. ASSUME NEW k \in Nodes \ {n}, Handle(k)
      PROVE  ebcmd'[n] = ebcmd[n]
  BY <1>2, OtherNode
<1>3. ASSUME NEW k \in Nodes,
             EraseSector(k) \/ Boot(k) \/ Take(k) \/ LinkLost(k) \/ Restart(k)
      PROVE  ebcmd'[n] = ebcmd[n] \/ ebcmd'[n] = NoCommand
  BY <1>3 DEF EraseSector, Boot, Take, LinkLost, Restart, ResetNode, nodeVars, TypeOK
<1> QED
  BY <1>1, <1>2, <1>3 DEF Later

LEMMA WholeOfItself ==
  ASSUME NEW i \in Images, NEW erasing \in BOOLEAN
  PROVE  WholeBut(Whole(i), i, erasing)
BY ImageAssumption DEF Whole, WholeBut

\* What the check saw is what is pending.
LEMMA PendingChecked ==
  ASSUME TypeOK, EInv, NEW n \in Nodes, Handle(n), ebcmd'[n] # ebcmd[n]
  PROVE  ota_info[n] \in Images /\ Pending(n)' = Whole(ota_info[n])
<1>1. /\ check_ota_md5(n) /\ flash' = flash
      /\ ebcmd'[n].len = Length[ota_info[n]]
  <2> DEFINE m == Head(down[n])
  <2>1. /\ check_ota_md5(n) /\ flash' = flash
        /\ ebcmd'[n] = [len |-> Length[ota_info[n]], sent |-> m.image,
                        listed |-> n \in m.listed, own |-> n \in m.own,
                        erasing |-> eraser[n]]
    BY FlashPending
  <2> HIDE DEF m
  <2> QED
    BY <2>1
<1>2. ota_info[n] \in Images /\ Region(n) = Whole(ota_info[n])
  BY <1>1, CheckedRegion
<1> QED
  BY <1>1, <1>2 DEF Pending, Region

LEMMA StepEboot ==
  ASSUME TypeOK, EInv, Later
  PROVE  EbootOK'
<1> SUFFICES ASSUME NEW n \in Nodes, ebcmd'[n] # NoCommand
             PROVE  PendingOK(n)'
  BY DEF EbootOK, NoCommand
<1>1. CASE ebcmd'[n] = ebcmd[n]
  <2>1. PendingOK(n)
    BY <1>1 DEF EInv, EbootOK
  <2>2. down'[n] = <<>> /\ phase' = "idle" /\ (eraser'[n] => eraser[n])
    BY <1>1, KeepPending
  <2>3. PICK i \in Images : WholeBut(Pending(n), i, ebcmd[n].erasing)
    BY <2>1 DEF PendingOK
  <2>4. WholeBut(Pending(n)', i, ebcmd[n].erasing)
    BY <1>1, <2>3, KeepWholeBut
  <2>5. WholeBut(Pending(n), i, ebcmd[n].erasing)'
    BY <1>1, <2>4 DEF WholeBut, Byte, Blank
  <2> QED
    BY <1>1, <2>1, <2>2, <2>5 DEF PendingOK
<1>2. CASE ebcmd'[n] # ebcmd[n]
  <2>1. Handle(n)
    BY <1>2, EbootSteps
  <2>2. /\ down'[n] = <<>> /\ phase' = "idle" /\ eraser'[n] = eraser[n]
        /\ ebcmd'[n].erasing = eraser[n]
        /\ ebcmd'[n].own => ~eraser[n]
    <3> DEFINE m == Head(down[n])
    <3>1. /\ ebcmd'[n] = [len |-> Length[ota_info[n]], sent |-> m.image,
                          listed |-> n \in m.listed, own |-> n \in m.own,
                          erasing |-> eraser[n]]
          /\ n \in m.own => ~eraser[n]
          /\ down'[n] = <<>> /\ phase' = "idle" /\ eraser'[n] = eraser[n]
      BY <1>2, <2>1, FlashPending
    <3> HIDE DEF m
    <3>2. ebcmd'[n].own = (n \in m.own) /\ ebcmd'[n].erasing = eraser[n]
      BY <3>1
    <3> QED
      BY <3>1, <3>2, Zenon
  <2>3. ota_info[n] \in Images /\ Pending(n)' = Whole(ota_info[n])
    BY <1>2, <2>1, PendingChecked
  <2>4. WholeBut(Whole(ota_info[n]), ota_info[n], eraser[n])
    BY <2>3, WholeOfItself DEF TypeOK
  <2>5. \E i \in Images : WholeBut(Pending(n)', i, ebcmd'[n].erasing)
    BY <2>2, <2>3, <2>4
  <2> QED
    BY <2>2, <2>5 DEF PendingOK, WholeBut, Byte, Blank
<1> QED
  BY <1>1, <1>2

LEMMA StepEInv == TypeOK /\ EInv /\ [Next]_vars => EInv'
<1> SUFFICES ASSUME TypeOK, EInv, [Next]_vars
             PROVE  EInv'
  OBVIOUS
<1>1. CASE SendStart
  BY <1>1, StartEInv
<1>2. CASE Later
  BY <1>2, StepOrder, StepHeard, StepOwn, StepEboot DEF EInv
<1>3. CASE UNCHANGED vars
  <2>1. UNCHANGED <<eraser, flash, ebcmd, heard, phase, seen, answered, runs, down, up>>
    BY <1>3 DEF vars, nodeVars, sendVars
  <2>2. OrderOK' /\ HeardOK' /\ OwnOK'
    BY <2>1 DEF EInv, OrderOK, Ordered, HeardOK, OwnOK, Settled, NoStart
  <2>3. ASSUME NEW n \in Nodes, ebcmd'[n] # NoCommand
        PROVE  PendingOK(n)'
    <3>1. Pending(n)' = Pending(n)
      BY <2>1 DEF Pending
    <3>2. PendingOK(n)
      BY <2>1, <2>3 DEF EInv, EbootOK
    <3>3. PICK i \in Images : WholeBut(Pending(n), i, ebcmd[n].erasing)
      BY <3>2 DEF PendingOK
    <3>4. WholeBut(Pending(n), i, ebcmd[n].erasing)'
      BY <2>1, <3>1, <3>3 DEF WholeBut, Byte, Blank
    <3> QED
      BY <2>1, <3>2, <3>4 DEF PendingOK
  <2>4. EbootOK'
    BY <2>3 DEF EbootOK, NoCommand
  <2> QED
    BY <2>2, <2>4 DEF EInv
<1> QED
  BY <1>1, <1>2, <1>3 DEF Next, Sender, Later

\* A step that boots copies what was pending.
LEMMA BootSteps ==
  ASSUME TypeOK, [Next]_vars, NEW n \in Nodes
  PROVE  \/ booted'[n] = booted[n]
         \/ /\ ebcmd[n] # NoCommand
            /\ booted'[n] = [cells |-> Pending(n), by |-> ebcmd[n]]
<1>1. ASSUME NEW k \in Nodes, Boot(k)
      PROVE  \/ booted'[n] = booted[n]
             \/ /\ ebcmd[n] # NoCommand
                /\ booted'[n] = [cells |-> Pending(n), by |-> ebcmd[n]]
  BY <1>1 DEF Boot, Pending, TypeOK
<1>2. ASSUME NEW k \in Nodes, Handle(k)
      PROVE  booted' = booted
  BY <1>2 DEF Handle, Start, WriteBlock, Check, Flash, nodeVars
<1>3. ASSUME NEW k \in Nodes,
             EraseSector(k) \/ Take(k) \/ LinkLost(k) \/ Restart(k)
      PROVE  booted' = booted
  BY <1>3 DEF EraseSector, Take, LinkLost, Restart, nodeVars
<1>4. CASE Sender
  BY <1>4 DEF Sender, SendStart, ErasesSeen, BlockSeen, ChecksSeen, nodeVars
<1>5. CASE UNCHANGED vars
  BY <1>5 DEF vars, nodeVars
<1> QED
  BY <1>1, <1>2, <1>3, <1>4, <1>5 DEF Next

LEMMA StepOneImage ==
  TypeOK /\ EInv /\ BootsOneImage /\ [Next]_vars => BootsOneImage'
<1> SUFFICES ASSUME TypeOK, EInv, BootsOneImage, [Next]_vars,
                    NEW n \in Nodes, booted'[n].by # NoCommand
             PROVE  /\ \E i \in Images :
                          WholeBut(booted'[n].cells, i, booted'[n].by.erasing)
                    /\ booted'[n].by.listed /\ booted'[n].by.own
                         => ~booted'[n].by.erasing
  BY DEF BootsOneImage, NoCommand, WholeBut, Byte, Blank
<1>1. CASE booted'[n] = booted[n]
  BY <1>1 DEF BootsOneImage
<1>2. CASE /\ ebcmd[n] # NoCommand
           /\ booted'[n] = [cells |-> Pending(n), by |-> ebcmd[n]]
  <2>1. PendingOK(n)
    BY <1>2 DEF EInv, EbootOK
  <2>2. booted'[n].cells = Pending(n) /\ booted'[n].by = ebcmd[n]
    BY <1>2
  <2> QED
    BY <2>1, <2>2 DEF PendingOK
<1> QED
  BY <1>1, <1>2, BootSteps

\* From check_ota_md5() to the copy of eboot: nothing boots parts of two
\* images, whatever is lost or fails, whichever runs cross; and an eraser that
\* empties sectors in between is never one whose answer send_firmware() took
\* for that to its start command where it was.
THEOREM BootsNoOtherImage == Spec => []BootsOneImage
<1>1. Init => EInv /\ BootsOneImage
  BY InitEInv DEF Init, BootsOneImage
<1>2. TypeOK /\ EInv /\ BootsOneImage /\ [Next]_vars => (EInv /\ BootsOneImage)'
  BY StepEInv, StepOneImage
<1> QED
  BY <1>1, <1>2, OtaTypes, PTL DEF Spec

-----------------------------------------------------------------------------
(* A listed node boots what was sent.                                      *)
(*                                                                         *)
(* Everything on its way belongs to the run under way.  Once a node that   *)
(* takes writes has answered the first block of image i, its first cell    *)
(* holds the first byte of no other image, and no message of this run can  *)
(* put one there: check_ota_md5() passes on it for i or not at all.  This  *)
(* holds of the answers still on their way, of those seen and, behind the  *)
(* first block, of every listed node.                                      *)

Sound == Nodes \ BadFlash

\* The node's first cell belongs to no image but the one being sent.
HoldsNoOther(n) == \A i \in Images \ {image} : flash[n][0] # Byte(i, 0)

\* What an answer shows about the node it came from.
Tells(n, a) ==
    a.image \in Images /\ a.image = image /\ a.pos = 0 => HoldsNoOther(n)

CommandsOK ==
    \A n \in Nodes : \A m \in Range(down[n]) :
        /\ m.image = image
        /\ n \in m.listed /\ n \in Sound => HoldsNoOther(n)
AnswersOK == \A n \in Sound : \A a \in Range(up[n]) : Tells(n, a)
SeenOK == \A n \in Sound : Tells(n, seen[n])
ConfirmedOK ==
    phase = "check" \/ (phase = "md5" /\ pos > 0) =>
        \A n \in nodes \intersect Sound : HoldsNoOther(n)

IInv == CommandsOK /\ AnswersOK /\ SeenOK /\ ConfirmedOK

\* The devices refuse an empty file.
NoEmptyImage == \A i \in Images : Length[i] > 0

-----------------------------------------------------------------------------
(* The first cell.                                                         *)

LEMMA NoByte ==
  ASSUME NEW i \in Images
  PROVE  Byte(i, 0) # Blank /\ Byte(i, 0) # Mixed
BY ImageAssumption DEF Byte, Blank, Mixed

LEMMA FirstAddress ==
  ASSUME NEW n \in Nodes
  PROVE  0 \in Addresses
BY SpaceAssumption, SizeAssumption DEF Addresses

\* The actions but SendStart.
LEMMA FirstCell ==
  ASSUME TypeOK, CommandsOK, NEW n \in Nodes, Later
  PROVE  /\ image' = image
         /\ flash'[n][0] \in {flash[n][0], Blank, Mixed, Byte(image, 0)}
<1>1. CASE ErasesSeen \/ BlockSeen \/ ChecksSeen
  BY <1>1 DEF ErasesSeen, BlockSeen, ChecksSeen, Stop, SendBlock, nodeVars
<1>2. ASSUME NEW k \in Nodes, Take(k) \/ LinkLost(k) \/ Restart(k)
      PROVE  image' = image /\ flash' = flash
  BY <1>2 DEF Take, LinkLost, Restart, nodeVars, sendVars
<1>3. ASSUME NEW k \in Nodes, EraseSector(k)
      PROVE  image' = image /\ flash'[n][0] \in {flash[n][0], Blank}
  <2> DEFINE cells == [a \in Addresses |->
               IF a \div SectorSize = nextErase[k] THEN Blank ELSE flash[k][a]]
  <2>1. image' = image /\ (flash' = flash \/ flash' = [flash EXCEPT ![k] = cells])
    BY <1>3 DEF EraseSector, sendVars
  <2>2. cells[0] \in {flash[k][0], Blank}
    BY FirstAddress
  <2> HIDE DEF cells
  <2> QED
    BY <2>1, <2>2 DEF TypeOK
<1>4. ASSUME NEW k \in Nodes, Handle(k)
      PROVE  /\ image' = image
             /\ flash'[n][0] \in {flash[n][0], Mixed, Byte(image, 0)}
  <2> DEFINE m == Head(down[k])
  <2>1. Start(k, m) \/ WriteBlock(k, m) \/ Check(k, m) \/ Flash(k, m)
    BY <1>4 DEF Handle
  <2>2. m.image = image
    BY <1>4, HeadTailRange DEF TypeOK, CommandsOK, Handle
  <2>3. image' = image
    BY <1>4 DEF Handle, sendVars
  <2> HIDE DEF m
  <2>4. CASE Start(k, m) \/ Check(k, m) \/ Flash(k, m)
    BY <2>3, <2>4 DEF Start, Check, Flash, nodeVars
  <2>5. CASE WriteBlock(k, m)
    <3> DEFINE cells == [a \in Addresses |->
                 IF a \in m.pos..(m.pos + BlockLen(m.image, m.pos) - 1)
                 THEN Written(flash[k][a], Byte(m.image, a)) ELSE flash[k][a]]
    <3>1. flash' = flash \/ flash' = [flash EXCEPT ![k] = cells]
      BY <2>5 DEF WriteBlock
    <3>2. cells[0] \in {flash[k][0], Mixed, Byte(image, 0)}
      BY <2>2, FirstAddress DEF Written
    <3> HIDE DEF cells
    <3> QED
      BY <2>3, <3>1, <3>2 DEF TypeOK
  <2> QED
    BY <2>1, <2>4, <2>5
<1>5. ASSUME NEW k \in Nodes, Boot(k)
      PROVE  image' = image /\ flash'[n][0] \in {flash[n][0], Mixed}
  <2> DEFINE cells == [a \in Addresses |-> IF a < Space[k] THEN Mixed ELSE flash[k][a]]
  <2>1. image' = image /\ flash' = [flash EXCEPT ![k] = cells]
    BY <1>5 DEF Boot, sendVars
  <2>2. cells[0] \in {flash[k][0], Mixed}
    BY FirstAddress
  <2> HIDE DEF cells
  <2> QED
    BY <2>1, <2>2 DEF TypeOK
<1> QED
  BY <1>1, <1>2, <1>3, <1>4, <1>5 DEF Later

Kept == \A n \in Nodes : HoldsNoOther(n) => HoldsNoOther(n)'

LEMMA StepKept ==
  ASSUME TypeOK, CommandsOK, Later
  PROVE  Kept
<1> SUFFICES ASSUME NEW n \in Nodes, HoldsNoOther(n), NEW i \in Images \ {image'}
             PROVE  flash'[n][0] # Byte(i, 0)
  BY DEF Kept, HoldsNoOther, Byte
<1>1. image' = image /\ flash'[n][0] \in {flash[n][0], Blank, Mixed, Byte(image, 0)}
  BY FirstCell
<1>2. flash[n][0] # Byte(i, 0)
  BY <1>1 DEF HoldsNoOther
<1>3. Byte(i, 0) # Byte(image, 0)
  BY <1>1 DEF Byte
<1> QED
  BY <1>1, <1>2, <1>3, NoByte

\* A block at the front of the image takes the first cell.
LEMMA FirstBlock ==
  ASSUME TypeOK, NoEmptyImage, NEW n \in Sound, NEW m \in Commands,
         WriteBlock(n, m), Fits(n, m.pos, BlockLen(m.image, m.pos)),
         m.pos = 0, m.image = image, image' = image
  PROVE  HoldsNoOther(n)'
<1>1. n \in Nodes /\ n \notin BadFlash
  BY DEF Sound
<1>2. m.image \in Images /\ BlockLen(m.image, 0) \in 1..Length[m.image]
  BY BlockLenBounds, ImageAssumption DEF Commands, NoEmptyImage
<1>3. 0 \in m.pos..(m.pos + BlockLen(m.image, m.pos) - 1)
  BY <1>2
<1> DEFINE cells == [a \in Addresses |->
             IF a \in m.pos..(m.pos + BlockLen(m.image, m.pos) - 1)
             THEN Written(flash[n][a], Byte(m.image, a)) ELSE flash[n][a]]
<1>4. flash' = [flash EXCEPT ![n] = cells]
  BY <1>1 DEF WriteBlock
<1>5. cells[0] \in {Mixed, Byte(image, 0)}
  BY <1>1, <1>3, FirstAddress DEF Written
<1> HIDE DEF cells
<1>6. flash'[n][0] \in {Mixed, Byte(image, 0)}
  BY <1>1, <1>4, <1>5 DEF TypeOK
<1>7. ASSUME NEW i \in Images \ {image'}
      PROVE  flash'[n][0] # Byte(i, 0)
  <2>1. Byte(i, 0) # Byte(image, 0)
    BY <1>7 DEF Byte
  <2> QED
    BY <1>6, <2>1, NoByte
<1> QED
  BY <1>7 DEF HoldsNoOther, Byte

-----------------------------------------------------------------------------
(* The invariant, part by part.                                            *)

LEMMA InitInv == Init => IInv
<1> SUFFICES ASSUME Init
             PROVE  IInv
  OBVIOUS
<1>1. Range(<<>>) = {}
  BY DEF Range
<1>2. \A n \in Nodes : down[n] = <<>> /\ up[n] = <<>> /\ seen[n] = NoAnswer
  BY DEF Init
<1>3. None \notin Images
  BY ImageAssumption
<1>4. CommandsOK /\ AnswersOK
  BY <1>1, <1>2 DEF CommandsOK, AnswersOK, Sound
<1>5. SeenOK
  BY <1>2, <1>3 DEF SeenOK, Tells, NoAnswer, Sound
<1>6. ConfirmedOK
  BY DEF ConfirmedOK, Init
<1> QED
  BY <1>4, <1>5, <1>6 DEF IInv

LEMMA KeepCommands ==
  ASSUME CommandsOK, Kept, image' = image,
         \A n \in Nodes : Range(down'[n]) \subseteq Range(down[n])
  PROVE  CommandsOK'
BY DEF CommandsOK, Kept, Sound

LEMMA KeepAnswers ==
  ASSUME AnswersOK, Kept, image' = image,
         \A n \in Nodes : Range(up'[n]) \subseteq Range(up[n])
  PROVE  AnswersOK'
BY DEF AnswersOK, Kept, Sound, Tells

LEMMA KeepSeen ==
  ASSUME SeenOK, Kept, image' = image, seen' = seen
  PROVE  SeenOK'
BY DEF SeenOK, Kept, Sound, Tells

LEMMA ForgetSeen ==
  ASSUME Forget
  PROVE  SeenOK'
<1>1. \A n \in Nodes : seen'[n] = NoAnswer
  BY DEF Forget
<1>2. NoAnswer.image \notin Images
  BY ImageAssumption DEF NoAnswer
<1> QED
  BY <1>1, <1>2 DEF SeenOK, Sound, Tells, NoAnswer

LEMMA KeepConfirmed ==
  ASSUME ConfirmedOK, Kept, TypeOK, UNCHANGED <<phase, pos, nodes>>
  PROVE  ConfirmedOK'
BY DEF ConfirmedOK, Kept, Sound

\* A command without a list of nodes claims nothing.
LEMMA PlainCommand ==
  ASSUME TypeOK, CommandsOK, Kept, image' = image, image \in Images,
         NEW cmd \in CommandNames, NEW p \in Nat,
         Publish(topic, cmd, image, p, {}, {})
  PROVE  CommandsOK'
<1> DEFINE m == [cmd |-> cmd, image |-> image, pos |-> p, listed |-> {}, own |-> {}]
<1>1. m.image = image /\ m.listed = {}
  OBVIOUS
<1>2. topic \in SUBSET Nodes /\ {} \in SUBSET Nodes
  BY DEF TypeOK
<1>3. ASSUME NEW n \in Nodes
      PROVE  Range(down'[n]) \subseteq Range(down[n]) \union {m}
  BY <1>2, PublishRange
<1> HIDE DEF m
<1> QED
  BY <1>1, <1>3 DEF CommandsOK, Kept, Sound

LEMMA SendBlockCommands ==
  ASSUME TypeOK, CommandsOK, Kept, image' = image, image \in Images,
         NEW p \in Nat, SendBlock(p)
  PROVE  CommandsOK'
<1>1. CASE p < Length[image]
  BY <1>1, PlainCommand DEF SendBlock, CommandNames
<1>2. CASE ~(p < Length[image])
  BY <1>2, PlainCommand DEF SendBlock, CommandNames
<1> QED
  BY <1>1, <1>2

LEMMA SendStartInv ==
  ASSUME TypeOK, IInv, SendStart
  PROVE  IInv'
<1>1. \A n \in Nodes : down[n] = <<>> /\ up'[n] = <<>>
  BY DEF SendStart, NothingOnItsWay
<1>2. Range(<<>>) = {}
  BY DEF Range
<1>3. AnswersOK'
  BY <1>1, <1>2 DEF AnswersOK, Sound
<1>4. SeenOK'
  BY ForgetSeen DEF SendStart
<1>5. ConfirmedOK'
  BY DEF ConfirmedOK, SendStart
<1>6. CommandsOK'
  <2>1. PICK i \in Images :
           /\ image' = i
           /\ \/ Publish(Nodes, "start", i, 0, {}, {})
              \/ \E n \in Nodes : Publish({n}, "start", i, 0, {}, {})
    BY DEF SendStart, SendTo
  <2>2. PICK to \in SUBSET Nodes : Publish(to, "start", i, 0, {}, {})
    <3>1. \A n \in Nodes : {n} \in SUBSET Nodes
      OBVIOUS
    <3> QED
      BY <2>1, <3>1
  <2> DEFINE m == [cmd |-> "start", image |-> i, pos |-> 0, listed |-> {}, own |-> {}]
  <2>3. m.image = image' /\ m.listed = {}
    BY <2>1
  <2>4. \A n \in Nodes : Range(down'[n]) \subseteq Range(down[n]) \union {m}
    BY <2>2, PublishRange DEF CommandNames
  <2>5. \A n \in Nodes : Range(down'[n]) \subseteq {m}
    BY <1>1, <1>2, <2>4
  <2> HIDE DEF m
  <2> QED
    BY <2>3, <2>5 DEF CommandsOK
<1> QED
  BY <1>3, <1>4, <1>5, <1>6 DEF IInv

LEMMA ErasesInv ==
  ASSUME TypeOK, IInv, NoEmptyImage, ErasesSeen
  PROVE  IInv'
<1>1. Kept /\ image' = image /\ up' = up
  <2>1. image' = image /\ up' = up
    BY DEF ErasesSeen, Stop, SendBlock
  <2> QED
    BY <2>1, StepKept DEF IInv, Later
<1>2. image \in Images
  BY DEF TypeOK, ErasesSeen, WaitOver
<1>3. AnswersOK' /\ SeenOK'
  BY <1>1, KeepAnswers, ForgetSeen DEF IInv, ErasesSeen
<1>4. CASE Seen = {}
  BY <1>1, <1>3, <1>4, KeepCommands DEF IInv, ErasesSeen, Stop, ConfirmedOK
<1>5. CASE Seen # {}
  <2>1. SendBlock(0)
    BY <1>5 DEF ErasesSeen
  <2>2. CommandsOK'
    BY <1>1, <1>2, <2>1, SendBlockCommands DEF IInv
  <2>3. ConfirmedOK'
    <3>1. phase' = "md5" /\ pos' = 0
      BY <1>2, <2>1 DEF SendBlock, NoEmptyImage
    <3> QED
      BY <3>1 DEF ConfirmedOK
  <2> QED
    BY <1>3, <2>2, <2>3 DEF IInv
<1> QED
  BY <1>4, <1>5

LEMMA BlockSeenInv ==
  ASSUME TypeOK, IInv, NoEmptyImage, BlockSeen
  PROVE  IInv'
<1>1. Kept /\ image' = image /\ up' = up
  <2>1. image' = image /\ up' = up
    BY DEF BlockSeen, Stop, SendBlock
  <2> QED
    BY <2>1, StepKept DEF IInv, Later
<1>2. image \in Images /\ pos \in Nat /\ phase = "md5"
  BY DEF TypeOK, BlockSeen, WaitOver
<1>3. AnswersOK' /\ SeenOK'
  BY <1>1, KeepAnswers, ForgetSeen DEF IInv, BlockSeen
<1>4. CASE ~Confirmed
  BY <1>1, <1>3, <1>4, KeepCommands DEF IInv, BlockSeen, Stop, ConfirmedOK
<1>5. CASE Confirmed
  <2>1. SendBlock(pos + BlockLen(image, pos)) /\ nodes' = nodes
    BY <1>5 DEF BlockSeen
  <2>2. pos + BlockLen(image, pos) \in Nat
    BY <1>2, ImageAssumption, SizeAssumption DEF BlockLen, TypeOK
  <2>3. CommandsOK'
    BY <1>1, <1>2, <2>1, <2>2, SendBlockCommands DEF IInv
  <2>4. ASSUME NEW n \in nodes \intersect Sound
        PROVE  HoldsNoOther(n)
    <3>1. CASE pos = 0
      BY <1>2, <1>5, <2>4, <3>1 DEF Confirmed, IInv, SeenOK, Tells
    <3>2. CASE pos > 0
      BY <1>2, <2>4, <3>2 DEF IInv, ConfirmedOK
    <3> QED
      BY <1>2, <3>1, <3>2
  <2>5. ConfirmedOK'
    BY <1>1, <2>1, <2>4 DEF ConfirmedOK, Kept, Sound
  <2> QED
    BY <1>3, <2>3, <2>5 DEF IInv
<1> QED
  BY <1>4, <1>5

LEMMA ChecksInv ==
  ASSUME TypeOK, IInv, ChecksSeen
  PROVE  IInv'
<1>1. Kept /\ image' = image /\ up' = up /\ phase' = "idle"
  <2>1. image' = image /\ up' = up /\ phase' = "idle"
    BY DEF ChecksSeen, Stop
  <2> QED
    BY <2>1, StepKept DEF IInv, Later
<1>2. image \in Images /\ phase = "check"
  BY DEF TypeOK, ChecksSeen, WaitOver
<1>3. AnswersOK' /\ SeenOK' /\ ConfirmedOK'
  BY <1>1, KeepAnswers, ForgetSeen DEF IInv, ChecksSeen, ConfirmedOK
<1>4. CASE down' = down
  BY <1>1, <1>3, <1>4, KeepCommands DEF IInv
<1>5. CASE Publish(topic, "flash", image, 0, nodes, answered)
  <2> DEFINE m == [cmd |-> "flash", image |-> image, pos |-> 0, listed |-> nodes,
                  own |-> answered]
  <2>1. m.image = image /\ m.listed = nodes
    OBVIOUS
  <2>2. topic \in SUBSET Nodes /\ nodes \in SUBSET Nodes /\ answered \in SUBSET Nodes
    BY DEF TypeOK
  <2>3. ASSUME NEW n \in Nodes
        PROVE  Range(down'[n]) \subseteq Range(down[n]) \union {m}
    <3>1. 0 \in Nat /\ "flash" \in CommandNames
      BY DEF CommandNames
    <3> QED
      BY <1>2, <1>5, <2>2, <3>1, PublishRange, Zenon
  <2>4. \A n \in nodes \intersect Sound : HoldsNoOther(n)
    BY <1>2 DEF IInv, ConfirmedOK
  <2> HIDE DEF m
  <2>5. CommandsOK'
    BY <1>1, <2>1, <2>3, <2>4 DEF IInv, CommandsOK, Kept, Sound
  <2> QED
    BY <1>3, <2>5 DEF IInv
<1> QED
  BY <1>4, <1>5 DEF ChecksSeen

LEMMA TakeInv ==
  ASSUME TypeOK, IInv, NEW n \in Nodes, Take(n)
  PROVE  IInv'
<1>1. Kept /\ image' = image /\ down' = down /\ UNCHANGED <<phase, pos, nodes>>
  <2>1. image' = image /\ down' = down /\ UNCHANGED <<phase, pos, nodes>>
    BY DEF Take
  <2> QED
    BY <2>1, StepKept DEF IInv, Later
<1>2. Head(up[n]) \in Range(up[n]) /\ Range(Tail(up[n])) \subseteq Range(up[n])
  BY HeadTailRange DEF TypeOK, Take
<1>3. \A k \in Nodes : Range(up'[k]) \subseteq Range(up[k])
  BY <1>2 DEF TypeOK, Take
<1>4. CommandsOK' /\ AnswersOK' /\ ConfirmedOK'
  BY <1>1, <1>3, KeepCommands, KeepAnswers, KeepConfirmed DEF IInv
<1>5. SeenOK'
  <2>1. ASSUME NEW k \in Sound
        PROVE  seen'[k] = seen[k] \/ (k = n /\ seen'[k] = Head(up[n]))
    BY DEF Take, TypeOK, Sound
  <2>2. n \in Sound => Tells(n, Head(up[n]))
    BY <1>2 DEF IInv, AnswersOK
  <2> QED
    BY <1>1, <2>1, <2>2 DEF IInv, SeenOK, Tells, Kept, Sound
<1> QED
  BY <1>4, <1>5 DEF IInv

LEMMA EraseInv ==
  ASSUME TypeOK, IInv, NEW n \in Nodes, EraseSector(n)
  PROVE  IInv'
<1>1. Kept /\ image' = image /\ down' = down /\ UNCHANGED sendVars
  <2>1. image' = image /\ down' = down /\ UNCHANGED sendVars
    BY DEF EraseSector, sendVars
  <2> QED
    BY <2>1, StepKept DEF IInv, Later
<1>2. CommandsOK' /\ SeenOK' /\ ConfirmedOK'
  BY <1>1, KeepCommands, KeepSeen, KeepConfirmed DEF IInv, sendVars
<1>3. CASE up' = up
  BY <1>1, <1>2, <1>3, KeepAnswers DEF IInv
<1>4. CASE Answer(n, "erase", None, 0, heard[n] = runs)
  <2> DEFINE a == [kind |-> "erase", image |-> None, pos |-> 0, ok |-> heard[n] = runs]
  <2>1. a.image \notin Images
    BY ImageAssumption
  <2>2. ASSUME NEW k \in Nodes
        PROVE  Range(up'[k]) \subseteq Range(up[k]) \union {a}
    BY <1>4, AnswerRange
  <2> HIDE DEF a
  <2>3. AnswersOK'
    BY <1>1, <2>1, <2>2 DEF IInv, AnswersOK, Tells, Kept, Sound
  <2> QED
    BY <1>2, <2>3 DEF IInv
<1> QED
  BY <1>3, <1>4 DEF EraseSector, Erased

LEMMA HandleInv ==
  ASSUME TypeOK, IInv, NoEmptyImage, NEW n \in Nodes, Handle(n)
  PROVE  IInv'
<1> DEFINE m == Head(down[n])
<1>1. Kept /\ image' = image /\ UNCHANGED sendVars
  <2>1. image' = image /\ UNCHANGED sendVars
    BY DEF Handle, sendVars
  <2> QED
    BY <2>1, StepKept DEF IInv, Later
<1>2. down[n] \in Seq(Commands) /\ down[n] # <<>>
  BY DEF TypeOK, Handle
<1>3. m \in Range(down[n]) /\ Range(Tail(down[n])) \subseteq Range(down[n])
  BY <1>2, HeadTailRange
<1>4. m \in Commands /\ m.image = image
  BY <1>2, <1>3, HeadTailProperties DEF IInv, CommandsOK
<1>5. \A k \in Nodes : Range(down'[k]) \subseteq Range(down[k])
  BY <1>3 DEF TypeOK, Handle
<1>6. CommandsOK' /\ SeenOK' /\ ConfirmedOK'
  BY <1>1, <1>5, KeepCommands, KeepSeen, KeepConfirmed DEF IInv, sendVars
<1>7. Start(n, m) \/ WriteBlock(n, m) \/ Check(n, m) \/ Flash(n, m)
  BY DEF Handle
<1> HIDE DEF m
<1>8. CASE up' = up
  BY <1>1, <1>6, <1>8, KeepAnswers DEF IInv
<1>9. CASE WriteBlock(n, m) /\ up' # up
  <2> DEFINE a == [kind |-> "md5", image |-> m.image, pos |-> m.pos, ok |-> TRUE]
  <2>1. Answer(n, "md5", m.image, m.pos, TRUE) /\ Fits(n, m.pos, BlockLen(m.image, m.pos))
    BY <1>9 DEF WriteBlock
  <2>2. m.image \in Images /\ m.pos \in Nat
    BY <1>4 DEF Commands
  <2>3. ASSUME NEW k \in Nodes
        PROVE  Range(up'[k]) \subseteq Range(up[k]) \union (IF k = n THEN {a} ELSE {})
    BY <2>1, <2>2, AnswerRange
  <2>4. a.pos = m.pos
    OBVIOUS
  <2>5. ASSUME n \in Sound, m.pos = 0
        PROVE  HoldsNoOther(n)'
    BY <1>1, <1>4, <1>9, <2>1, <2>5, FirstBlock
  <2> HIDE DEF a
  <2>6. AnswersOK'
    BY <1>1, <2>3, <2>4, <2>5 DEF IInv, AnswersOK, Tells, Kept, Sound
  <2> QED
    BY <1>6, <2>6 DEF IInv
<1>10. CASE Check(n, m)
  <2> DEFINE a == [kind |-> "check", image |-> None, pos |-> 0, ok |-> check_ota_md5(n)]
  <2>1. a.image \notin Images
    BY ImageAssumption
  <2>2. check_ota_md5(n) \in BOOLEAN
    BY DEF check_ota_md5
  <2>3. ASSUME NEW k \in Nodes
        PROVE  Range(up'[k]) \subseteq Range(up[k]) \union {a}
    BY <1>10, <2>2, AnswerRange DEF Check
  <2> HIDE DEF a
  <2>4. AnswersOK'
    BY <1>1, <2>1, <2>3 DEF IInv, AnswersOK, Tells, Kept, Sound
  <2> QED
    BY <1>6, <2>4 DEF IInv
<1> QED
  BY <1>7, <1>8, <1>9, <1>10 DEF Start, Flash

LEMMA LossInv ==
  ASSUME TypeOK, IInv, NEW n \in Nodes, LinkLost(n) \/ Restart(n)
  PROVE  IInv'
<1>1. Kept /\ UNCHANGED sendVars /\ image' = image
  <2>1. UNCHANGED sendVars /\ image' = image
    BY DEF LinkLost, Restart, sendVars
  <2> QED
    BY <2>1, StepKept DEF IInv, Later
<1>2. \A k \in Nodes : /\ Range(down'[k]) \subseteq Range(down[k])
                       /\ Range(up'[k]) \subseteq Range(up[k])
  BY LossRange DEF LinkLost, Restart
<1> QED
  BY <1>1, <1>2, KeepCommands, KeepAnswers, KeepSeen, KeepConfirmed
     DEF IInv, sendVars

LEMMA BootInv ==
  ASSUME TypeOK, IInv, NEW n \in Nodes, Boot(n)
  PROVE  IInv'
<1>1. UNCHANGED sendVars /\ down' = down /\ up' = up /\ image' = image
  BY DEF Boot, sendVars
<1>2. Kept
  BY StepKept DEF IInv, Later
<1> QED
  BY <1>1, <1>2, KeepCommands, KeepAnswers, KeepSeen, KeepConfirmed
     DEF IInv, sendVars

LEMMA StepInv == NoEmptyImage /\ TypeOK /\ IInv /\ [Next]_vars => IInv'
<1> SUFFICES ASSUME NoEmptyImage, TypeOK, IInv, [Next]_vars
             PROVE  IInv'
  OBVIOUS
<1>1. CASE Sender
  BY <1>1, SendStartInv, ErasesInv, BlockSeenInv, ChecksInv DEF Sender
<1>2. ASSUME NEW n \in Nodes,
             \/ Handle(n) \/ EraseSector(n) \/ Boot(n)
             \/ Take(n) \/ LinkLost(n) \/ Restart(n)
      PROVE  IInv'
  BY <1>2, HandleInv, EraseInv, BootInv, TakeInv, LossInv
<1>3. CASE UNCHANGED vars
  BY <1>3 DEF vars, nodeVars, sendVars, IInv, CommandsOK, AnswersOK, SeenOK,
              ConfirmedOK, Tells, HoldsNoOther
<1> QED
  BY <1>1, <1>2, <1>3 DEF Next

-----------------------------------------------------------------------------

\* What eboot is to copy on a listed node.
PendingListed ==
    \A n \in Sound : ebcmd[n].listed =>
        /\ ebcmd[n].sent \in Images
        /\ WholeBut(Pending(n), ebcmd[n].sent, ebcmd[n].erasing)

LEMMA StepPending ==
  ASSUME NoEmptyImage, TypeOK, EInv, IInv, PendingListed, [Next]_vars
  PROVE  PendingListed'
<1> SUFFICES ASSUME NEW n \in Nodes, n \notin BadFlash, ebcmd'[n].listed
             PROVE  /\ ebcmd'[n].sent \in Images
                    /\ WholeBut(Pending(n)', ebcmd'[n].sent, ebcmd'[n].erasing)
  BY DEF PendingListed, Sound, WholeBut, Byte, Blank
<1>1. ebcmd'[n] # NoCommand
  BY DEF NoCommand
<1>2. CASE SendStart
  BY <1>1, <1>2 DEF SendStart, NothingOnItsWay, nodeVars
<1>3. CASE Later /\ ebcmd'[n] = ebcmd[n]
  <2>1. /\ ebcmd[n].sent \in Images
        /\ WholeBut(Pending(n), ebcmd[n].sent, ebcmd[n].erasing)
    BY <1>3 DEF PendingListed, Sound
  <2> QED
    BY <1>1, <1>3, <2>1, KeepWholeBut
<1>4. CASE Later /\ ebcmd'[n] # ebcmd[n]
  <2> DEFINE m == Head(down[n])
  <2>1. Handle(n)
    BY <1>1, <1>4, EbootSteps
  <2>2. down[n] \in Seq(Commands) /\ down[n] # <<>>
    BY <2>1 DEF TypeOK, Handle
  <2>3. m \in Range(down[n]) /\ m \in Commands
    BY <2>2, HeadTailRange, HeadTailProperties
  <2>4. /\ m.image \in Images /\ m.image = image
        /\ n \in m.listed => HoldsNoOther(n)
    BY <2>3 DEF IInv, CommandsOK, Sound, Commands
  <2>5. /\ ebcmd'[n] = [len |-> Length[ota_info[n]], sent |-> m.image,
                        listed |-> n \in m.listed, own |-> n \in m.own,
                        erasing |-> eraser[n]]
        /\ check_ota_md5(n)
    BY <1>4, <2>1, FlashPending
  <2> HIDE DEF m
  <2>6. n \in m.listed /\ ebcmd'[n].sent = m.image /\ ebcmd'[n].erasing = eraser[n]
    <3> DEFINE listed == n \in m.listed
    <3>1. ebcmd'[n] = [len |-> Length[ota_info[n]], sent |-> m.image,
                       listed |-> listed, own |-> n \in m.own,
                       erasing |-> eraser[n]]
      BY <2>5
    <3> HIDE DEF listed
    <3>3. ebcmd'[n].listed = listed
      BY <3>1
    <3>2. n \in m.listed
      BY <3>3, Zenon DEF listed
    <3> QED
      BY <2>5, <3>2
  <2>7. ota_info[n] \in Images /\ Region(n) = Whole(ota_info[n])
    BY <2>5, CheckedRegion
  <2>8. ota_info[n] = image
    <3>1. 1 \in 1..Length[ota_info[n]]
      BY <2>7, ImageAssumption DEF NoEmptyImage
    <3>2. Region(n)[1] = flash[n][0] /\ Whole(ota_info[n])[1] = Byte(ota_info[n], 0)
      BY <3>1 DEF Region, Whole
    <3> QED
      BY <2>4, <2>6, <2>7, <3>2 DEF HoldsNoOther
  <2>9. Pending(n)' = Whole(ota_info[n])
    BY <1>4, <2>1, PendingChecked
  <2>10. WholeBut(Whole(ota_info[n]), ota_info[n], eraser[n])
    BY <2>7, WholeOfItself DEF TypeOK
  <2> QED
    BY <2>4, <2>6, <2>8, <2>9, <2>10
<1>5. CASE UNCHANGED vars
  <2>1. UNCHANGED <<ebcmd, flash>>
    BY <1>5 DEF vars, nodeVars
  <2>2. Pending(n)' = Pending(n) /\ ebcmd'[n] = ebcmd[n]
    BY <2>1 DEF Pending
  <2> QED
    BY <2>2 DEF PendingListed, Sound
<1> QED
  BY <1>2, <1>3, <1>4, <1>5 DEF Next, Sender, Later

LEMMA StepListed ==
  ASSUME TypeOK, PendingListed, ListedNodesBootWhatWasSent, [Next]_vars
  PROVE  ListedNodesBootWhatWasSent'
<1> SUFFICES ASSUME NEW n \in Nodes, n \notin BadFlash, booted'[n].by.listed
             PROVE  WholeBut(booted'[n].cells, booted'[n].by.sent,
                             booted'[n].by.erasing)
  BY DEF ListedNodesBootWhatWasSent, WholeBut, Byte, Blank
<1>1. CASE booted'[n] = booted[n]
  BY <1>1 DEF ListedNodesBootWhatWasSent
<1>2. CASE booted'[n] = [cells |-> Pending(n), by |-> ebcmd[n]]
  BY <1>2 DEF PendingListed, Sound
<1> QED
  BY <1>1, <1>2, BootSteps

\* send_firmware()'s list of updated nodes: if no image is empty, a listed
\* node that takes writes boots on the flash command the image of that run,
\* but for what an eraser at work empties, however often the program ran
\* before and whatever of it was lost.
THEOREM ListedNodesUpdated ==
  ASSUME NoEmptyImage
  PROVE  Spec => []ListedNodesBootWhatWasSent
<1> DEFINE Inv == EInv /\ IInv /\ PendingListed /\ ListedNodesBootWhatWasSent
<1>1. Init => Inv
  <2>1. Init => EInv /\ IInv
    BY InitEInv, InitInv
  <2>2. Init => PendingListed /\ ListedNodesBootWhatWasSent
    BY DEF Init, PendingListed, Sound, ListedNodesBootWhatWasSent, NoCommand
  <2> QED
    BY <2>1, <2>2
<1>2. TypeOK /\ Inv /\ [Next]_vars => Inv'
  BY StepEInv, StepInv, StepPending, StepListed
<1>3. Inv => ListedNodesBootWhatWasSent
  OBVIOUS
<1> HIDE DEF Inv
<1> QED
  BY <1>1, <1>2, <1>3, OtaTypes, PTL DEF Spec

-----------------------------------------------------------------------------
(* Base64.                                                                 *)

LEMMA LookedUp ==
  ASSUME NEW v \in Sextet
  PROVE  b64_lookup(Alphabet(v)) = v /\ Alphabet(v) # Equals
BY DEF Sextet, b64_lookup, Alphabet, Equals

LEMMA LookupByte == \A c : b64_lookup(c) \in ByteValue
<1> SUFFICES ASSUME NEW c PROVE b64_lookup(c) \in ByteValue
  OBVIOUS
<1>1. CASE c \in 65..90 \/ c \in 97..122 \/ c \in 48..57
  BY <1>1 DEF b64_lookup, ByteValue
<1>2. CASE ~(c \in 65..90 \/ c \in 97..122 \/ c \in 48..57)
  BY <1>2 DEF b64_lookup, ByteValue
<1> QED
  BY <1>1, <1>2

LEMMA Sextets ==
  ASSUME NEW a \in ByteValue, NEW b \in ByteValue, NEW c \in ByteValue,
         NEW q \in 0..3
  PROVE  a3_to_a4(a, b, c, q) \in Sextet
BY DEF ByteValue, Sextet, a3_to_a4

\* Each byte of a group comes back from two of its sextets.
LEMMA BytesOfSextets ==
  ASSUME NEW a \in ByteValue, NEW b \in ByteValue, NEW c \in ByteValue,
         NEW x \in ByteValue, NEW y \in ByteValue
  PROVE  /\ a4_to_a3(a3_to_a4(a, b, c, 0), a3_to_a4(a, b, c, 1), x, y, 0) = a
         /\ a4_to_a3(x, a3_to_a4(a, b, c, 1), a3_to_a4(a, b, c, 2), y, 1) = b
         /\ a4_to_a3(x, y, a3_to_a4(a, b, c, 2), a3_to_a4(a, b, c, 3), 2) = c
<1>1. a4_to_a3(a3_to_a4(a, b, c, 0), a3_to_a4(a, b, c, 1), x, y, 0) = a
  BY DEF ByteValue, a3_to_a4, a4_to_a3
<1>2. a4_to_a3(x, a3_to_a4(a, b, c, 1), a3_to_a4(a, b, c, 2), y, 1) = b
  BY DEF ByteValue, a3_to_a4, a4_to_a3
<1>3. a4_to_a3(x, y, a3_to_a4(a, b, c, 2), a3_to_a4(a, b, c, 3), 2) = c
  BY DEF ByteValue, a3_to_a4, a4_to_a3
<1> QED
  BY <1>1, <1>2, <1>3

\* How many characters of the encoding of n bytes are not '='.
Chars(n) == 4 * (n \div 3) + (IF n % 3 = 0 THEN 0 ELSE (n % 3) + 1)

LEMMA Lengths ==
  ASSUME NEW n \in Nat
  PROVE  /\ Chars(n) \in 0..base64_enc_len(n)
         /\ base64_enc_len(n) \in Nat
         /\ Yield(Chars(n)) = n
         /\ \A p \in 1..base64_enc_len(n) :
              3 * ((p - 1) \div 4) + ((p - 1) % 4) > n <=> p > Chars(n)
BY DEF Chars, base64_enc_len, Yield

LEMMA EndUnique ==
  ASSUME NEW chars, Len(chars) \in Nat, NEW m \in 0..Len(chars), IsEnd(chars, m)
  PROVE  End(chars) = m
<1>1. IsEnd(chars, End(chars)) /\ End(chars) \in 0..Len(chars)
  BY DEF End
<1> QED
  BY <1>1 DEF IsEnd

LEMMA PaddedByte ==
  ASSUME NEW bytes \in Seq(ByteValue), NEW i \in Nat \ {0}
  PROVE  Padded(bytes, i) \in ByteValue
<1>1. CASE i <= Len(bytes)
  BY <1>1 DEF Padded
<1>2. CASE ~(i <= Len(bytes))
  BY <1>2 DEF Padded, ByteValue
<1> QED
  BY <1>1, <1>2

LEMMA EncodedEnd ==
  ASSUME NEW bytes \in Seq(ByteValue)
  PROVE  End(base64_encode(bytes)) = Chars(Len(bytes))
<1> DEFINE n == Len(bytes)
           chars == base64_encode(bytes)
<1>1. n \in Nat /\ base64_enc_len(n) \in Nat
  BY Lengths
<1>2. Len(chars) = base64_enc_len(n)
  BY <1>1 DEF base64_encode
<1>3. ASSUME NEW p \in 1..base64_enc_len(n)
      PROVE  chars[p] = Equals <=> p > Chars(n)
  <2> DEFINE g == (p - 1) \div 4
             q == (p - 1) % 4
  <2>1. g \in Nat /\ q \in 0..3
    BY <1>1
  <2>2. chars[p] = EncodedAt(bytes, g, q)
    BY DEF base64_encode
  <2>3. CASE p > Chars(n)
    BY <1>1, <2>2, <2>3, Lengths DEF EncodedAt
  <2>4. CASE ~(p > Chars(n))
    <3>1. ~(3 * g + q > n)
      BY <1>1, <2>4, Lengths
    <3>2. /\ Padded(bytes, 3 * g + 1) \in ByteValue
          /\ Padded(bytes, 3 * g + 2) \in ByteValue
          /\ Padded(bytes, 3 * g + 3) \in ByteValue
      BY <2>1, PaddedByte
    <3> QED
      BY <2>1, <2>2, <2>4, <3>1, <3>2, Sextets, LookedUp DEF EncodedAt
  <2> QED
    BY <2>3, <2>4
<1>4. Chars(n) \in 0..Len(chars) /\ IsEnd(chars, Chars(n))
  <2>1. Chars(n) \in 0..base64_enc_len(n)
    BY <1>1, Lengths
  <2> QED
    BY <1>1, <1>2, <1>3, <2>1 DEF IsEnd
<1> QED
  BY <1>1, <1>2, <1>4, EndUnique

\* What is encoded and decoded again is what it was, whatever its length:
\* the blocks of a firmware image arrive as they were cut.
THEOREM DecodesWhatWasEncoded ==
  ASSUME NEW bytes \in Seq(ByteValue)
  PROVE  base64_decode(base64_encode(bytes)) = bytes
<1> DEFINE n == Len(bytes)
           chars == base64_encode(bytes)
           m == Chars(n)
<1>1. n \in Nat /\ base64_enc_len(n) \in Nat /\ m \in 0..base64_enc_len(n)
  BY Lengths
<1>2. base64_decode(chars) =
        [d \in 1..n |-> DecodedAt(chars, m, (d - 1) \div 3, (d - 1) % 3)]
  BY <1>1, EncodedEnd, Lengths DEF base64_decode
<1>3. ASSUME NEW d \in 1..n
      PROVE  DecodedAt(chars, m, (d - 1) \div 3, (d - 1) % 3) = bytes[d]
  <2> DEFINE g == (d - 1) \div 3
             k == (d - 1) % 3
             a == Padded(bytes, 3 * g + 1)
             b == Padded(bytes, 3 * g + 2)
             c == Padded(bytes, 3 * g + 3)
  <2>1. g \in Nat /\ k \in 0..2 /\ d = 3 * g + k + 1
    BY <1>1
  <2>2. a \in ByteValue /\ b \in ByteValue /\ c \in ByteValue
    BY <2>1, PaddedByte
  <2>3. ASSUME NEW q \in 0..3, q <= k + 1
        PROVE  Looked(chars, m, 4 * g + q + 1) = a3_to_a4(a, b, c, q)
    <3> DEFINE p == 4 * g + q + 1
    <3>1. p \in 1..m /\ p \in 1..base64_enc_len(n)
      <4> DEFINE t == n \div 3
                 r == n % 3
      <4>1. t \in Nat /\ r \in 0..2 /\ n = 3 * t + r
        BY <1>1
      <4>2. 3 * g + q <= 3 * t + r /\ g <= t
        BY <1>1, <2>1, <2>3, <4>1
      <4>0. q <= r \/ g < t
        BY <2>1, <2>3, <4>1, <4>2
      <4>5. r # 0 \/ g < t
        BY <1>1, <2>1, <4>1, <4>2
      <4> HIDE DEF g, k, t, r
      <4>3. p <= m
        <5>1. m = 4 * t + (IF r = 0 THEN 0 ELSE r + 1)
          BY DEF Chars, t, r
        <5>2. CASE g = t
          BY <2>1, <2>3, <4>0, <4>1, <4>5, <5>1, <5>2
        <5>3. CASE g < t
          BY <2>1, <2>3, <4>1, <5>1, <5>3
        <5> QED
          BY <2>1, <4>1, <4>2, <5>2, <5>3
      <4> QED
        BY <1>1, <2>1, <2>3, <4>3
    <3>2. (p - 1) \div 4 = g /\ (p - 1) % 4 = q
      BY <2>1
    <3>3. chars[p] = EncodedAt(bytes, g, q)
      BY <3>1, <3>2 DEF base64_encode
    <3>4. ~(3 * g + q > n)
      BY <1>1, <2>1, <2>3
    <3>5. chars[p] = Alphabet(a3_to_a4(a, b, c, q))
      BY <3>3, <3>4 DEF EncodedAt
    <3> QED
      BY <2>2, <3>1, <3>5, Sextets, LookedUp DEF Looked
  <2>4. \A i \in Nat : Looked(chars, m, i) \in ByteValue
    BY LookupByte DEF Looked
  <2>5. DecodedAt(chars, m, g, k) =
          a4_to_a3(Looked(chars, m, 4 * g + 1), Looked(chars, m, 4 * g + 2),
                   Looked(chars, m, 4 * g + 3), Looked(chars, m, 4 * g + 4), k)
    BY DEF DecodedAt
  <2>6. CASE k = 0
    <3>1. /\ Looked(chars, m, 4 * g + 1) = a3_to_a4(a, b, c, 0)
          /\ Looked(chars, m, 4 * g + 2) = a3_to_a4(a, b, c, 1)
      <4>1. Looked(chars, m, 4 * g + 0 + 1) = a3_to_a4(a, b, c, 0)
        BY <2>3, <2>6
      <4>2. Looked(chars, m, 4 * g + 1 + 1) = a3_to_a4(a, b, c, 1)
        BY <2>3, <2>6
      <4> QED
        BY <2>1, <4>1, <4>2
    <3>2. a = bytes[d]
      BY <2>1, <2>6 DEF Padded
    <3> QED
      <4>1. /\ Looked(chars, m, 4 * g + 3) \in ByteValue
            /\ Looked(chars, m, 4 * g + 4) \in ByteValue
        BY <2>1, <2>4
      <4> QED
        BY <2>2, <2>5, <2>6, <3>1, <3>2, <4>1, BytesOfSextets
  <2>7. CASE k = 1
    <3>1. /\ Looked(chars, m, 4 * g + 2) = a3_to_a4(a, b, c, 1)
          /\ Looked(chars, m, 4 * g + 3) = a3_to_a4(a, b, c, 2)
      <4>1. Looked(chars, m, 4 * g + 1 + 1) = a3_to_a4(a, b, c, 1)
        BY <2>3, <2>7
      <4>2. Looked(chars, m, 4 * g + 2 + 1) = a3_to_a4(a, b, c, 2)
        BY <2>3, <2>7
      <4> QED
        BY <2>1, <4>1, <4>2
    <3>2. b = bytes[d]
      BY <2>1, <2>7 DEF Padded
    <3> QED
      <4>1. /\ Looked(chars, m, 4 * g + 1) \in ByteValue
            /\ Looked(chars, m, 4 * g + 4) \in ByteValue
        BY <2>1, <2>4
      <4> QED
        BY <2>2, <2>5, <2>7, <3>1, <3>2, <4>1, BytesOfSextets
  <2>8. CASE k = 2
    <3>1. /\ Looked(chars, m, 4 * g + 3) = a3_to_a4(a, b, c, 2)
          /\ Looked(chars, m, 4 * g + 4) = a3_to_a4(a, b, c, 3)
      <4>1. Looked(chars, m, 4 * g + 2 + 1) = a3_to_a4(a, b, c, 2)
        BY <2>3, <2>8
      <4>2. Looked(chars, m, 4 * g + 3 + 1) = a3_to_a4(a, b, c, 3)
        BY <2>3, <2>8
      <4> QED
        BY <2>1, <4>1, <4>2
    <3>2. c = bytes[d]
      BY <2>1, <2>8 DEF Padded
    <3> QED
      <4>1. /\ Looked(chars, m, 4 * g + 1) \in ByteValue
            /\ Looked(chars, m, 4 * g + 2) \in ByteValue
        BY <2>1, <2>4
      <4> QED
        BY <2>2, <2>5, <2>8, <3>1, <3>2, <4>1, BytesOfSextets
  <2> QED
    BY <2>1, <2>6, <2>7, <2>8
<1> QED
  BY <1>2, <1>3

\* Whatever the characters are, the bytes they yield fit into three quarters
\* of their length, which is what ota_info.md5[] and data[] provide.
THEOREM YieldFits ==
  ASSUME NEW S, NEW chars \in Seq(S)
  PROVE  /\ Len(base64_decode(chars)) = Yield(End(chars))
         /\ 4 * Len(base64_decode(chars)) <= 3 * Len(chars)
<1> DEFINE m == End(chars)
           N == 1..Len(chars)
           T == {p \in N : chars[p] = Equals}
<1>1. Len(chars) \in Nat
  OBVIOUS
<1>2. \E m0 \in 0..Len(chars) : IsEnd(chars, m0)
  <2>1. CASE T = {}
    BY <1>1, <2>1 DEF IsEnd
  <2>2. CASE T # {}
    <3>1. T \subseteq Nat
      OBVIOUS
    <3>2. PICK p \in T : \A r \in T : ~(<<r, p>> \in OpToRel(<, Nat))
      BY <2>2, <3>1, NatLessThanWellFounded, WFMin
    <3>3. \A r \in T : ~(r < p)
      BY <3>1, <3>2 DEF OpToRel
    <3>4. IsEnd(chars, p - 1) /\ p - 1 \in 0..Len(chars)
      <4>1. p \in 1..Len(chars) /\ chars[p] = Equals
        OBVIOUS
      <4>2. p - 1 \in 0..Len(chars) /\ (p - 1) + 1 = p
        BY <1>1, <4>1
      <4>3. ASSUME NEW i \in 1..(p - 1) PROVE chars[i] # Equals
        <5>1. i \in N /\ i < p
          BY <1>1, <4>1
        <5> QED
          BY <3>3, <5>1
      <4> QED
        BY <4>1, <4>2, <4>3 DEF IsEnd
    <3> QED
      BY <3>4
  <2> QED
    BY <2>1, <2>2
<1>3. m \in 0..Len(chars)
  BY <1>2 DEF End
<1>4. Yield(m) \in Nat /\ 4 * Yield(m) <= 3 * m
  BY <1>1, <1>3 DEF Yield
<1>5. Len(base64_decode(chars)) = Yield(m)
  BY <1>4 DEF base64_decode
<1> QED
  BY <1>1, <1>3, <1>4, <1>5
=============================================================================
