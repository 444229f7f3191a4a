--------------------------------- MODULE Ota ---------------------------------
(***************************************************************************)
(* A firmware update over the mesh: the nodes, each with the free space of *)
(* its flash (handle_ota() and what it calls), and utils/send_ota.py,      *)
(* which sends an image block by block and waits for answers.  Commands    *)
(* and answers travel in order; those of a node whose link is lost are     *)
(* lost, and so is the Ticker of its eraser, which connect() then needs.   *)
(*                                                                         *)
(* The flash is a function from addresses, relative to freeSpaceStart, to  *)
(* cells.  A cell holds the byte of an image, is blank, or holds neither:  *)
(* a write to a cell that is not blank leaves a mixture of both.           *)
(***************************************************************************)
EXTENDS Integers, Sequences

CONSTANTS
    Nodes,       \* the nodes that have the firmware ID of the update
    Images,      \* firmware files
    Length,      \* Length[i]: length of image i
    BlockSize,   \* maxMQTTMessageLength
    SectorSize,  \* FLASH_SECTOR_SIZE
    FreeStart,   \* freeSpaceStart, absolute
    Space,       \* Space[n]: freeSpaceEnd - freeSpaceStart of node n
    Lossy,       \* nodes that lose their link, restart or answer too late
    BadFlash,    \* nodes whose flash may fail to take a write
    MaxRuns      \* bound: how often send_ota.py is run

None == "none"

ASSUME ImageAssumption ==
    /\ Length \in [Images -> Nat]
    /\ Images \intersect {None, "blank", "mixed", "foreign"} = {}
ASSUME SizeAssumption ==
    BlockSize \in Nat \ {0} /\ SectorSize \in Nat \ {0} /\ FreeStart \in Nat
ASSUME SpaceAssumption == Space \in [Nodes -> Nat]
ASSUME BoundAssumption ==
    Lossy \subseteq Nodes /\ BadFlash \subseteq Nodes /\ MaxRuns \in Nat

VARIABLES
    \* The nodes.
    ota_info,   \* the image of the last start command, None after a reset
    nextErase,  \* sector to be erased next, relative to freeSpaceStart
    eraser,     \* the Ticker is armed for erase_sector()
    flash,      \* contents of the flash from freeSpaceStart on
    ebcmd,      \* what eboot is to copy at the next reset, or NoCommand
    booted,     \* history: what eboot copied, and on whose command
    heard,      \* history: the run whose start command it handled last
    \* send_ota.py.
    phase,      \* the kind of answer wait_for() waits for, or "idle"
    image,      \* the file it sends
    topic,      \* the nodes its commands are addressed to
    nodes,      \* nodes it updates; {} before --id has found any
    pos,        \* address of the block it sends
    seen,       \* the last answer of that kind from each node
    answered,   \* history: nodes whose "erase" answered this run's start
    runs,       \* how often it was run
    \* The network.
    down, up    \* per node, commands and answers on their way

nodeVars == <<ota_info, nextErase, eraser, flash, ebcmd, booted, heard>>
sendVars == <<phase, image, topic, nodes, pos, seen, answered, runs>>
vars == <<nodeVars, sendVars, down, up>>

\* As far as a block may reach that begins at the end of the free space.
Addresses == UNION {0..(Space[n] + BlockSize) : n \in Nodes}
Blank == <<"blank", 0>>
Mixed == <<"mixed", 0>>
Foreign == <<"foreign", 0>>  \* what lies behind the free space
Byte(i, a) == <<i, a>>
Bytes == {Blank, Mixed, Foreign} \union (Images \X Nat)

Commands == [cmd : {"start", "block", "check", "flash"}, image : Images,
             pos : Nat, listed : SUBSET Nodes, own : SUBSET Nodes]
Answers == [kind : {"erase", "md5", "check"}, image : Images \union {None},
            pos : Nat, ok : BOOLEAN]
NoAnswer == [kind |-> "none", image |-> None, pos |-> 0, ok |-> FALSE]

\* eboot_command; all but len is history.
NoCommand == [len |-> 0, sent |-> None, listed |-> FALSE, own |-> FALSE,
              erasing |-> FALSE]
EbootCommands == [len : Nat, sent : Images \union {None}, listed : BOOLEAN,
                  own : BOOLEAN, erasing : BOOLEAN]

Whole(i) == [k \in 1..Length[i] |-> Byte(i, k - 1)]

\* The length of the block at address p of image i.
BlockLen(i, p) ==
    IF Length[i] - p < BlockSize THEN Length[i] - p ELSE BlockSize

TypeOK ==
    /\ ota_info \in [Nodes -> Images \union {None}]
    /\ nextErase \in [Nodes -> Nat \union {-1}] /\ eraser \in [Nodes -> BOOLEAN]
    /\ flash \in [Nodes -> [Addresses -> Bytes]]
    /\ ebcmd \in [Nodes -> EbootCommands]
    /\ \A n \in Nodes : ebcmd[n].len <= Space[n]
    /\ booted \in [Nodes -> [cells : Seq(Bytes), by : EbootCommands]]
    /\ heard \in [Nodes -> 0..MaxRuns]
    /\ phase \in {"idle", "erase", "md5", "check"}
    /\ image \in Images \union {None} /\ topic \subseteq Nodes
    /\ nodes \subseteq Nodes
    /\ pos \in Nat /\ (phase # "idle" => image # None /\ pos <= Length[image])
    /\ seen \in [Nodes -> Answers \union {NoAnswer}]
    /\ answered \subseteq Nodes /\ runs \in 0..MaxRuns
    /\ down \in [Nodes -> Seq(Commands)] /\ up \in [Nodes -> Seq(Answers)]

-----------------------------------------------------------------------------
(* The node.                                                               *)

\* publish() of an answer.
Answer(n, kind, i, p, ok) ==
    up' = [up EXCEPT ![n] =
              Append(@, [kind |-> kind, image |-> i, pos |-> p, ok |-> ok])]

Sectors(i) == (Length[i] + SectorSize - 1) \div SectorSize

\* handle_ota("start"): ota_info is overwritten even when the start is
\* refused, and an eraser at work starts anew.
Start(n, m) ==
    /\ ota_info' = [ota_info EXCEPT ![n] = m.image]
    /\ IF Length[m.image] = 0 \/ Length[m.image] > Space[n]
       THEN UNCHANGED <<nextErase, eraser>>
       ELSE /\ nextErase' = [nextErase EXCEPT ![n] = Sectors(m.image) - 1]
            /\ eraser' = [eraser EXCEPT ![n] = TRUE]
    /\ heard' = [heard EXCEPT ![n] = runs]
    /\ UNCHANGED <<flash, ebcmd, booted, up>>

\* The answer of an eraser.  It says how long it took; ok is history: it
\* answers the start command of the run under way, not an earlier one.
Erased(n) == Answer(n, "erase", None, 0, heard[n] = runs)

\* Mutant: the first sector is left out.
EraseAllButFirst(n) ==
    /\ eraser[n]
    /\ IF nextErase[n] > 0
       THEN /\ flash' = [flash EXCEPT ![n] = [a \in Addresses |->
                    IF a \div SectorSize = nextErase[n] THEN Blank ELSE @[a]]]
            /\ nextErase' = [nextErase EXCEPT ![n] = @ - 1]
            /\ UNCHANGED <<eraser, up>>
       ELSE /\ eraser' = [eraser EXCEPT ![n] = FALSE]
            /\ Erased(n)
            /\ UNCHANGED <<flash, nextErase>>
    /\ UNCHANGED <<ota_info, ebcmd, booted, heard, down, sendVars>>

\* Mutant: the answer is published before the last sector is erased.
EraseAnsweredEarly(n) ==
    /\ eraser[n]
    /\ flash' = [flash EXCEPT ![n] = [a \in Addresses |->
           IF a \div SectorSize = nextErase[n] THEN Blank ELSE @[a]]]
    /\ nextErase' = [nextErase EXCEPT ![n] = IF @ >= 0 THEN @ - 1 ELSE @]
    /\ eraser' = [eraser EXCEPT ![n] = nextErase[n] >= 0]
    /\ IF nextErase[n] = 1 THEN Erased(n) ELSE UNCHANGED up
    /\ UNCHANGED <<ota_info, ebcmd, booted, heard, down, sendVars>>

\* erase_sector(), run by the Ticker: from the last sector to the first.
EraseSector(n) ==
    /\ eraser[n]
    /\ IF nextErase[n] >= 0
       THEN /\ flash' = [flash EXCEPT ![n] = [a \in Addresses |->
                    IF a \div SectorSize = nextErase[n] THEN Blank ELSE @[a]]]
            /\ nextErase' = [nextErase EXCEPT ![n] = @ - 1]
            /\ UNCHANGED <<eraser, up>>
       ELSE /\ eraser' = [eraser EXCEPT ![n] = FALSE]
            /\ Erased(n)
            /\ UNCHANGED <<flash, nextErase>>
    /\ UNCHANGED <<ota_info, ebcmd, booted, heard, down, sendVars>>

\* Writing clears bits: what a cell holds afterwards.
Written(old, new) == IF old \in {Blank, new} THEN new ELSE Mixed

\* The tests of an address against the free space; the second compares a
\* relative address with the end of the free space, an absolute one.
Fits(n, address, len) ==
    /\ address <= Space[n]
    /\ address + len <= FreeStart + Space[n]

\* handle_ota() with an address.  The MD5 it answers is that of the block
\* it received, whatever the flash then holds and even if the write fails.
WriteBlock(n, m) ==
    LET len == BlockLen(m.image, m.pos)
    IN  /\ IF Fits(n, m.pos, len)
           THEN /\ \/ flash' = [flash EXCEPT ![n] = [a \in Addresses |->
                        IF a \in m.pos..(m.pos + len - 1)
                        THEN Written(@[a], Byte(m.image, a)) ELSE @[a]]]
                   \/ n \in BadFlash /\ UNCHANGED flash
                /\ Answer(n, "md5", m.image, m.pos, TRUE)
           ELSE UNCHANGED <<flash, up>>
        /\ UNCHANGED <<ota_info, nextErase, eraser, ebcmd, booted, heard>>

Region(n) == [k \in 1..Length[ota_info[n]] |-> flash[n][k - 1]]

\* check_ota_md5(); after a reset ota_info holds no digest of anything.
check_ota_md5(n) ==
    /\ ota_info[n] # None
    /\ Length[ota_info[n]] <= Space[n]
    /\ Region(n) = Whole(ota_info[n])

\* handle_ota("check").
Check(n, m) ==
    /\ Answer(n, "check", None, 0, check_ota_md5(n))
    /\ UNCHANGED nodeVars

\* A reset: the memory is cleared, and what eboot was to do is done or lost.
ResetNode(n) ==
    /\ ota_info' = [ota_info EXCEPT ![n] = None]
    /\ nextErase' = [nextErase EXCEPT ![n] = -1]
    /\ eraser' = [eraser EXCEPT ![n] = FALSE]
    /\ ebcmd' = [ebcmd EXCEPT ![n] = NoCommand]

\* handle_ota("flash"): eboot is told what to copy, and the node goes off the
\* air.  The eraser is not stopped; it runs on in delay().  The answer to a
\* failure is of no kind that send_ota.py knows.
Flash(n, m) ==
    /\ IF check_ota_md5(n)
       THEN ebcmd' = [ebcmd EXCEPT ![n] =
                [len |-> Length[ota_info[n]], sent |-> m.image,
                 listed |-> n \in m.listed, own |-> n \in m.own,
                 erasing |-> eraser[n]]]
       ELSE UNCHANGED ebcmd
    /\ UNCHANGED <<ota_info, nextErase, eraser, flash, booted, heard, up>>

\* ESP.restart() behind the delay(), or a reset in it: eboot copies whatever
\* the flash now holds and starts it.  The free space of the new sketch
\* begins elsewhere.
Boot(n) ==
    /\ ebcmd[n] # NoCommand
    /\ booted' = [booted EXCEPT ![n] =
           [cells |-> [k \in 1..ebcmd[n].len |-> flash[n][k - 1]],
            by |-> ebcmd[n]]]
    /\ flash' = [flash EXCEPT ![n] = [a \in Addresses |->
           IF a < Space[n] THEN Mixed ELSE @[a]]]
    /\ ResetNode(n)
    /\ UNCHANGED <<heard, down, up, sendVars>>

\* handle_ota().
Handle(n) ==
    /\ down[n] # <<>>
    /\ down' = [down EXCEPT ![n] = Tail(@)]
    /\ LET m == Head(down[n])
       IN  \/ m.cmd = "start" /\ Start(n, m)
           \/ m.cmd = "block" /\ WriteBlock(n, m)
           \/ m.cmd = "check" /\ Check(n, m)
           \/ m.cmd = "flash" /\ Flash(n, m)
    /\ UNCHANGED sendVars

-----------------------------------------------------------------------------
(* send_ota.py.                                                            *)

\* client.publish().  The image of a check or flash command and its lists of
\* nodes are history: the node does not see them.
Publish(to, cmd, i, p, list, own) ==
    down' = [n \in Nodes |->
        IF n \in to
        THEN Append(down[n], [cmd |-> cmd, image |-> i, pos |-> p,
                              listed |-> list, own |-> own])
        ELSE down[n]]

Seen == {n \in Nodes : seen[n] # NoAnswer}
Forget == seen' = [n \in Nodes |-> NoAnswer]

\* What an earlier run left on its way is delivered or lost by the time the
\* program is run again, and a flash command has had its 100 ms; an eraser
\* may still be at work.
NothingOnItsWay ==
    \A n \in Nodes : down[n] = <<>> /\ up[n] = <<>> /\ ebcmd[n] = NoCommand

SendTo(to, list, i) ==
    topic' = to /\ nodes' = list /\ Publish(to, "start", i, 0, {}, {})

\* main() and the start of send_firmware(): with --id to all nodes, none of
\* them known, or with --node to one.
SendStart ==
    /\ phase = "idle" /\ runs < MaxRuns /\ NothingOnItsWay
    /\ runs' = runs + 1
    /\ phase' = "erase" /\ pos' = 0 /\ answered' = {} /\ Forget
    /\ \E i \in Images :
          /\ image' = i
          /\ \/ SendTo(Nodes, {}, i)
             \/ \E n \in Nodes : SendTo({n}, {n}, i)
    /\ UNCHANGED <<nodeVars, up>>

AllSeen == nodes # {} /\ Seen = nodes

\* on_message() and wait_for(): an answer of another kind, or of a node that
\* is not updated, is dropped; what comes while nothing waits is lost.
Take(n) ==
    /\ up[n] # <<>> /\ ~(phase # "idle" /\ AllSeen)
    /\ up' = [up EXCEPT ![n] = Tail(@)]
    /\ seen' = IF Head(up[n]).kind = phase /\ (nodes = {} \/ n \in nodes)
               THEN [seen EXCEPT ![n] = Head(up[n])] ELSE seen
    /\ UNCHANGED <<nodeVars, down, phase, image, topic, nodes, pos, answered,
                   runs>>

\* Where no node is slow, wait_for() waits long enough for what is to come.
Quiet == \A n \in Nodes : down[n] = <<>> /\ up[n] = <<>> /\ ~eraser[n]

\* wait_for() returns.
WaitOver(kind) == phase = kind /\ (AllSeen \/ Lossy # {} \/ Quiet)

\* sys.exit(), an exception or a return on an error, and the end.
Stop == phase' = "idle" /\ UNCHANGED <<image, topic, nodes, pos>>

\* The turn of send_firmware()'s loop for the block at p, or, behind the
\* last one, the request of the final check.
SendBlock(p) ==
    /\ pos' = p
    /\ IF p < Length[image]
       THEN phase' = "md5" /\ Publish(topic, "block", image, p, {}, {})
       ELSE phase' = "check" /\ Publish(topic, "check", image, 0, {}, {})
    /\ UNCHANGED <<image, topic>>

\* The nodes that were seen are the ones updated; with none it stops.
ErasesSeen ==
    /\ WaitOver("erase") /\ Forget
    /\ answered' = {n \in Seen : seen[n].ok}
    /\ IF Seen = {} THEN Stop /\ UNCHANGED down
                    ELSE nodes' = Seen /\ SendBlock(0)
    /\ UNCHANGED <<nodeVars, up, runs>>

\* Mutant: a node without an answer is passed over.
ConfirmedIfSeen ==
    \A n \in nodes \intersect Seen :
        seen[n].pos = pos /\ seen[n].image = image

\* Every node answered with the address and the MD5 of this block.
Confirmed ==
    \A n \in nodes :
        n \in Seen /\ seen[n].pos = pos /\ seen[n].image = image

\* The answers to a block.  retries is 0: no block is sent again.
BlockSeen ==
    /\ WaitOver("md5") /\ Forget
    /\ IF Confirmed
       THEN SendBlock(pos + BlockLen(image, pos)) /\ UNCHANGED nodes
       ELSE Stop /\ UNCHANGED down
    /\ UNCHANGED <<nodeVars, up, answered, runs>>

\* The answers to the check: all passed, or the run ends with an error.
ChecksSeen ==
    /\ WaitOver("check") /\ Forget
    /\ Stop
    /\ IF \A n \in nodes : n \in Seen /\ seen[n].ok
       THEN Publish(topic, "flash", image, 0, nodes, answered)
       ELSE UNCHANGED down
    /\ UNCHANGED <<nodeVars, up, answered, runs>>

-----------------------------------------------------------------------------
(* What may go wrong.                                                      *)

\* Messages on their way to and from a node are lost.
LoseMessages(n) ==
    /\ down' = [down EXCEPT ![n] = <<>>]
    /\ \E k \in 0..Len(up[n]) : up' = [up EXCEPT ![n] = SubSeq(@, 1, k)]

\* The node loses its link; onWifiDisconnect() takes the Ticker for
\* connect(), unless it was the link of a node above.
LinkLost(n) ==
    /\ n \in Lossy
    /\ LoseMessages(n)
    /\ eraser' \in {eraser, [eraser EXCEPT ![n] = FALSE]}
    /\ UNCHANGED <<ota_info, nextErase, flash, ebcmd, booted, heard, sendVars>>

\* A node loses power, which an eboot_command does not outlast, or is reset.
Restart(n) ==
    /\ n \in Lossy
    /\ LoseMessages(n)
    /\ ResetNode(n)
    /\ UNCHANGED <<flash, booted, heard, sendVars>>

-----------------------------------------------------------------------------
Init ==
    /\ ota_info = [n \in Nodes |-> None] /\ nextErase = [n \in Nodes |-> -1]
    /\ eraser = [n \in Nodes |-> FALSE]
    /\ flash = [n \in Nodes |-> [a \in Addresses |->
                   IF a < Space[n] THEN Mixed ELSE Foreign]]
    /\ ebcmd = [n \in Nodes |-> NoCommand] /\ heard = [n \in Nodes |-> 0]
    /\ booted = [n \in Nodes |-> [cells |-> <<>>, by |-> NoCommand]]
    /\ phase = "idle" /\ image = None /\ topic = {} /\ nodes = {} /\ pos = 0
    /\ seen = [n \in Nodes |-> NoAnswer] /\ answered = {} /\ runs = 0
    /\ down = [n \in Nodes |-> <<>>] /\ up = [n \in Nodes |-> <<>>]

Sender == SendStart \/ ErasesSeen \/ BlockSeen \/ ChecksSeen

Next ==
    \/ Sender
    \/ \E n \in Nodes : Handle(n) \/ EraseSector(n) \/ Boot(n) \/ Take(n)
                        \/ LinkLost(n) \/ Restart(n)

Spec == Init /\ [][Next]_vars

\* Timers fire, delay() ends, commands and answers are delivered and wait_for() ends.
\* Whether send_ota.py is run is its user's choice.
FairSpec ==
    /\ Spec
    /\ WF_vars(ErasesSeen \/ BlockSeen \/ ChecksSeen)
    /\ \A n \in Nodes :
        /\ WF_vars(Handle(n)) /\ WF_vars(Take(n))
        /\ WF_vars(EraseSector(n)) /\ WF_vars(Boot(n))

-----------------------------------------------------------------------------
(* Properties.                                                             *)

\* The cells are those of image i, but for sectors that an eraser may have
\* emptied.
WholeBut(cells, i, erasing) ==
    /\ Len(cells) = Length[i]
    /\ \A k \in 1..Length[i] :
          cells[k] = Byte(i, k - 1) \/ (erasing /\ cells[k] = Blank)

\* Whatever is lost, restarted or overtaken by another run between
\* check_ota_md5() and the copy, a node boots one image and never parts of
\* two.  It boots it whole, unless an eraser was at work behind the check; and
\* none was, on a node that send_ota.py counts among the ones it updated,
\* if the answer it counted it for was to the start command of that run.
BootsOneImage ==
    \A n \in Nodes : LET by == booted[n].by IN
        by # NoCommand =>
            /\ \E i \in Images : WholeBut(booted[n].cells, i, by.erasing)
            /\ by.listed /\ by.own => ~by.erasing

\* A node that send_ota.py counts among the ones it updated, and whose flash
\* takes what is written, boots on that run's flash command the image of
\* that run and no other it may hold.
ListedNodesBootWhatWasSent ==
    \A n \in Nodes \ BadFlash : LET by == booted[n].by IN
        by.listed => WholeBut(booted[n].cells, by.sent, by.erasing)

\* Where nothing is lost, each node addressed that has the space for an
\* image comes to boot it.
UpdatesSucceed ==
    \A n \in Nodes : \A i \in Images :
        phase = "erase" /\ image = i /\ n \in topic
            /\ Length[i] \in 1..Space[n]
        ~> booted[n].by.sent = i /\ booted[n].cells = Whole(i)

=============================================================================
