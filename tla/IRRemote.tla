------------------------------ MODULE IRRemote -------------------------------
(***************************************************************************)
(* The infrared remote of examples/ESP8266MeshIRRemote: the mesh callback  *)
(* reads commands out of messages and pushes them to a ring buffer,        *)
(* loop() plays the one at its head, and codes can be saved in files.      *)
(*                                                                         *)
(* The callback runs between two calls of loop().  Parsing a message is a  *)
(* step per key=value part of it, as in the loop of parse_code(); nothing  *)
(* else runs before it is over.  PlayList is what the remote promises.     *)
(*                                                                         *)
(* A text for a pronto code is known by how many words it has, whether     *)
(* they are four hexadecimal digits each, the first 0000 (clean), and by   *)
(* the lengths of the two sections that its header gives, as far as        *)
(* sendPronto() keeps them, in a byte each.                                *)
(***************************************************************************)
EXTENDS Integers, Sequences

CONSTANTS
    QueueSize, \* the size cmdQueue was constructed with
    Codes,     \* texts for codes: [name, once, rpt, words, clean]
    KvWords,   \* words of a code that kv of parse_code() has room for
    Files,     \* names of files under /ir/
    Messages,  \* payloads: sequences of parts [key, value]
    CutAt,     \* bound: lengths, in words, that a reset leaves of a saved text
    MaxTimes,  \* bound: the largest count, positive or negative
    MaxCmds    \* bound: commands created before a reset

ASSUME SizeAssumption == QueueSize \in Nat \ {0}
ASSUME CmdsAssumption == MaxCmds \in Nat
ASSUME TimesAssumption == MaxTimes \in Nat \ {0}
ASSUME KvAssumption == KvWords \in Nat /\ CutAt \subseteq Nat
ASSUME FilesAssumption == Files # {}

VARIABLES
    contents, head, tail, items, \* the members of cmdQueue
    heap,      \* the Cmd objects, by address
    created,   \* how many of them there have been
    live,      \* addresses that were not deleted
    files,     \* what /ir/ holds
    job,       \* the running callback() with the locals of parse_code()
    air,       \* the burst last played
    played,    \* history: how often each command was played
    refused    \* history: commands that push() did not take

queueVars == <<contents, head, tail, items>>
heapVars == <<heap, created, live, played, refused>>
vars == <<queueVars, heapVars, files, job, air>>

Places == 0..(QueueSize - 1)
Address == 1..MaxCmds
Counts == (-MaxTimes)..MaxTimes

\* The empty string, and a burst of nothing.
NoCode == [name |-> "", once |-> 0, rpt |-> 0, words |-> 0, clean |-> TRUE]
Silence == [code |-> NoCode, from |-> 0, len |-> 0]

\* What a text is up to its n-th word: it may end inside a word, or have lost
\* what was wrong with it.
TextUpTo(code, n) ==
    {[name |-> code.name, once |-> code.once, rpt |-> code.rpt,
      words |-> n, clean |-> clean] : clean \in BOOLEAN}

ASSUME CodesAssumption ==
    \A code \in Codes :
        /\ code.once \in 0..255 /\ code.rpt \in 0..255 /\ code.words \in Nat
        /\ code \in TextUpTo(code, code.words)

SomeCode ==
    UNION {UNION {TextUpTo(code, n) : n \in 0..code.words} :
              code \in Codes \union {NoCode}}

NoCmd == [code |-> NoCode, repeat |-> 0, asked |-> 0]
Cmd == [code : SomeCode, repeat : Counts, asked : Counts]

\* A file with its third line, if it has one.
NoFile == [there |-> FALSE, code |-> NoCode, counted |-> FALSE, repeat |-> 0]
File == [there : BOOLEAN, code : SomeCode, counted : BOOLEAN, repeat : Counts]

Part == [key : {"repeat"}, value : Counts]
        \union [key : {"code"}, value : SomeCode]
        \union [key : {"file"}, value : Files]
        \union [key : {"other"}, value : {0}]

ASSUME MessagesAssumption == Messages \subseteq Seq(Part)

NewJob(kind, file, parts) ==
    [kind |-> kind, file |-> file, rest |-> parts, code |-> NoCode,
     repeat |-> 0, seen |-> FALSE]

AnyFile == CHOOSE f \in Files : TRUE
Idle == NewJob("idle", AnyFile, <<>>)

TypeOK ==
    /\ contents \in [Places -> Address \union {0}]
    /\ head \in Places /\ tail \in Places /\ items \in 0..QueueSize
    /\ heap \in [Address -> Cmd]
    /\ created \in 0..MaxCmds
    /\ live \subseteq Address /\ refused \subseteq Address
    /\ files \in [Files -> File]
    /\ job \in [kind : {"idle", "send", "save"}, file : Files,
                rest : Seq(Part), code : SomeCode, repeat : Counts,
                seen : BOOLEAN]
    /\ air \in [code : SomeCode, from : Nat, len : Nat]
    /\ played \in [Address -> Nat]

-----------------------------------------------------------------------------
(* QueueArray.                                                             *)

\* Mutant: tail runs on behind the array.
NextPlaceNoWrap(place) == place + 1

\* The wrap-around of head and tail.
NextPlace(place) == IF place + 1 = QueueSize THEN 0 ELSE place + 1

\* Mutant: a full queue overwrites its oldest entry.
IsFullNever == FALSE

IsFull == items = QueueSize

\* cmdQueue.push(new Cmd(...)): nobody looks at what push() returns.
Push(code, repeat) ==
    LET cmd == created + 1 IN
    /\ created' = cmd
    /\ heap' = [heap EXCEPT ![cmd] = [code |-> code, repeat |-> repeat,
                                      asked |-> repeat]]
    /\ live' = live \union {cmd}
    /\ \/ /\ IsFull
          /\ refused' = refused \union {cmd}
          /\ UNCHANGED queueVars
       \/ /\ ~IsFull
          /\ contents' = [contents EXCEPT ![tail] = cmd]
          /\ tail' = NextPlace(tail)
          /\ items' = items + 1
          /\ UNCHANGED <<head, refused>>
    /\ UNCHANGED played

-----------------------------------------------------------------------------
(* The callback.                                                           *)

\* callback() with "send" or with "save/" and a file name.  The other
\* topics only publish, or switch the messages to a debugger.
MessageComes(kind, file, parts) ==
    /\ job = Idle
    /\ created + Len(parts) <= MaxCmds
    /\ job' = NewJob(kind, file, parts)
    /\ UNCHANGED <<queueVars, heapVars, files, air>>

ParsedUpTo(rest, code, repeat, seen) ==
    job' = [job EXCEPT !.rest = rest, !.code = code, !.repeat = repeat,
                       !.seen = seen]

Parsed(code, repeat, seen) == ParsedUpTo(Tail(job.rest), code, repeat, seen)

PushIfSending(code, repeat) ==
    IF job.kind = "send" THEN Push(code, repeat)
    ELSE UNCHANGED <<queueVars, heapVars>>

\* repeat=n, which holds for the commands behind it too.
ReadRepeat(n) ==
    /\ Parsed(job.code, n, TRUE)
    /\ UNCHANGED <<queueVars, heapVars>>

\* code=...: what does not fit into kv is cut, and as keyValue() then found
\* no comma, so is what the message has behind it.
ReadCode(code) ==
    \/ /\ code.words <= KvWords
       /\ Parsed(code, job.repeat, job.seen)
       /\ PushIfSending(code, job.repeat)
    \/ /\ code.words > KvWords
       /\ \E cut \in TextUpTo(code, KvWords) :
             /\ ParsedUpTo(<<>>, cut, job.repeat, job.seen)
             /\ PushIfSending(cut, job.repeat)

\* file=...: the count in the file counts unless the message has one.
ReadFile(name) ==
    LET file == files[name]
        repeat == IF file.counted /\ ~job.seen THEN file.repeat
                  ELSE job.repeat
    IN  IF file.there
        THEN /\ Parsed(file.code, repeat, job.seen)
             /\ PushIfSending(file.code, repeat)
        ELSE /\ Parsed(job.code, job.repeat, job.seen)
             /\ UNCHANGED <<queueVars, heapVars>>

\* Mutant: the loop does not get past what is no key=value.
SkipPartForEver == UNCHANGED <<job, queueVars, heapVars>>

\* Any other key, and what is no key=value.
SkipPart ==
    /\ Parsed(job.code, job.repeat, job.seen)
    /\ UNCHANGED <<queueVars, heapVars>>

\* One turn of the loop of parse_code().
ParsePart ==
    /\ job.rest # <<>>
    /\ LET part == Head(job.rest) IN
        \/ part.key = "repeat" /\ ReadRepeat(part.value)
        \/ part.key = "code" /\ ReadCode(part.value)
        \/ part.key = "file" /\ ReadFile(part.value)
        \/ part.key = "other" /\ SkipPart
    /\ UNCHANGED <<files, air>>

\* The end of callback(): "save/" writes the file, if it can be created.
CallbackEnds ==
    /\ job # Idle /\ job.rest = <<>>
    /\ job' = Idle
    /\ \/ /\ job.kind = "save"
          /\ files' = [files EXCEPT ![job.file] =
                          [there |-> TRUE, code |-> job.code,
                           counted |-> TRUE, repeat |-> job.repeat]]
       \/ UNCHANGED files
    /\ UNCHANGED <<queueVars, heapVars, air>>

-----------------------------------------------------------------------------
(* loop().                                                                 *)

\* sendPronto() plays a text of hexadecimal words if there are as many as the
\* header says: itself four words, and two for a pair of mark and space.
Accepted(code) == code.clean /\ code.words = 4 + 2 * (code.once + code.rpt)

\* Mutant: the number of words is not compared with the header.
BurstOfAnyLength(code, repeat, fallback) ==
    LET Play(from, len) == [code |-> code, from |-> from, len |-> len] IN
    IF ~code.clean THEN Play(0, 0)
    ELSE IF repeat /\ code.rpt > 0 THEN Play(code.once, code.rpt)
    ELSE IF code.once > 0 THEN Play(0, code.once)
    ELSE Play(0, code.rpt)

\* sendPronto(): which section it plays, in pairs of mark and space.
Burst(code, repeat, fallback) ==
    LET Play(from, len) == [code |-> code, from |-> from, len |-> len] IN
    IF ~Accepted(code) THEN Play(0, 0)
    ELSE IF ~repeat /\ (code.once > 0 \/ ~fallback) THEN Play(0, code.once)
    ELSE IF ~repeat THEN Play(0, code.rpt)
    ELSE IF code.rpt > 0 \/ ~fallback THEN Play(code.once, code.rpt)
    ELSE Play(0, code.once)

\* Mutant: the count of a negative repeat is run down to zero.
TurnsToZero(repeat) == IF repeat < -1 THEN 1 - repeat ELSE 1

\* The inner loop of loop(): a negative count is played in one go.
Turns(repeat) == IF repeat < -1 THEN -repeat ELSE 1

\* Mutant: a command is dropped one time early.
LastTurnEarly(repeat) == repeat <= 2

LastTurn(repeat) == repeat <= 1

\* pop() and delete, or the count goes down and the command stays.
Loop ==
    LET cmd == contents[head]
        repeat == heap[cmd].repeat
    IN  /\ job = Idle
        /\ items > 0
        /\ air' = Burst(heap[cmd].code, repeat # 0, TRUE)
        /\ played' = [played EXCEPT ![cmd] = @ + Turns(repeat)]
        /\ \/ /\ LastTurn(repeat)
              /\ head' = NextPlace(head)
              /\ items' = items - 1
              /\ live' = live \ {cmd}
              /\ UNCHANGED <<contents, tail, heap>>
           \/ /\ ~LastTurn(repeat)
              /\ heap' = [heap EXCEPT ![cmd].repeat = @ - 1]
              /\ UNCHANGED <<queueVars, live>>
        /\ UNCHANGED <<created, refused, files, job>>

-----------------------------------------------------------------------------
(* Resets.                                                                 *)

\* A reset empties the queue and keeps the files.  One that is just being
\* saved was emptied when it was opened, and its text may end anywhere.
Restart ==
    /\ contents' = [p \in Places |-> 0]
    /\ head' = 0 /\ tail' = 0 /\ items' = 0
    /\ heap' = [a \in Address |-> NoCmd]
    /\ created' = 0 /\ live' = {} /\ refused' = {}
    /\ played' = [a \in Address |-> 0]
    /\ job' = Idle
    /\ air' = Silence
    /\ \/ UNCHANGED files
       \/ /\ job.kind = "save" /\ job.rest = <<>>
          /\ \E n \in CutAt : \E code \in TextUpTo(job.code, n) :
                /\ n <= job.code.words
                /\ files' = [files EXCEPT ![job.file] =
                             [there |-> TRUE, code |-> code,
                              counted |-> FALSE, repeat |-> 0]]

Init ==
    /\ contents = [p \in Places |-> 0]
    /\ head = 0 /\ tail = 0 /\ items = 0
    /\ heap = [a \in Address |-> NoCmd]
    /\ created = 0 /\ live = {} /\ refused = {}
    /\ played = [a \in Address |-> 0]
    /\ job = Idle
    /\ air = Silence
    /\ files = [f \in Files |-> NoFile]

Next ==
    \/ ParsePart \/ CallbackEnds \/ Loop \/ Restart
    \/ \E parts \in Messages, file \in Files :
          \/ MessageComes("send", AnyFile, parts)
          \/ MessageComes("save", file, parts)

Spec == Init /\ [][Next]_vars

\* A callback ends, and loop() is called again however many messages come.
FairSpec == Spec /\ WF_vars(ParsePart) /\ WF_vars(CallbackEnds) /\ SF_vars(Loop)

-----------------------------------------------------------------------------
(* Properties.                                                             *)

\* The command at place i of the queue, from 0 on.
PlaceOf(i) == IF head + i < QueueSize THEN head + i ELSE head + i - QueueSize
Queued == {contents[PlaceOf(i)] : i \in 0..(items - 1)}

\* How often a command is to be played.
Times(repeat) ==
    IF repeat < -1 THEN -repeat ELSE IF repeat > 1 THEN repeat ELSE 1

\* However the ring has gone round and been full, its entries are the
\* commands not yet played, in the order in which they were sent, and each
\* object is deleted once it is out of the queue and not before.  Only a
\* command that push() refused stays behind for good.
QueueMatchesHeap ==
    /\ \A i, j \in 0..(items - 1) :
          i < j => contents[PlaceOf(i)] < contents[PlaceOf(j)]
    /\ live = Queued \union refused
    /\ Queued \intersect refused = {}

\* A command leaves the queue when it has been played as often as the
\* message asked for, be the count positive, negative or missing.
PlayedAsAsked ==
    \A cmd \in 1..created :
        cmd \notin live => played[cmd] = Times(heap[cmd].asked)

\* Whatever was cut by kv, or by a reset in the middle of a save, and read
\* back: a text that does not hold what its header says is not played at all,
\* and of any other that has a section, one is, whole and not an empty one.
WholeSectionPlayed ==
    LET code == air.code IN
    IF code.clean /\ code.words = 4 + 2 * (code.once + code.rpt)
                  /\ code.once + code.rpt > 0
    THEN /\ air.len > 0 /\ 4 + 2 * (air.from + air.len) <= code.words
         /\ <<air.from, air.len>> \in {<<0, code.once>>, <<code.once, code.rpt>>}
    ELSE air.len = 0

\* Every command that was queued is played and deleted, or a reset comes.
QueuedIsPlayed ==
    \A cmd \in Address : cmd \in Queued ~> cmd \notin live

\* The ring, the objects and loop() implement the list of PlayList.
WaitingCmd(cmd) ==
    [code |-> cmd.code, left |-> Times(cmd.repeat), together |-> cmd.repeat < -1]

waiting == [i \in 1..items |-> WaitingCmd(heap[contents[PlaceOf(i - 1)]])]

List ==
    INSTANCE PlayList WITH Codes <- SomeCode, Capacity <- QueueSize

PlaysList == List!Spec
=============================================================================
