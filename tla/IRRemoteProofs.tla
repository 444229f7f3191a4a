--------------------------- MODULE IRRemoteProofs ----------------------------
(***************************************************************************)
(* Proofs about IRRemote.tla, for a ring of any size, any codes, files and *)
(* messages and any counts: the ring and the heap agree, commands are      *)
(* played as asked, and the remote implements PlayList; and about          *)
(* IRCodes.tla, for every code, every lag and every content of rawbuf.     *)
(***************************************************************************)
EXTENDS IRRemote, IRCodes, SequenceTheorems, TLAPS

USE SizeAssumption, CmdsAssumption, TimesAssumption, FilesAssumption

\* The command at place i of the queue.
Entry(i) == contents[PlaceOf(i)]
EntryPlaces == 0..(items - 1)

\* The ring: tail is behind the last entry, the entries are commands in the
\* order in which they were created.
RingInv ==
    /\ tail = PlaceOf(items)
    /\ \A i \in EntryPlaces : Entry(i) \in 1..created
    /\ \A i, j \in EntryPlaces : i < j => Entry(i) < Entry(j)

\* The heap: a command that waits was played as often as its count has gone
\* down, one that is not yet created not at all.
HeapInv ==
    /\ live = Queued \union refused
    /\ Queued \intersect refused = {}
    /\ refused \subseteq 1..created
    /\ \A cmd \in Queued :
          played[cmd] + Times(heap[cmd].repeat) = Times(heap[cmd].asked)
    /\ \A cmd \in Address : cmd > created => played[cmd] = 0

\* The bound on commands leaves room for those of the running callback.
JobInv == created + Len(job.rest) <= MaxCmds

IInv ==
    TypeOK /\ RingInv /\ HeapInv /\ JobInv /\ PlayedAsAsked /\ WholeSectionPlayed

-----------------------------------------------------------------------------
(* Places of the ring.                                                     *)

LEMMA PlaceTyped ==
  ASSUME head \in Places, NEW i \in 0..QueueSize
  PROVE  PlaceOf(i) \in Places
  BY DEF Places, PlaceOf

\* Two places less than a round apart are different.
LEMMA PlacesDiffer ==
  ASSUME head \in Places, NEW i \in 0..QueueSize, NEW j \in 0..QueueSize,
         i < j, j - i < QueueSize
  PROVE  PlaceOf(i) # PlaceOf(j)
  BY DEF Places, PlaceOf

LEMMA NextPlaceIs ==
  ASSUME head \in Places, NEW i \in 0..(QueueSize - 1)
  PROVE  NextPlace(PlaceOf(i)) = PlaceOf(i + 1)
  BY DEF Places, PlaceOf, NextPlace

\* What head gives way to.
LEMMA PlaceAfterPop ==
  ASSUME head \in Places, head' = NextPlace(head), NEW i \in 0..(QueueSize - 1)
  PROVE  PlaceOf(i)' = PlaceOf(i + 1)
  BY DEF Places, PlaceOf, NextPlace

LEMMA QueuedIs == Queued = {Entry(i) : i \in EntryPlaces}
  BY DEF Queued, Entry, EntryPlaces

-----------------------------------------------------------------------------
(* Types that are not in TypeOK as such.                                   *)

CodeType(code) ==
    code.once \in 0..255 /\ code.rpt \in 0..255 /\ code.words \in Nat

\* A text is what it is up to its last word.
LEMMA SomeCodeIs ==
  ASSUME NEW code \in Codes \union {NoCode}
  PROVE  CodeType(code) /\ code \in TextUpTo(code, code.words)
<1>1. CASE code = NoCode
  <2>1. NoCode \in TextUpTo(NoCode, NoCode.words)
    BY DEF NoCode, TextUpTo
  <2>2. CodeType(NoCode)
    <3>1. NoCode.once = 0 /\ NoCode.rpt = 0 /\ NoCode.words = 0
      BY DEF NoCode
    <3> QED
      BY <3>1 DEF CodeType
  <2> QED
    BY <1>1, <2>1, <2>2
<1>2. CASE code \in Codes
  BY <1>2, CodesAssumption DEF CodeType
<1> QED
  BY <1>1, <1>2

LEMMA PrefixTyped ==
  /\ \A code \in SomeCode : CodeType(code)
  /\ Codes \union {NoCode} \subseteq SomeCode
  /\ \A code \in SomeCode : \A n \in 0..code.words :
        TextUpTo(code, n) \subseteq SomeCode
<1>1. \A code : \A n : \A p \in TextUpTo(code, n) :
         /\ p.name = code.name /\ p.once = code.once /\ p.rpt = code.rpt
         /\ p.words = n
         /\ \A m : TextUpTo(p, m) = TextUpTo(code, m)
         /\ CodeType(code) /\ n \in Nat => CodeType(p)
  BY DEF TextUpTo, CodeType
<1>2. ASSUME NEW code \in SomeCode
      PROVE  \E whole \in Codes \union {NoCode} : \E n \in 0..whole.words :
                code \in TextUpTo(whole, n)
  BY <1>2 DEF SomeCode
<1>3. ASSUME NEW whole \in Codes \union {NoCode}, NEW n \in 0..whole.words
      PROVE  TextUpTo(whole, n) \subseteq SomeCode
  BY <1>3 DEF SomeCode
<1>4. ASSUME NEW code \in SomeCode PROVE CodeType(code)
  <2>1. PICK whole \in Codes \union {NoCode} : \E n \in 0..whole.words :
                code \in TextUpTo(whole, n)
    BY <1>2
  <2>2. PICK n \in 0..whole.words : code \in TextUpTo(whole, n)
    BY <2>1
  <2>3. CodeType(whole) /\ n \in Nat
    BY SomeCodeIs DEF CodeType
  <2> QED
    BY <1>1, <2>2, <2>3
<1>5. ASSUME NEW code \in Codes \union {NoCode} PROVE code \in SomeCode
  <2>1. code.words \in 0..code.words
    BY SomeCodeIs DEF CodeType
  <2> QED
    BY <1>3, <2>1, SomeCodeIs
<1>6. ASSUME NEW code \in SomeCode, NEW n \in 0..code.words
      PROVE  TextUpTo(code, n) \subseteq SomeCode
  <2>1. PICK whole \in Codes \union {NoCode} : \E m \in 0..whole.words :
                code \in TextUpTo(whole, m)
    BY <1>2
  <2>2. PICK m \in 0..whole.words : code \in TextUpTo(whole, m)
    BY <2>1
  <2>3. /\ code.words = m /\ TextUpTo(code, n) = TextUpTo(whole, n)
        /\ whole.words \in Nat
    BY <1>1, <2>2, SomeCodeIs DEF CodeType
  <2>4. n \in 0..whole.words
    BY <2>3
  <2> QED
    BY <1>3, <2>3, <2>4
<1> QED
  BY <1>4, <1>5, <1>6

LEMMA Defaults ==
  /\ NoCode \in SomeCode /\ NoCmd \in Cmd /\ AnyFile \in Files /\ 0 \in Counts
  /\ Counts \subseteq Int
  /\ \A n \in Counts : Times(n) \in 1..MaxTimes
<1>1. NoCode \in SomeCode /\ 0 \in Counts
  BY PrefixTyped DEF Counts
<1>2. NoCmd \in Cmd
  BY <1>1 DEF NoCmd, Cmd
<1>3. \A n \in Counts : Times(n) \in 1..MaxTimes
  BY DEF Counts, Times
<1>4. AnyFile \in Files
  BY DEF AnyFile
<1>5. Counts \subseteq Int
  BY DEF Counts
<1> QED
  BY <1>1, <1>2, <1>3, <1>4, <1>5

\* What kv leaves of a text that is too long for it.
LEMMA CutTyped ==
  ASSUME NEW code \in SomeCode, code.words > KvWords
  PROVE  TextUpTo(code, KvWords) \subseteq SomeCode
<1>1. code.words \in Nat
  BY PrefixTyped DEF CodeType
<1>2. KvWords \in 0..code.words
  BY <1>1, KvAssumption
<1> QED
  BY <1>2, PrefixTyped

JobType ==
    [kind : {"idle", "send", "save"}, file : Files, rest : Seq(Part),
     code : SomeCode, repeat : Counts, seen : BOOLEAN]

LEMMA NewJobTyped ==
  ASSUME NEW kind \in {"idle", "send", "save"}, NEW file \in Files,
         NEW parts \in Seq(Part)
  PROVE  NewJob(kind, file, parts) \in JobType
  BY Defaults DEF NewJob, JobType

LEMMA IdleTyped == Idle \in JobType /\ Idle.rest = <<>>
<1>1. <<>> \in Seq(Part)
  OBVIOUS
<1>2. Idle \in JobType
  BY <1>1, NewJobTyped, Defaults DEF Idle
<1> QED
  BY <1>2 DEF Idle, NewJob

\* A burst is one whole section of a code that holds what its header says.
Whole(b) ==
    IF b.code.clean /\ b.code.words = 4 + 2 * (b.code.once + b.code.rpt)
                    /\ b.code.once + b.code.rpt > 0
    THEN /\ b.len > 0 /\ 4 + 2 * (b.from + b.len) <= b.code.words
         /\ <<b.from, b.len>> \in {<<0, b.code.once>>, <<b.code.once, b.code.rpt>>}
    ELSE b.len = 0

AirType == [code : SomeCode, from : Nat, len : Nat]

LEMMA SilenceWhole == Silence \in AirType /\ Whole(Silence)
<1>1. Silence.code = NoCode /\ Silence.len = 0 /\ Silence \in AirType
  BY Defaults DEF Silence, AirType
<1>2. NoCode.once = 0 /\ NoCode.rpt = 0
  BY DEF NoCode
<1>3. ~(NoCode.once + NoCode.rpt > 0)
  BY <1>2
<1> QED
  BY <1>1, <1>3 DEF Whole

LEMMA BurstWhole ==
  ASSUME NEW code \in SomeCode, NEW repeat \in BOOLEAN
  PROVE  /\ Burst(code, repeat, TRUE) \in AirType
         /\ Whole(Burst(code, repeat, TRUE))
<1>1. code.once \in Nat /\ code.rpt \in Nat /\ code.words \in Nat
  BY PrefixTyped DEF CodeType
<1> DEFINE Play(from, len) == [code |-> code, from |-> from, len |-> len]
           Fine(b) == b \in AirType /\ Whole(b)
<1>2. ASSUME NEW from \in Nat, NEW len \in Nat
      PROVE  Play(from, len) \in AirType
  BY DEF AirType
<1>3. ~Accepted(code) => Fine(Play(0, 0))
  BY <1>2 DEF Accepted, Whole
<1>4. Accepted(code) => /\ repeat /\ code.rpt > 0 => Fine(Play(code.once, code.rpt))
                        /\ code.once > 0 \/ code.rpt = 0 => Fine(Play(0, code.once))
                        /\ code.once = 0 => Fine(Play(0, code.rpt))
  BY <1>1, <1>2 DEF Accepted, Whole
<1>5. Burst(code, repeat, TRUE) =
        IF ~Accepted(code) THEN Play(0, 0)
        ELSE IF ~repeat /\ code.once > 0 THEN Play(0, code.once)
        ELSE IF ~repeat THEN Play(0, code.rpt)
        ELSE IF code.rpt > 0 THEN Play(code.once, code.rpt)
        ELSE Play(0, code.once)
  BY DEF Burst
<1> HIDE DEF Play, Fine
<1>6. Fine(Burst(code, repeat, TRUE))
  <2>1. CASE ~Accepted(code)
    BY <1>3, <1>5, <2>1
  <2>2. CASE Accepted(code) /\ repeat /\ code.rpt > 0
    BY <1>4, <1>5, <2>2
  <2>3. CASE Accepted(code) /\ repeat /\ ~(code.rpt > 0)
    <3>1. code.rpt = 0
      BY <1>1, <2>3
    <3>2. Burst(code, repeat, TRUE) = Play(0, code.once)
      BY <1>5, <2>3
    <3> QED
      BY <1>4, <2>3, <3>1, <3>2
  <2>4. CASE Accepted(code) /\ ~repeat /\ code.once > 0
    BY <1>4, <1>5, <2>4
  <2>5. CASE Accepted(code) /\ ~repeat /\ ~(code.once > 0)
    <3>1. code.once = 0
      BY <1>1, <2>5
    <3>2. Burst(code, repeat, TRUE) = Play(0, code.rpt)
      BY <1>5, <2>5
    <3> QED
      BY <1>4, <2>5, <3>1, <3>2
  <2> QED
    BY <2>1, <2>2, <2>3, <2>4, <2>5
<1> QED
  BY <1>6 DEF Fine

-----------------------------------------------------------------------------
(* The invariant.                                                          *)

\* Queue and heap together: what push(), pop() and a reset keep.
QueueInv == RingInv /\ HeapInv /\ PlayedAsAsked

QueueType ==
    /\ contents \in [Places -> Address \union {0}]
    /\ head \in Places /\ tail \in Places /\ items \in 0..QueueSize
    /\ heap \in [Address -> Cmd]
    /\ created \in 0..MaxCmds
    /\ live \subseteq Address /\ refused \subseteq Address
    /\ played \in [Address -> Nat]

LEMMA TypeSplit ==
  /\ TypeOK <=> /\ QueueType
                /\ files \in [Files -> File]
                /\ job \in JobType
                /\ air \in AirType
  /\ IInv <=> TypeOK /\ QueueInv /\ JobInv /\ Whole(air)
  BY DEF TypeOK, QueueType, JobType, AirType, IInv, QueueInv, Whole,
         WholeSectionPlayed

LEMMA SplitNext ==
  ASSUME QueueType', QueueInv', JobInv', files' \in [Files -> File],
         job' \in JobType, air' \in AirType, Whole(air)'
  PROVE  IInv'
  BY DEF TypeOK, QueueType, JobType, AirType, IInv, QueueInv, Whole,
         WholeSectionPlayed

\* An empty queue with no command before it.
EmptyQueue ==
    /\ contents = [p \in Places |-> 0]
    /\ head = 0 /\ tail = 0 /\ items = 0
    /\ heap = [a \in Address |-> NoCmd]
    /\ created = 0 /\ live = {} /\ refused = {}
    /\ played = [a \in Address |-> 0]

LEMMA EmptyQueueInv == EmptyQueue => QueueType /\ QueueInv
<1> SUFFICES ASSUME EmptyQueue PROVE QueueType /\ QueueInv
  OBVIOUS
<1> USE DEF EmptyQueue
<1>1. QueueType
  BY Defaults DEF QueueType, Places
<1>2. EntryPlaces = {} /\ Queued = {} /\ PlaceOf(items) = 0
  BY DEF EntryPlaces, Queued, PlaceOf
<1>3. RingInv
  BY <1>2 DEF RingInv
<1>4. HeapInv
  BY <1>2 DEF HeapInv
<1>5. PlayedAsAsked
  BY DEF PlayedAsAsked
<1> QED
  BY <1>1, <1>3, <1>4, <1>5 DEF QueueInv

LEMMA InitIInv == Init => IInv
<1> SUFFICES ASSUME Init PROVE IInv
  OBVIOUS
<1>1. QueueType /\ QueueInv
  BY EmptyQueueInv DEF Init, EmptyQueue
<1>2. files \in [Files -> File]
  BY Defaults DEF Init, NoFile, File
<1>3. job \in JobType /\ JobInv
  <2>1. created = 0 /\ job = Idle
    BY DEF Init
  <2> QED
    BY <2>1, IdleTyped DEF JobInv
<1>4. air \in AirType /\ Whole(air)
  BY SilenceWhole DEF Init
<1> QED
  BY <1>1, <1>2, <1>3, <1>4, TypeSplit

\* push(new Cmd(...)), whether there is room or not.
LEMMA PushKeeps ==
  ASSUME QueueType, QueueInv, created < MaxCmds,
         NEW code \in SomeCode, NEW repeat \in Counts, Push(code, repeat)
  PROVE  QueueType' /\ QueueInv'
<1> DEFINE cmd == created + 1
           new == [code |-> code, repeat |-> repeat, asked |-> repeat]
<1>1. /\ created' = cmd /\ cmd \in Address /\ created \in 0..MaxCmds
      /\ heap' = [heap EXCEPT ![cmd] = new]
      /\ live' = live \union {cmd}
      /\ played' = played
  BY DEF QueueType, Push, Address
<1>2. new \in Cmd
  BY DEF Cmd
<1>3. /\ heap' \in [Address -> Cmd]
      /\ heap'[cmd] = new
      /\ \A c \in Address \ {cmd} : heap'[c] = heap[c]
  BY <1>1, <1>2 DEF QueueType
<1>4. /\ Queued \subseteq 1..created /\ 1..created \subseteq Address
      /\ cmd \notin Queued /\ cmd \notin refused /\ cmd \notin 1..created
      /\ live \subseteq 1..created
  <2>1. Queued \subseteq 1..created
    BY QueuedIs DEF QueueInv, RingInv
  <2>2. 1..created \subseteq Address /\ cmd \notin 1..created
    BY <1>1 DEF Address
  <2> QED
    BY <2>1, <2>2 DEF QueueInv, HeapInv
<1>5. \A c \in Address : c # cmd /\ c > cmd => c > created
  BY <1>1 DEF Address
<1>6. /\ played[cmd] = 0 /\ played'[cmd] + Times(heap'[cmd].repeat) = Times(heap'[cmd].asked)
  <2>1. played[cmd] = 0
    BY <1>1 DEF QueueInv, HeapInv
  <2>2. Times(repeat) \in Nat
    BY Defaults
  <2> QED
    BY <1>1, <1>3, <2>1, <2>2
<1>7. PlayedAsAsked'
  <2>1. SUFFICES ASSUME NEW c \in 1..created', c \notin live'
                 PROVE  played'[c] = Times(heap'[c].asked)
    BY DEF PlayedAsAsked
  <2>2. c \in 1..created /\ c # cmd /\ c \notin live
    BY <1>1, <2>1
  <2> QED
    BY <1>1, <1>3, <1>4, <2>2 DEF QueueInv, PlayedAsAsked
<1>8. CASE IsFull
  <2>1. refused' = refused \union {cmd} /\ UNCHANGED queueVars
    BY <1>8 DEF Push
  <2>2. QueueType'
    BY <1>1, <1>3, <2>1 DEF QueueType, queueVars
  <2>3. RingInv'
    <3>1. \A i \in EntryPlaces : Entry(i)' = Entry(i) /\ Entry(i) \in 1..created'
      BY <1>1, <2>1 DEF Entry, PlaceOf, queueVars, QueueInv, RingInv
    <3> QED
      BY <2>1, <3>1 DEF RingInv, QueueInv, queueVars, EntryPlaces, PlaceOf
  <2>4. Queued' = Queued
    BY <2>1 DEF Queued, PlaceOf, queueVars
  <2>5. HeapInv'
    <3>1. live' = Queued' \union refused' /\ Queued' \intersect refused' = {}
      BY <1>1, <1>4, <2>1, <2>4 DEF QueueInv, HeapInv
    <3>2. refused' \subseteq 1..created'
      BY <1>1, <2>1 DEF QueueInv, HeapInv
    <3>3. \A c \in Queued' :
             played'[c] + Times(heap'[c].repeat) = Times(heap'[c].asked)
      BY <1>1, <1>3, <1>4, <2>4 DEF QueueInv, HeapInv
    <3>4. \A c \in Address : c > created' => played'[c] = 0
      BY <1>1, <1>5 DEF QueueInv, HeapInv, Address
    <3> QED
      BY <3>1, <3>2, <3>3, <3>4 DEF HeapInv
  <2> QED
    BY <1>7, <2>2, <2>3, <2>5 DEF QueueInv
<1>9. CASE ~IsFull
  <2>1. /\ contents' = [contents EXCEPT ![tail] = cmd]
        /\ tail' = NextPlace(tail) /\ items' = items + 1
        /\ UNCHANGED <<head, refused>>
    BY <1>9 DEF Push
  <2>2. items \in 0..(QueueSize - 1) /\ head \in Places /\ tail = PlaceOf(items)
    BY <1>9 DEF QueueType, IsFull, QueueInv, RingInv
  <2>3. tail' = PlaceOf(items)' /\ tail' \in Places
    <3>1. tail' = PlaceOf(items + 1) /\ items + 1 \in 0..QueueSize
      BY <2>1, <2>2, NextPlaceIs
    <3>2. PlaceOf(items)' = PlaceOf(items + 1)
      BY <2>1 DEF PlaceOf
    <3> QED
      BY <2>2, <3>1, <3>2, PlaceTyped
  <2>4. QueueType'
    BY <1>1, <1>3, <2>1, <2>2, <2>3 DEF QueueType
  <2>5. EntryPlaces' = EntryPlaces \union {items} /\ items \notin EntryPlaces
    BY <2>1, <2>2 DEF EntryPlaces
  <2>6. \A i \in EntryPlaces : Entry(i)' = Entry(i)
    <3>1. TAKE i \in EntryPlaces
    <3>2. /\ i \in 0..QueueSize /\ items \in 0..QueueSize
          /\ i < items /\ items - i < QueueSize
      BY <2>2 DEF EntryPlaces
    <3>3. PlaceOf(i) # tail /\ PlaceOf(i) \in Places
      BY <2>2, <3>2, PlacesDiffer, PlaceTyped
    <3>4. PlaceOf(i)' = PlaceOf(i)
      BY <2>1 DEF PlaceOf
    <3> QED
      BY <2>1, <3>3, <3>4 DEF Entry, QueueType
  <2>8. \A i \in EntryPlaces' :
           contents'[PlaceOf(i)'] = IF i = items THEN cmd ELSE Entry(i)
    <3>1. PlaceOf(items) \in Places
      BY <2>2 DEF QueueType
    <3>2. contents'[PlaceOf(items)] = cmd
      BY <2>1, <2>2, <3>1 DEF QueueType
    <3>3. \A i \in EntryPlaces' : PlaceOf(i)' = PlaceOf(i)
      BY <2>1 DEF PlaceOf
    <3> QED
      BY <2>5, <2>6, <3>2, <3>3 DEF Entry
  <2>9. RingInv'
    <3>1. \A i \in EntryPlaces' : contents'[PlaceOf(i)'] \in 1..created'
      BY <1>1, <2>5, <2>8 DEF QueueInv, RingInv
    <3>2. \A i, j \in EntryPlaces' :
             i < j => contents'[PlaceOf(i)'] < contents'[PlaceOf(j)']
      <4>1. TAKE i, j \in EntryPlaces'
      <4>2. HAVE i < j
      <4>3. i \in EntryPlaces
        BY <2>2, <2>5, <4>2 DEF EntryPlaces
      <4>4. Entry(i) \in 1..created
        BY <4>3 DEF QueueInv, RingInv
      <4>5. CASE j = items
        BY <1>1, <2>8, <4>3, <4>4, <4>5, <2>5
      <4>6. CASE j \in EntryPlaces
        BY <2>5, <2>8, <4>2, <4>3, <4>6 DEF QueueInv, RingInv
      <4> QED
        BY <2>5, <4>5, <4>6
    <3> QED
      BY <2>3, <3>1, <3>2 DEF RingInv, Entry
  <2>10. Queued' = Queued \union {cmd}
    <3>1. Queued' = {contents'[PlaceOf(i)'] : i \in EntryPlaces'}
      BY DEF Queued, EntryPlaces
    <3> QED
      BY <2>5, <2>8, <3>1, QueuedIs
  <2>11. HeapInv'
    <3>1. live' = Queued' \union refused' /\ Queued' \intersect refused' = {}
      BY <1>1, <1>4, <2>1, <2>10 DEF QueueInv, HeapInv
    <3>2. refused' \subseteq 1..created'
      BY <1>1, <2>1 DEF QueueInv, HeapInv
    <3>3. \A c \in Queued' :
             played'[c] + Times(heap'[c].repeat) = Times(heap'[c].asked)
      BY <1>1, <1>3, <1>4, <1>6, <2>10 DEF QueueInv, HeapInv
    <3>4. \A c \in Address : c > created' => played'[c] = 0
      BY <1>1, <1>5 DEF QueueInv, HeapInv, Address
    <3> QED
      BY <3>1, <3>2, <3>3, <3>4 DEF HeapInv
  <2> QED
    BY <1>7, <2>4, <2>9, <2>11 DEF QueueInv
<1> QED
  BY <1>8, <1>9

\* What the head of the queue is.
LEMMA HeadOfQueue ==
  ASSUME QueueType, QueueInv, items > 0
  PROVE  /\ Entry(0) = contents[head] /\ Entry(0) \in Queued
         /\ Entry(0) \in Address /\ Entry(0) \in live
         /\ heap[Entry(0)] \in Cmd /\ played[Entry(0)] \in Nat
         /\ Entry(0) \in 1..created
<1>1. 0 \in EntryPlaces /\ PlaceOf(0) = head
  BY DEF QueueType, EntryPlaces, PlaceOf, Places
<1>2. Entry(0) \in 1..created /\ Entry(0) \in Queued
  BY <1>1, QueuedIs DEF QueueInv, RingInv
<1> QED
  BY <1>1, <1>2 DEF Entry, QueueType, QueueInv, HeapInv, Address

\* Playing the head of the queue, for the last time and before.
LEMMA LoopKeeps ==
  ASSUME QueueType, QueueInv, Loop
  PROVE  QueueType' /\ QueueInv'
<1> DEFINE cmd == Entry(0)
           repeat == heap[cmd].repeat
<1>1. /\ items > 0 /\ cmd = contents[head] /\ cmd \in Queued
      /\ cmd \in Address /\ cmd \in live /\ cmd \in 1..created
      /\ heap[cmd] \in Cmd /\ played[cmd] \in Nat
  BY HeadOfQueue DEF Loop
<1>2. /\ played' = [played EXCEPT ![cmd] = @ + Turns(repeat)]
      /\ UNCHANGED <<created, refused>>
  BY <1>1 DEF Loop
<1>3. repeat \in Counts /\ heap[cmd].asked \in Counts
  BY <1>1 DEF Cmd
<1>4. repeat \in Int /\ Turns(repeat) \in Nat
      /\ Times(repeat) \in Nat /\ Times(heap[cmd].asked) \in Nat
  <2>1. repeat \in Int
    BY <1>3, Defaults
  <2>2. Times(repeat) \in 1..MaxTimes /\ Times(heap[cmd].asked) \in 1..MaxTimes
    BY <1>3, Defaults
  <2> HIDE DEF repeat
  <2>3. Turns(repeat) \in Nat
    BY <2>1 DEF Turns
  <2> QED
    BY <2>1, <2>2, <2>3
<1>5. /\ played' \in [Address -> Nat]
      /\ played'[cmd] = played[cmd] + Turns(repeat)
      /\ \A c \in Address \ {cmd} : played'[c] = played[c]
  BY <1>1, <1>2, <1>4 DEF QueueType
<1>6. \A c \in Address : c > created' => played'[c] = 0
  BY <1>1, <1>2, <1>5 DEF QueueInv, HeapInv, QueueType
<1>7. Queued \subseteq Address
  BY QueuedIs DEF QueueInv, RingInv, QueueType, Address
<1>8. CASE LastTurn(repeat)
  <2>1. /\ head' = NextPlace(head) /\ items' = items - 1
        /\ live' = live \ {cmd}
        /\ UNCHANGED <<contents, tail, heap>>
    BY <1>1, <1>8 DEF Loop
  <2>2. Turns(repeat) = Times(repeat)
    BY <1>4, <1>8 DEF LastTurn, Turns, Times
  <2>3. \A i \in 0..(QueueSize - 1) : PlaceOf(i)' = PlaceOf(i + 1)
    BY <2>1, PlaceAfterPop DEF QueueType
  <2>4. \A i \in EntryPlaces' :
           /\ i + 1 \in EntryPlaces
           /\ contents'[PlaceOf(i)'] = Entry(i + 1)
    BY <2>1, <2>3, <1>1 DEF EntryPlaces, QueueType, Entry
  <2>5. head' \in Places /\ items' \in 0..QueueSize /\ items' \in 0..(QueueSize - 1)
    BY <2>1, <1>1 DEF NextPlace, Places, QueueType
  <2>6. QueueType'
    BY <1>2, <1>5, <2>1, <2>5 DEF QueueType
  <2>7. RingInv'
    <3>1. PlaceOf(items)' = PlaceOf(items)
      BY <1>1, <2>1 DEF QueueType, PlaceOf, NextPlace, Places
    <3>2. tail' = PlaceOf(items)'
      BY <2>1, <3>1 DEF QueueInv, RingInv
    <3>3. \A i \in EntryPlaces' : contents'[PlaceOf(i)'] \in 1..created'
      BY <1>2, <2>4 DEF QueueInv, RingInv
    <3>4. \A i, j \in EntryPlaces' :
             i < j => contents'[PlaceOf(i)'] < contents'[PlaceOf(j)']
      <4>1. TAKE i, j \in EntryPlaces'
      <4>2. HAVE i < j
      <4>3. i \in Int /\ j \in Int /\ i + 1 < j + 1
        BY <4>2 DEF EntryPlaces
      <4> QED
        BY <2>4, <4>3 DEF QueueInv, RingInv
    <3> QED
      BY <3>2, <3>3, <3>4 DEF RingInv, Entry
  <2>8. Queued' = Queued \ {cmd}
    <3>1. Queued' = {contents'[PlaceOf(i)'] : i \in EntryPlaces'}
      BY DEF Queued, EntryPlaces
    <3>2. Queued' = {Entry(i + 1) : i \in EntryPlaces'}
      BY <2>4, <3>1
    <3>3. Queued' \subseteq Queued
      BY <2>4, <3>2, QueuedIs
    <3>4. cmd \notin Queued'
      <4>1. ASSUME NEW i \in EntryPlaces' PROVE Entry(i + 1) # cmd
        <5>1. i + 1 \in EntryPlaces /\ 0 \in EntryPlaces /\ 0 < i + 1
          BY <1>1, <2>4 DEF EntryPlaces, QueueType
        <5>2. cmd < Entry(i + 1) /\ Entry(i + 1) \in 1..created
          BY <5>1 DEF QueueInv, RingInv
        <5> QED
          BY <1>1, <5>2
      <4> QED
        BY <3>2, <4>1
    <3>5. \A c \in Queued \ {cmd} : c \in Queued'
      <4>1. TAKE c \in Queued \ {cmd}
      <4>2. PICK i \in EntryPlaces : c = Entry(i)
        BY QueuedIs
      <4>3. i - 1 \in EntryPlaces' /\ (i - 1) + 1 = i
        BY <2>1, <4>2 DEF EntryPlaces, QueueType
      <4> QED
        BY <3>2, <4>2, <4>3
    <3> QED
      BY <3>3, <3>4, <3>5
  <2>9. HeapInv'
    <3>1. live' = Queued' \union refused' /\ Queued' \intersect refused' = {}
      BY <1>1, <1>2, <2>1, <2>8 DEF QueueInv, HeapInv
    <3>2. refused' \subseteq 1..created'
      BY <1>2 DEF QueueInv, HeapInv
    <3>3. \A c \in Queued' :
             played'[c] + Times(heap'[c].repeat) = Times(heap'[c].asked)
      BY <1>5, <1>7, <2>1, <2>8 DEF QueueInv, HeapInv
    <3> QED
      BY <1>6, <3>1, <3>2, <3>3 DEF HeapInv
  <2>10. PlayedAsAsked'
    <3>1. SUFFICES ASSUME NEW c \in 1..created', c \notin live'
                   PROVE  played'[c] = Times(heap'[c].asked)
      BY DEF PlayedAsAsked
    <3>2. c \in 1..created /\ c \in Address
      BY <1>2, <3>1 DEF QueueType, Address
    <3>3. CASE c = cmd
      BY <1>1, <1>5, <2>1, <2>2, <3>3 DEF QueueInv, HeapInv
    <3>4. CASE c # cmd
      BY <1>5, <2>1, <3>1, <3>2, <3>4 DEF QueueInv, PlayedAsAsked
    <3> QED
      BY <3>3, <3>4
  <2> QED
    BY <2>6, <2>7, <2>9, <2>10 DEF QueueInv
<1>9. CASE ~LastTurn(repeat)
  <2>1. /\ heap' = [heap EXCEPT ![cmd].repeat = @ - 1]
        /\ UNCHANGED <<queueVars, live>>
    BY <1>1, <1>9 DEF Loop
  <2>2. /\ repeat > 1 /\ repeat - 1 \in Counts
        /\ Turns(repeat) = 1 /\ Times(repeat) = repeat
        /\ Times(repeat - 1) = repeat - 1
    BY <1>3, <1>4, <1>9 DEF LastTurn, Turns, Times, Counts
  <2>3. /\ heap' \in [Address -> Cmd]
        /\ heap'[cmd].repeat = repeat - 1
        /\ \A c \in Address : heap'[c].asked = heap[c].asked
        /\ \A c \in Address \ {cmd} : heap'[c] = heap[c]
    <3>1. heap'[cmd] = [heap[cmd] EXCEPT !.repeat = @ - 1]
      BY <1>1, <2>1 DEF QueueType
    <3>2. /\ heap'[cmd] \in Cmd /\ heap'[cmd].repeat = repeat - 1
          /\ heap'[cmd].asked = heap[cmd].asked
      BY <1>1, <2>2, <3>1 DEF Cmd
    <3>3. \A c \in Address \ {cmd} : heap'[c] = heap[c]
      BY <2>1 DEF QueueType
    <3>4. heap' \in [Address -> Cmd]
      BY <1>1, <2>1, <3>2, <3>3 DEF QueueType
    <3> QED
      BY <3>2, <3>3, <3>4
  <2>4. QueueType'
    BY <1>2, <1>5, <2>1, <2>3 DEF QueueType, queueVars
  <2>5. RingInv'
    BY <1>2, <2>1 DEF QueueInv, RingInv, queueVars, EntryPlaces, Entry, PlaceOf
  <2>6. Queued' = Queued
    BY <2>1 DEF Queued, PlaceOf, queueVars
  <2>7. HeapInv'
    <3>1. live' = Queued' \union refused' /\ Queued' \intersect refused' = {}
      BY <1>2, <2>1, <2>6 DEF QueueInv, HeapInv
    <3>2. refused' \subseteq 1..created'
      BY <1>2 DEF QueueInv, HeapInv
    <3>3. ASSUME NEW c \in Queued'
          PROVE  played'[c] + Times(heap'[c].repeat) = Times(heap'[c].asked)
      <4>0. c \in Queued /\ c \in Address
        BY <1>7, <2>6
      <4>1. CASE c = cmd
        BY <1>1, <1>4, <1>5, <2>2, <2>3, <4>0, <4>1 DEF QueueInv, HeapInv
      <4>2. CASE c # cmd
        BY <1>5, <2>3, <4>0, <4>2 DEF QueueInv, HeapInv
      <4> QED
        BY <4>1, <4>2
    <3> QED
      BY <1>6, <3>1, <3>2, <3>3 DEF HeapInv
  <2>8. PlayedAsAsked'
    <3>1. SUFFICES ASSUME NEW c \in 1..created', c \notin live'
                   PROVE  played'[c] = Times(heap'[c].asked)
      BY DEF PlayedAsAsked
    <3>2. c \in 1..created /\ c \in Address /\ c # cmd /\ c \notin live
      BY <1>1, <1>2, <2>1, <3>1 DEF QueueType, Address
    <3> QED
      BY <1>5, <2>3, <3>2 DEF QueueInv, PlayedAsAsked
  <2> QED
    BY <2>4, <2>5, <2>7, <2>8 DEF QueueInv
<1> QED
  BY <1>8, <1>9

LEMMA QueueStays ==
  ASSUME QueueType, QueueInv, UNCHANGED <<queueVars, heapVars>>
  PROVE  QueueType' /\ QueueInv'
<1> USE DEF queueVars, heapVars
<1>1. QueueType'
  BY DEF QueueType
<1>2. RingInv'
  BY DEF QueueInv, RingInv, Entry, EntryPlaces, PlaceOf
<1>3. HeapInv'
  <2>1. Queued' = Queued
    BY DEF Queued, PlaceOf
  <2> QED
    BY <2>1 DEF QueueInv, HeapInv
<1>4. PlayedAsAsked'
  BY DEF QueueInv, PlayedAsAsked
<1> QED
  BY <1>1, <1>2, <1>3, <1>4 DEF QueueInv

\* The running callback, which goes on with the next part or drops the rest.
LEMMA JobKeeps ==
  ASSUME TypeOK, job.rest # <<>>, NEW rest \in {Tail(job.rest), <<>>},
         NEW code \in SomeCode, NEW repeat \in Counts, NEW seen \in BOOLEAN,
         ParsedUpTo(rest, code, repeat, seen)
  PROVE  /\ job' \in JobType
         /\ Len(job'.rest) \in Nat /\ Len(job'.rest) <= Len(job.rest) - 1
<1>1. /\ job.rest \in Seq(Part) /\ Tail(job.rest) \in Seq(Part)
      /\ Len(Tail(job.rest)) = Len(job.rest) - 1 /\ Len(job.rest) \in Nat
  BY HeadTailProperties, TypeSplit DEF JobType
<1>2. rest \in Seq(Part) /\ Len(rest) \in Nat /\ Len(rest) <= Len(job.rest) - 1
  <2>1. Len(Tail(job.rest)) \in Nat
    BY <1>1
  <2>2. CASE rest = <<>>
    BY <1>1, <2>1, <2>2
  <2> QED
    BY <1>1, <2>1, <2>2
<1>3. job' = [job EXCEPT !.rest = rest, !.code = code, !.repeat = repeat,
                         !.seen = seen]
  BY DEF ParsedUpTo
<1>4. job'.rest = rest
  BY <1>3, TypeSplit DEF JobType
<1> QED
  BY <1>2, <1>3, <1>4, TypeSplit DEF JobType

\* A part that may push a command.
LEMMA PartKeeps ==
  ASSUME IInv, job.rest # <<>>, NEW code \in SomeCode, NEW repeat \in Counts,
         NEW seen \in BOOLEAN, NEW rest \in {Tail(job.rest), <<>>},
         ParsedUpTo(rest, code, repeat, seen),
         PushIfSending(code, repeat) \/ UNCHANGED <<queueVars, heapVars>>,
         UNCHANGED <<files, air>>
  PROVE  IInv'
<1>1. job' \in JobType /\ Len(job'.rest) \in Nat /\ Len(job'.rest) <= Len(job.rest) - 1
  BY JobKeeps, TypeSplit
<1>2. /\ created \in Nat /\ Len(job.rest) \in Nat /\ Len(job.rest) > 0
      /\ created + Len(job.rest) <= MaxCmds
  <2>1. job.rest \in Seq(Part)
    BY TypeSplit DEF JobType
  <2> QED
    BY <2>1, TypeSplit, HeadTailProperties DEF JobInv, QueueType
<1>3. CASE Push(code, repeat)
  <2>1. QueueType' /\ QueueInv'
    BY <1>2, <1>3, PushKeeps, TypeSplit
  <2>2. created' = created + 1
    BY <1>3 DEF Push
  <2>3. JobInv'
    <3>1. PICK c \in Nat, n \in Nat : c = created /\ n = Len(job.rest)
      BY <1>2
    <3>2. PICK k \in Nat : k = Len(job'.rest)
      BY <1>1
    <3>3. k <= n - 1
      BY <1>1, <3>1, <3>2
    <3>4. created' = c + 1
      BY <2>2, <3>1
    <3>5. c + n <= MaxCmds
      BY <1>2, <3>1
    <3>6. (c + 1) + k <= MaxCmds
      BY <3>3, <3>5
    <3> QED
      BY <3>2, <3>4, <3>6 DEF JobInv
  <2>4. files' \in [Files -> File] /\ air' \in AirType /\ Whole(air)'
    BY TypeSplit
  <2> QED
    BY <1>1, <2>1, <2>3, <2>4, SplitNext
<1>4. CASE UNCHANGED <<queueVars, heapVars>>
  <2>1. QueueType' /\ QueueInv'
    BY <1>4, TypeSplit, QueueStays
  <2>2. JobInv'
    BY <1>1, <1>2, <1>4 DEF JobInv, heapVars
  <2>3. files' \in [Files -> File] /\ air' \in AirType /\ Whole(air)'
    BY TypeSplit
  <2> QED
    BY <1>1, <2>1, <2>2, <2>3, SplitNext
<1> QED
  BY <1>3, <1>4 DEF PushIfSending

-----------------------------------------------------------------------------
(* Every step keeps the invariant.                                         *)

LEMMA MessageComesInv ==
  ASSUME IInv, NEW kind \in {"send", "save"}, NEW file \in Files,
         NEW parts \in Messages, MessageComes(kind, file, parts)
  PROVE  IInv'
<1>1. job' = NewJob(kind, file, parts) /\ created + Len(parts) <= MaxCmds
      /\ UNCHANGED <<queueVars, heapVars, files, air>>
  BY DEF MessageComes
<1>2. job' \in JobType
  BY <1>1, NewJobTyped, MessagesAssumption
<1>3. job'.rest = parts
  BY <1>1 DEF NewJob
<1>4. JobInv'
  BY <1>1, <1>3 DEF JobInv, heapVars
<1>5. QueueType' /\ QueueInv'
  BY <1>1, QueueStays, TypeSplit
<1>6. files' \in [Files -> File] /\ air' \in AirType /\ Whole(air)'
  BY <1>1, TypeSplit
<1> QED
  BY <1>2, <1>4, <1>5, <1>6, SplitNext

\* What the code, the count and the flag become that a part leads to.
LEMMA ParsePartInv ==
  ASSUME IInv, ParsePart
  PROVE  IInv'
<1>1. /\ job.rest # <<>> /\ job.rest \in Seq(Part) /\ Head(job.rest) \in Part
      /\ job.code \in SomeCode /\ job.repeat \in Counts /\ job.seen \in BOOLEAN
      /\ UNCHANGED <<files, air>>
  <2>1. job.rest # <<>> /\ job \in JobType
    BY TypeSplit DEF ParsePart
  <2> QED
    BY <2>1, HeadTailProperties DEF ParsePart, JobType
<1> DEFINE part == Head(job.rest)
<1>2. CASE part.key = "repeat" /\ ReadRepeat(part.value)
  <2>1. part.value \in Counts
    BY <1>1, <1>2 DEF Part
  <2> QED
    BY <1>1, <1>2, <2>1, PartKeeps DEF ReadRepeat, Parsed
<1>3. CASE part.key = "code" /\ ReadCode(part.value)
  <2>1. part.value \in SomeCode
    BY <1>1, <1>3 DEF Part
  <2> QED
    <3>1. CASE Parsed(part.value, job.repeat, job.seen)
               /\ PushIfSending(part.value, job.repeat)
      BY <1>1, <2>1, <3>1, PartKeeps DEF Parsed
    <3>2. ASSUME NEW cut \in TextUpTo(part.value, KvWords), part.value.words > KvWords,
                 ParsedUpTo(<<>>, cut, job.repeat, job.seen),
                 PushIfSending(cut, job.repeat)
          PROVE  IInv'
      BY <1>1, <2>1, <3>2, CutTyped, PartKeeps
    <3> QED
      BY <1>3, <3>1, <3>2 DEF ReadCode
<1>4. CASE part.key = "file" /\ ReadFile(part.value)
  <2>1. part.value \in Files
    BY <1>1, <1>4 DEF Part
  <2> DEFINE file == files[part.value]
             repeat == IF file.counted /\ ~job.seen THEN file.repeat
                       ELSE job.repeat
  <2>2. file \in File
    BY <2>1, TypeSplit
  <2>3. file.code \in SomeCode /\ file.repeat \in Counts /\ repeat \in Counts
    BY <1>1, <2>2 DEF File
  <2> HIDE DEF repeat
  <2>4. \/ Parsed(file.code, repeat, job.seen) /\ PushIfSending(file.code, repeat)
        \/ /\ Parsed(job.code, job.repeat, job.seen)
           /\ UNCHANGED <<queueVars, heapVars>>
    BY <1>4 DEF ReadFile, repeat
  <2> QED
    BY <1>1, <2>3, <2>4, PartKeeps DEF Parsed
<1>5. CASE part.key = "other" /\ SkipPart
  BY <1>1, <1>5, PartKeeps DEF SkipPart, Parsed
<1> QED
  BY <1>2, <1>3, <1>4, <1>5 DEF ParsePart

LEMMA CallbackEndsInv ==
  ASSUME IInv, CallbackEnds
  PROVE  IInv'
<1>1. job' = Idle /\ UNCHANGED <<queueVars, heapVars, air>>
  BY DEF CallbackEnds
<1>2. job' \in JobType /\ Len(job'.rest) = 0
  BY <1>1, IdleTyped
<1>3. files' \in [Files -> File]
  <2>1. CASE UNCHANGED files
    BY <2>1, TypeSplit
  <2>2. CASE files' = [files EXCEPT ![job.file] =
                          [there |-> TRUE, code |-> job.code,
                           counted |-> TRUE, repeat |-> job.repeat]]
    <3>1. [there |-> TRUE, code |-> job.code,
           counted |-> TRUE, repeat |-> job.repeat] \in File
      BY TypeSplit DEF JobType, File
    <3> QED
      BY <2>2, <3>1, TypeSplit
  <2> QED
    BY <2>1, <2>2 DEF CallbackEnds
<1>4. QueueType' /\ QueueInv'
  BY <1>1, QueueStays, TypeSplit
<1>5. JobInv'
  BY <1>1, <1>2, TypeSplit DEF JobInv, heapVars, QueueType
<1>6. air' \in AirType /\ Whole(air)'
  BY <1>1, TypeSplit DEF Whole
<1> QED
  BY <1>2, <1>3, <1>4, <1>5, <1>6, SplitNext

LEMMA LoopInv ==
  ASSUME IInv, Loop
  PROVE  IInv'
<1>1. QueueType' /\ QueueInv'
  BY LoopKeeps, TypeSplit
<1>2. air' \in AirType /\ Whole(air)'
  <2>1. contents[head] \in Address
    BY HeadOfQueue, TypeSplit DEF Loop
  <2>2. heap[contents[head]].code \in SomeCode
    BY <2>1, TypeSplit DEF QueueType, Cmd
  <2>3. air' = Burst(heap[contents[head]].code, heap[contents[head]].repeat # 0, TRUE)
    BY DEF Loop
  <2>4. air' \in AirType /\ Whole(air')
    BY <2>2, <2>3, BurstWhole
  <2> QED
    BY <2>4 DEF Whole
<1>3. UNCHANGED <<created, files, job>>
  BY DEF Loop
<1> QED
  BY <1>1, <1>2, <1>3, SplitNext, TypeSplit DEF JobInv

LEMMA RestartInv ==
  ASSUME IInv, Restart
  PROVE  IInv'
<1>1. EmptyQueue' /\ job' = Idle /\ air' = Silence
  BY DEF Restart, EmptyQueue
<1>2. QueueType' /\ QueueInv'
  BY <1>1, EmptyQueueInv, PTL
<1>3. job' \in JobType /\ Len(job'.rest) = 0 /\ created' = 0
  BY <1>1, IdleTyped DEF EmptyQueue
<1>4. JobInv'
  BY <1>3 DEF JobInv
<1>5. air' \in AirType /\ Whole(air)'
  BY <1>1, SilenceWhole DEF Whole
<1>6. files' \in [Files -> File]
  <2>1. CASE UNCHANGED files
    BY <2>1, TypeSplit
  <2>2. ASSUME NEW n \in CutAt, NEW code \in TextUpTo(job.code, n),
               n <= job.code.words,
               files' = [files EXCEPT ![job.file] =
                            [there |-> TRUE, code |-> code,
                             counted |-> FALSE, repeat |-> 0]]
        PROVE  files' \in [Files -> File]
    <3>1. job.code \in SomeCode /\ job.code.words \in Nat
      BY TypeSplit, PrefixTyped DEF JobType, CodeType
    <3>2. n \in 0..job.code.words
      BY <2>2, <3>1, KvAssumption
    <3>3. code \in SomeCode
      BY <2>2, <3>1, <3>2, PrefixTyped
    <3>4. [there |-> TRUE, code |-> code, counted |-> FALSE, repeat |-> 0] \in File
      BY <3>3, Defaults DEF File
    <3> QED
      BY <2>2, <3>4, TypeSplit
  <2> QED
    BY <2>1, <2>2 DEF Restart
<1> QED
  BY <1>2, <1>3, <1>4, <1>5, <1>6, SplitNext

LEMMA NextIInv ==
  ASSUME IInv, [Next]_vars
  PROVE  IInv'
<1>1. CASE ParsePart \/ CallbackEnds \/ Loop \/ Restart
  BY <1>1, ParsePartInv, CallbackEndsInv, LoopInv, RestartInv
<1>2. ASSUME NEW parts \in Messages, NEW file \in Files,
             \/ MessageComes("send", AnyFile, parts)
             \/ MessageComes("save", file, parts)
      PROVE  IInv'
  BY <1>2, MessageComesInv, Defaults
<1>3. CASE UNCHANGED vars
  <2>1. UNCHANGED <<queueVars, heapVars, files, job, air>>
    BY <1>3 DEF vars
  <2>2. QueueType' /\ QueueInv'
    BY <2>1, QueueStays, TypeSplit
  <2>3. JobInv' /\ Whole(air)'
    BY <2>1, TypeSplit DEF JobInv, Whole, heapVars
  <2> QED
    BY <2>1, <2>2, <2>3, SplitNext, TypeSplit
<1> QED
  BY <1>1, <1>2, <1>3 DEF Next

LEMMA Invariance == Spec => []IInv
<1> QED
  BY InitIInv, NextIInv, PTL DEF Spec

-----------------------------------------------------------------------------
(* The theorems about states.                                              *)

\* The variables keep their types: head and tail stay inside the array.
THEOREM RemoteTypes == Spec => []TypeOK
<1>1. IInv => TypeOK
  BY DEF IInv
<1> QED
  BY <1>1, Invariance, PTL

\* The ring holds what has not been played, in order, and nothing is deleted
\* too early or, once it was queued, never.
THEOREM QueueAndHeapAgree == Spec => []QueueMatchesHeap
<1>1. IInv => QueueMatchesHeap
  BY DEF IInv, RingInv, HeapInv, QueueMatchesHeap, Entry, EntryPlaces
<1> QED
  BY <1>1, Invariance, PTL

\* Commands are played as often as was asked for.
THEOREM AsOftenAsAsked == Spec => []PlayedAsAsked
<1>1. IInv => PlayedAsAsked
  BY DEF IInv
<1> QED
  BY <1>1, Invariance, PTL

\* What is played is a whole section of a code, and nothing of a text that does
\* not hold what its header says, wherever kv or a reset cut it.
THEOREM SectionsAreWhole == Spec => []WholeSectionPlayed
<1>1. IInv => WholeSectionPlayed
  BY DEF IInv
<1> QED
  BY <1>1, Invariance, PTL

-----------------------------------------------------------------------------
(* IRRemote implements PlayList.                                           *)

\* The i-th command that waits.
WaitingAt(i) == WaitingCmd(heap[contents[PlaceOf(i - 1)]])

LEMMA WaitingIs ==
  /\ waiting = [i \in 1..items |-> WaitingAt(i)]
  /\ \A i : WaitingAt(i) = WaitingCmd(heap[Entry(i - 1)])
  /\ items \in Nat => \A i \in 1..items : i - 1 \in EntryPlaces
  BY DEF waiting, WaitingAt, Entry, EntryPlaces

LEMMA WaitingTyped ==
  ASSUME IInv
  PROVE  /\ items \in Nat /\ waiting \in Seq(List!Command)
         /\ Len(waiting) = items
         /\ \A i \in 1..items : WaitingAt(i) \in List!Command
<1>1. items \in Nat
  BY TypeSplit DEF QueueType
<1>2. ASSUME NEW i \in 1..items PROVE WaitingAt(i) \in List!Command
  <2>1. Entry(i - 1) \in 1..created /\ created \in 0..MaxCmds
    BY <1>1, WaitingIs, TypeSplit DEF QueueInv, RingInv, QueueType
  <2>2. heap[Entry(i - 1)] \in Cmd
    BY <2>1, TypeSplit DEF QueueType, Address
  <2>3. /\ heap[Entry(i - 1)].code \in SomeCode
        /\ heap[Entry(i - 1)].repeat \in Int
        /\ Times(heap[Entry(i - 1)].repeat) \in 1..MaxTimes
    BY <2>2, Defaults DEF Cmd
  <2>4. (heap[Entry(i - 1)].repeat < -1) \in BOOLEAN
    BY <2>3
  <2>5. WaitingCmd(heap[Entry(i - 1)]) \in List!Command
    BY <2>3, <2>4 DEF WaitingCmd, List!Command
  <2> QED
    BY <2>5, WaitingIs
<1> QED
  BY <1>1, <1>2, WaitingIs

LEMMA InitList == Init => List!Init
<1> SUFFICES ASSUME Init PROVE waiting = <<>>
  BY DEF List!Init
<1> QED
  BY WaitingIs DEF Init

LEMMA WaitingStays ==
  ASSUME UNCHANGED <<queueVars, heapVars>>
  PROVE  UNCHANGED waiting
  BY DEF waiting, queueVars, heapVars, PlaceOf

LEMMA PushIsAccept ==
  ASSUME IInv, IInv', created < MaxCmds, NEW code \in SomeCode,
         NEW repeat \in Counts, Push(code, repeat)
  PROVE  List!Accept \/ UNCHANGED waiting
<1> DEFINE cmd == created + 1
           new == [code |-> code, repeat |-> repeat, asked |-> repeat]
<1>1. /\ cmd \in Address /\ items \in 0..QueueSize
      /\ heap \in [Address -> Cmd] /\ heap' = [heap EXCEPT ![cmd] = new]
      /\ contents \in [Places -> Address \union {0}] /\ head \in Places
      /\ 1..created \subseteq Address /\ created \in Nat
  BY TypeSplit DEF QueueType, Push, Address
<1>2. \A i \in 1..items : /\ contents[PlaceOf(i - 1)] \in 1..created
                          /\ contents[PlaceOf(i - 1)] # cmd
  <2>1. \A i \in 1..items : i - 1 \in EntryPlaces
    BY <1>1, WaitingIs
  <2>2. \A k \in 1..created : k # cmd
    BY <1>1
  <2> QED
    BY <2>1, <2>2, TypeSplit DEF QueueInv, RingInv, Entry
<1>3. CASE IsFull
  <2>1. UNCHANGED queueVars
    BY <1>3 DEF Push
  <2>2. \A i \in 1..items : WaitingAt(i)' = WaitingAt(i)
    BY <1>1, <1>2, <2>1 DEF queueVars, WaitingAt, PlaceOf
  <2>3. waiting' = [i \in 1..items' |-> WaitingAt(i)']
    BY DEF waiting, WaitingAt
  <2>4. items' = items
    BY <2>1 DEF queueVars
  <2> QED
    BY <2>2, <2>3, <2>4, WaitingIs
<1>4. CASE ~IsFull
  <2>1. /\ contents' = [contents EXCEPT ![tail] = cmd]
        /\ items' = items + 1 /\ head' = head
    BY <1>4 DEF Push
  <2>2. items \in 0..(QueueSize - 1) /\ tail = PlaceOf(items) /\ tail \in Places
    BY <1>1, <1>4, TypeSplit DEF IsFull, QueueInv, RingInv, QueueType
  <2>3. ASSUME NEW i \in 1..items PROVE WaitingAt(i)' = WaitingAt(i)
    <3>1. PlaceOf(i - 1) # tail /\ PlaceOf(i - 1) \in Places
      <4>1. /\ i - 1 \in 0..QueueSize /\ items \in 0..QueueSize
            /\ i - 1 < items /\ items - (i - 1) < QueueSize + 1
            /\ items - (i - 1) <= items
        BY <2>2
      <4>2. items - (i - 1) < QueueSize
        BY <2>2
      <4> QED
        BY <1>1, <2>2, <4>1, <4>2, PlacesDiffer, PlaceTyped
    <3>2. PlaceOf(i - 1)' = PlaceOf(i - 1)
      BY <2>1 DEF PlaceOf
    <3>3. contents'[PlaceOf(i - 1)] = contents[PlaceOf(i - 1)]
      BY <1>1, <2>1, <3>1
    <3>4. heap'[contents[PlaceOf(i - 1)]] = heap[contents[PlaceOf(i - 1)]]
      BY <1>1, <1>2
    <3> QED
      BY <3>2, <3>3, <3>4 DEF WaitingAt
  <2>4. PICK n \in Nat : n = items
    BY <1>1
  <2>5. WaitingAt(n + 1)' = WaitingCmd(new)
    <3>1. (n + 1) - 1 = n
      OBVIOUS
    <3>2. PlaceOf(n)' = tail
      BY <2>1, <2>2, <2>4 DEF PlaceOf
    <3>3. contents'[tail] = cmd /\ heap'[cmd] = new
      BY <1>1, <2>1, <2>2, TypeSplit
    <3> QED
      BY <3>1, <3>2, <3>3 DEF WaitingAt
  <2>6. waiting' = Append(waiting, WaitingCmd(new))
    <3>1. waiting' = [i \in 1..(n + 1) |-> WaitingAt(i)']
      BY <2>1, <2>4 DEF waiting, WaitingAt
    <3>2. waiting = [i \in 1..n |-> WaitingAt(i)]
      BY <2>4, WaitingIs
    <3>3. waiting \in Seq(List!Command) /\ Len(waiting) = n
      BY <2>4, WaitingTyped
    <3>4. Append(waiting, WaitingCmd(new)) =
            [i \in 1..(n + 1) |-> IF i <= n THEN waiting[i] ELSE WaitingCmd(new)]
      BY <3>3
    <3>5. \A i \in 1..(n + 1) : WaitingAt(i)' =
             IF i <= n THEN waiting[i] ELSE WaitingCmd(new)
      BY <2>3, <2>4, <2>5, <3>2
    <3> QED
      BY <3>1, <3>4, <3>5
  <2>7. WaitingCmd(new) \in List!Command
    <3>1. Times(repeat) \in 1..MaxTimes /\ repeat \in Int
      BY Defaults
    <3>2. (repeat < -1) \in BOOLEAN
      BY <3>1
    <3> QED
      BY <3>1, <3>2 DEF WaitingCmd, List!Command
  <2>8. Len(waiting) < QueueSize
    BY <2>2, WaitingTyped
  <2> QED
    BY <2>6, <2>7, <2>8 DEF List!Accept
<1> QED
  BY <1>3, <1>4

LEMMA LoopIsPlaying ==
  ASSUME IInv, Loop
  PROVE  List!Finish \/ List!PlayOnce
<1> DEFINE cmd == Entry(0)
           repeat == heap[cmd].repeat
<1>1. /\ items > 0 /\ items \in 0..QueueSize /\ head \in Places
      /\ cmd = contents[head] /\ cmd \in Address /\ heap[cmd] \in Cmd
      /\ heap \in [Address -> Cmd]
  BY HeadOfQueue, TypeSplit DEF Loop, QueueType
<1>2. repeat \in Int
  BY <1>1, Defaults DEF Cmd
<1>3. PICK n \in Nat : n = items
  BY <1>1
<1>4. /\ waiting \in Seq(List!Command) /\ Len(waiting) = n
      /\ waiting = [i \in 1..n |-> WaitingAt(i)]
      /\ waiting # <<>> /\ Head(waiting) = waiting[1]
      /\ waiting[1] = WaitingCmd(heap[cmd])
  <2>1. waiting \in Seq(List!Command) /\ Len(waiting) = n
        /\ waiting = [i \in 1..n |-> WaitingAt(i)]
    BY <1>3, WaitingTyped, WaitingIs
  <2>2. n > 0
    BY <1>1, <1>3
  <2>3. waiting # <<>> /\ Head(waiting) = waiting[1]
    BY <2>1, <2>2
  <2>4. waiting[1] = WaitingCmd(heap[cmd])
    BY <2>1, <2>2, WaitingIs
  <2> QED
    BY <2>1, <2>3, <2>4
<1>5. /\ Head(waiting).left = Times(repeat)
      /\ Head(waiting).together = (repeat < -1)
  BY <1>4 DEF WaitingCmd
<1>6. CASE LastTurn(repeat)
  <2>1. /\ head' = NextPlace(head) /\ items' = n - 1
        /\ UNCHANGED <<contents, heap>>
    BY <1>1, <1>3, <1>6 DEF Loop
  <2>2. Head(waiting).together \/ Head(waiting).left = 1
    <3>1. CASE repeat < -1
      BY <1>5, <3>1
    <3>2. CASE ~(repeat < -1)
      <4>1. Times(repeat) = 1
        BY <1>2, <1>6, <3>2 DEF LastTurn, Times
      <4> QED
        BY <1>5, <4>1
    <3> QED
      BY <3>1, <3>2
  <2>3. \A i \in 1..(n - 1) : WaitingAt(i)' = WaitingAt(i + 1)
    <3>1. TAKE i \in 1..(n - 1)
    <3>2. i - 1 \in 0..(QueueSize - 1) /\ (i - 1) + 1 = (i + 1) - 1
      BY <1>1, <1>3
    <3>3. PlaceOf(i - 1)' = PlaceOf((i + 1) - 1)
      BY <1>1, <2>1, <3>2, PlaceAfterPop
    <3> QED
      BY <2>1, <3>3 DEF WaitingAt
  <2>4. waiting' = [i \in 1..(n - 1) |-> WaitingAt(i)']
    BY <2>1 DEF waiting, WaitingAt
  <2>5. Tail(waiting) = [i \in 1..(n - 1) |-> waiting[i + 1]]
    BY <1>4
  <2>6. \A i \in 1..(n - 1) : waiting[i + 1] = WaitingAt(i + 1)
    BY <1>4
  <2>7. waiting' = Tail(waiting)
    BY <2>3, <2>4, <2>5, <2>6
  <2> QED
    BY <1>4, <2>2, <2>7 DEF List!Finish
<1>7. CASE ~LastTurn(repeat)
  <2>1. heap' = [heap EXCEPT ![cmd].repeat = @ - 1] /\ UNCHANGED queueVars
    BY <1>1, <1>7 DEF Loop
  <2>2. /\ repeat > 1 /\ Times(repeat) = repeat /\ Times(repeat - 1) = repeat - 1
        /\ ~(repeat < -1) /\ ~(repeat - 1 < -1)
    BY <1>2, <1>7 DEF LastTurn, Times
  <2>3. heap'[cmd] = [heap[cmd] EXCEPT !.repeat = @ - 1]
    BY <1>1, <2>1
  <2>4. WaitingCmd(heap'[cmd]) = [WaitingCmd(heap[cmd]) EXCEPT !.left = @ - 1]
    <3>1. heap'[cmd].code = heap[cmd].code /\ heap'[cmd].repeat = repeat - 1
      BY <1>1, <2>3 DEF Cmd
    <3> QED
      BY <2>2, <3>1 DEF WaitingCmd
  <2>5. waiting' = [i \in 1..n |-> WaitingAt(i)']
    BY <1>3, <2>1 DEF waiting, WaitingAt, queueVars
  <2>6. \A i : Entry(i)' = Entry(i)
    BY <2>1 DEF Entry, PlaceOf, queueVars
  <2>7. WaitingAt(1)' = WaitingCmd(heap'[cmd])
    BY <2>6 DEF WaitingAt, Entry
  <2>8. ASSUME NEW i \in 2..n PROVE WaitingAt(i)' = WaitingAt(i)
    <3>1. i - 1 \in EntryPlaces /\ 0 \in EntryPlaces /\ 0 < i - 1
      BY <1>1, <1>3 DEF EntryPlaces
    <3>2. Entry(i - 1) \in 1..created /\ cmd < Entry(i - 1)
      BY <3>1, TypeSplit DEF QueueInv, RingInv
    <3>3. Entry(i - 1) \in Address /\ Entry(i - 1) # cmd
      BY <1>1, <3>2, TypeSplit DEF QueueType, Address
    <3>4. heap'[Entry(i - 1)] = heap[Entry(i - 1)]
      BY <1>1, <2>1, <3>3
    <3> QED
      BY <2>6, <3>4 DEF WaitingAt, Entry
  <2>9. waiting' = [waiting EXCEPT ![1].left = @ - 1]
    <3>1. \A i \in 1..n : WaitingAt(i)' =
             IF i = 1 THEN [waiting[1] EXCEPT !.left = @ - 1] ELSE waiting[i]
      BY <1>4, <2>4, <2>7, <2>8
    <3> QED
      BY <1>4, <2>5, <3>1
  <2>10. ~Head(waiting).together /\ Head(waiting).left > 1
    BY <1>5, <2>2
  <2> QED
    BY <1>4, <2>9, <2>10 DEF List!PlayOnce
<1> QED
  BY <1>6, <1>7

LEMMA StepList == IInv /\ IInv' /\ [Next]_vars => [List!Next]_waiting
<1> SUFFICES ASSUME IInv, IInv', [Next]_vars
             PROVE  List!Next \/ UNCHANGED waiting
  OBVIOUS
<1>1. CASE ParsePart
  <2>1. CASE UNCHANGED <<queueVars, heapVars>>
    BY <2>1, WaitingStays
  <2>2. ASSUME NEW code \in SomeCode, NEW repeat \in Counts, Push(code, repeat)
        PROVE  List!Next \/ UNCHANGED waiting
    <3>1. created < MaxCmds
      <4>1. job.rest \in Seq(Part) /\ job.rest # <<>> /\ created \in Nat
            /\ created + Len(job.rest) <= MaxCmds
        BY <1>1, TypeSplit DEF ParsePart, JobType, QueueType, JobInv
      <4>2. Len(job.rest) \in Nat /\ Len(job.rest) # 0
        BY <4>1
      <4> QED
        BY <4>1, <4>2
    <3> QED
      BY <2>2, <3>1, PushIsAccept DEF List!Next
  <2>3. \/ UNCHANGED <<queueVars, heapVars>>
        \/ \E code \in SomeCode, repeat \in Counts : Push(code, repeat)
    <3>1. /\ job.rest # <<>> /\ Head(job.rest) \in Part /\ job \in JobType
      BY <1>1, TypeSplit, HeadTailProperties DEF ParsePart, JobType
    <3> DEFINE part == Head(job.rest)
    <3>2. CASE part.key = "code" /\ ReadCode(part.value)
      <4>1. part.value \in SomeCode /\ job.repeat \in Counts
        BY <3>1, <3>2 DEF Part, JobType
      <4> QED
        BY <3>2, <4>1, CutTyped DEF ReadCode, PushIfSending
    <3>3. CASE part.key = "file" /\ ReadFile(part.value)
      <4>1. part.value \in Files
        BY <3>1, <3>3 DEF Part
      <4> DEFINE file == files[part.value]
                 repeat == IF file.counted /\ ~job.seen THEN file.repeat
                           ELSE job.repeat
      <4>2. file \in File
        BY <4>1, TypeSplit
      <4>3. file.code \in SomeCode /\ repeat \in Counts
        BY <3>1, <4>2 DEF File, JobType
      <4> HIDE DEF repeat
      <4>4. \/ PushIfSending(file.code, repeat)
            \/ UNCHANGED <<queueVars, heapVars>>
        BY <3>3 DEF ReadFile, repeat
      <4> QED
        BY <4>3, <4>4 DEF PushIfSending
    <3> QED
      BY <1>1, <3>2, <3>3 DEF ParsePart, ReadRepeat, SkipPart
  <2> QED
    BY <2>1, <2>2, <2>3
<1>2. CASE CallbackEnds
  BY <1>2, WaitingStays DEF CallbackEnds
<1>3. CASE Loop
  BY <1>3, LoopIsPlaying DEF List!Next
<1>4. CASE Restart
  <2>1. items' = 0
    BY <1>4 DEF Restart
  <2>2. waiting' = <<>>
    BY <2>1 DEF waiting
  <2> QED
    BY <2>2 DEF List!Next, List!Forget
<1>5. ASSUME NEW parts \in Messages, NEW file \in Files,
             \/ MessageComes("send", AnyFile, parts)
             \/ MessageComes("save", file, parts)
      PROVE  UNCHANGED waiting
  BY <1>5, WaitingStays DEF MessageComes
<1>6. CASE UNCHANGED vars
  BY <1>6, WaitingStays DEF vars
<1> QED
  BY <1>1, <1>2, <1>3, <1>4, <1>5, <1>6 DEF Next

\* Whatever is sent, saved, refused or reset, the ring buffer with loop()
\* behaves as the list of PlayList.
THEOREM ImplementsPlayList == Spec => PlaysList
  BY Invariance, InitList, StepList, PTL DEF Spec, PlaysList, List!Spec
-----------------------------------------------------------------------------
(* Codes.                                                                  *)

\* The ticks at which a mark and a space can be heard.
MarkTicks(us) == (us \div USECPERTICK + 1)..((us + MARK_EXCESS) \div USECPERTICK + 1)
SpaceTicks(us) == ((us - MARK_EXCESS) \div USECPERTICK + 1)..(us \div USECPERTICK + 1)

LEMMA HeardMark ==
  ASSUME NEW signal, NEW rawbuf, NEW rawlen, Heard(signal, rawbuf, rawlen),
         NEW k \in Nat, k \in 1..(rawlen - 1), k % 2 = 1, signal[k] \in Nat
  PROVE  rawbuf[k] \in MarkTicks(signal[k])
<1>1. PICK lag \in 0..100 : rawbuf[k] = (signal[k] + lag) \div 50 + 1
  BY DEF Heard, MARK_EXCESS, USECPERTICK
<1> DEFINE d == signal[k]
<1> HIDE DEF d
<1>2. d \in Nat /\ rawbuf[k] = (d + lag) \div 50 + 1
  BY <1>1 DEF d
<1>3. rawbuf[k] \in (d \div 50 + 1)..((d + 100) \div 50 + 1)
  BY <1>2
<1> QED
  BY <1>3 DEF MarkTicks, MARK_EXCESS, USECPERTICK, d

LEMMA HeardSpace ==
  ASSUME NEW signal, NEW rawbuf, NEW rawlen, Heard(signal, rawbuf, rawlen),
         NEW k \in Nat, k \in 1..(rawlen - 1), k % 2 = 0, signal[k] \in Nat
  PROVE  rawbuf[k] \in SpaceTicks(signal[k])
<1>1. PICK lag \in 0..100 : rawbuf[k] = (signal[k] - lag) \div 50 + 1
  <2>1. k % 2 # 1
    OBVIOUS
  <2>2. \E lag \in 0..MARK_EXCESS :
          rawbuf[k] = (IF k % 2 = 1 THEN signal[k] + lag ELSE signal[k] - lag)
                        \div USECPERTICK + 1
    BY Zenon DEF Heard
  <2> QED
    BY <2>1, <2>2 DEF MARK_EXCESS, USECPERTICK
<1> DEFINE d == signal[k]
<1> HIDE DEF d
<1>2. d \in Nat /\ rawbuf[k] = (d - lag) \div 50 + 1
  BY <1>1 DEF d
<1>3. rawbuf[k] \in ((d - 100) \div 50 + 1)..(d \div 50 + 1)
  BY <1>2
<1> QED
  BY <1>3 DEF SpaceTicks, MARK_EXCESS, USECPERTICK, d

\* What makes a protocol's bits readable: however they are heard, its marks and
\* spaces are taken for what they are, and a zero is not taken for a one.
Readable(p) ==
    /\ p.mark \in Nat /\ p.one \in Nat /\ p.zero \in Nat /\ p.bits \in Nat
    /\ \A t \in MarkTicks(p.mark) : MATCH_MARK(t, p.mark)
    /\ \A t \in SpaceTicks(p.one) : MATCH_SPACE(t, p.one)
    /\ \A t \in SpaceTicks(p.zero) :
          MATCH_SPACE(t, p.zero) /\ ~ MATCH_SPACE(t, p.one)

LEMMA ProtocolsReadable ==
  Readable(NEC) /\ Readable(LG) /\ Readable(JVC) /\ Readable(WHYNTER)
<1> USE DEF Readable, MarkTicks, SpaceTicks, MATCH_MARK, MATCH_SPACE, MATCH,
            TICKS_LOW, TICKS_HIGH, MARK_EXCESS, USECPERTICK
<1>1. Readable(NEC)
  BY DEF NEC
<1>2. Readable(LG)
  BY DEF LG
<1>3. Readable(JVC)
  BY DEF JVC
<1>4. Readable(WHYNTER)
  BY DEF WHYNTER
<1> QED
  BY <1>1, <1>2, <1>3, <1>4

\* The places of bit i behind a lead of n lengths.
LEMMA BitPlaces ==
  ASSUME NEW i \in Nat \ {0}, NEW n \in {0, 2, 4}
  PROVE  /\ n + 2 * i - 1 \in Nat /\ n + 2 * i - 1 > n
         /\ (n + 2 * i - 1) % 2 = 1
         /\ n + 2 * i \in Nat /\ n + 2 * i > n
         /\ (n + 2 * i) % 2 = 0 /\ (n + 2 * i - n) \div 2 = i
  OBVIOUS

\* A signal of a lead and p.bits bits, all of which rawbuf can hold, as heard.
Received(lead, p, bits, rawbuf, rawlen) ==
    /\ Len(lead) \in {0, 2, 4} /\ \A k \in 1..Len(lead) : lead[k] \in Nat
    /\ p.bits \in Nat /\ bits \in [1..p.bits -> BOOLEAN]
    /\ Len(lead) + 2 * p.bits + 1 < RAWBUF
    /\ Heard(Signal(lead, p, bits), rawbuf, rawlen)

\* Bits behind a lead are read as they were sent.
LEMMA BitsRead ==
  ASSUME NEW lead, NEW p, NEW bits, NEW rawbuf, NEW rawlen,
         Received(lead, p, bits, rawbuf, rawlen), Readable(p)
  PROVE  /\ BitsAt(rawbuf, Len(lead) + 1, p)
         /\ ValueAt(rawbuf, Len(lead) + 1, p) = bits
         /\ StopAt(rawbuf, Len(lead) + 1, p)
         /\ rawlen = Len(lead) + 2 * p.bits + 2
<1> DEFINE n == Len(lead)
           signal == Signal(lead, p, bits)
           start == n + 1
           last == n + 2 * p.bits + 1
<1>1. /\ n \in {0, 2, 4} /\ p.bits \in Nat /\ last \in Nat /\ last < RAWBUF
      /\ bits \in [1..p.bits -> BOOLEAN] /\ Heard(signal, rawbuf, rawlen)
  BY DEF Received
<1>2. Len(bits) = p.bits
  BY <1>1
<1>3. /\ DOMAIN signal = 1..last
      /\ \A k \in 1..last :
            signal[k] = IF k <= n THEN lead[k]
                        ELSE IF k % 2 = 1 THEN p.mark
                        ELSE IF bits[(k - n) \div 2] THEN p.one ELSE p.zero
  BY <1>2 DEF Signal
<1>4. Len(signal) = last
  <2> DEFINE S == {signal[k] : k \in 1..last}
  <2>1. signal \in [1..last -> S]
    BY <1>3 DEF Signal
  <2> HIDE DEF S, signal, last
  <2> QED
    BY <1>1, <2>1
<1>5. rawlen = last + 1
  BY <1>1, <1>4 DEF Heard
<1> HIDE DEF n, signal, last
<1>6. ASSUME NEW i \in 1..(p.bits + 1)
      PROVE  MATCH_MARK(rawbuf[start + 2 * i - 2], p.mark)
  <2> DEFINE k == start + 2 * i - 2
  <2>1. k \in 1..last /\ k \in Nat /\ k > n /\ k % 2 = 1
    <3>1. i \in Nat \ {0} /\ i <= p.bits + 1
      BY <1>1
    <3>2. (n + 2 * i - 1) % 2 = 1 /\ n + 2 * i - 1 \in Nat /\ n + 2 * i - 1 > n
      BY <1>1, <3>1, BitPlaces
    <3>3. k = n + 2 * i - 1 /\ k <= n + 2 * p.bits + 1
      BY <1>1, <3>1
    <3> QED
      BY <1>1, <3>2, <3>3 DEF last
  <2> HIDE DEF k
  <2>2. signal[k] = p.mark /\ p.mark \in Nat
    BY <1>1, <1>3, <2>1 DEF Readable
  <2>3. k \in 1..(rawlen - 1)
    BY <1>1, <1>5, <2>1
  <2>4. rawbuf[k] \in MarkTicks(p.mark)
    BY <1>1, <2>1, <2>2, <2>3, HeardMark
  <2> QED
    BY <2>4 DEF Readable, k
<1>7. ASSUME NEW i \in 1..p.bits
      PROVE  /\ bits[i] => MATCH_SPACE(rawbuf[start + 2 * i - 1], p.one)
             /\ ~ bits[i] => /\ MATCH_SPACE(rawbuf[start + 2 * i - 1], p.zero)
                             /\ ~ MATCH_SPACE(rawbuf[start + 2 * i - 1], p.one)
  <2> DEFINE k == start + 2 * i - 1
  <2>1. k \in 1..last /\ k \in Nat /\ k > n /\ k % 2 = 0 /\ (k - n) \div 2 = i
    <3>1. i \in Nat \ {0} /\ i <= p.bits
      BY <1>1
    <3>2. (n + 2 * i) % 2 = 0 /\ n + 2 * i \in Nat /\ n + 2 * i > n
          /\ (n + 2 * i - n) \div 2 = i
      BY <1>1, <3>1, BitPlaces
    <3>3. k = n + 2 * i /\ k <= n + 2 * p.bits + 1
      BY <1>1, <3>1
    <3> QED
      BY <1>1, <3>2, <3>3 DEF last
  <2> HIDE DEF k
  <2>2. signal[k] = (IF bits[i] THEN p.one ELSE p.zero)
        /\ p.one \in Nat /\ p.zero \in Nat
    <3>1. ~(k <= n) /\ k % 2 # 1
      BY <1>1, <2>1
    <3> QED
      BY <1>3, <2>1, <3>1, Zenon DEF Readable
  <2>3. k \in 1..(rawlen - 1)
    BY <1>1, <1>5, <2>1
  <2>4. rawbuf[k] \in SpaceTicks(signal[k])
    BY <1>1, <2>1, <2>2, <2>3, HeardSpace
  <2> QED
    BY <2>2, <2>4 DEF Readable, k
<1>8. BitsAt(rawbuf, start, p)
  BY <1>1, <1>6, <1>7 DEF BitsAt, IsOne
<1>9. ValueAt(rawbuf, start, p) = bits
  <2>1. ASSUME NEW i \in 1..p.bits PROVE IsOne(rawbuf, start, p, i) = bits[i]
    <3>1. bits[i] \in BOOLEAN
      BY <1>1
    <3>2. CASE bits[i] = TRUE
      BY <1>7, <3>2 DEF IsOne, MATCH_SPACE, MATCH
    <3>3. CASE bits[i] = FALSE
      <4>1. ~ IsOne(rawbuf, start, p, i)
        BY <1>7, <3>3 DEF IsOne
      <4>2. IsOne(rawbuf, start, p, i) \in BOOLEAN
        BY DEF IsOne, MATCH_SPACE, MATCH
      <4> QED
        BY <3>3, <4>1, <4>2, Zenon
    <3> QED
      BY <3>1, <3>2, <3>3
  <2>2. ValueAt(rawbuf, start, p) = [i \in 1..p.bits |-> bits[i]]
    BY <2>1 DEF ValueAt
  <2> QED
    BY <1>1, <2>2
<1>10. StopAt(rawbuf, start, p)
  <2>1. p.bits + 1 \in 1..(p.bits + 1) /\ start + 2 * (p.bits + 1) - 2 = start + 2 * p.bits
    BY <1>1
  <2> QED
    BY <1>6, <2>1 DEF StopAt
<1> QED
  BY <1>1, <1>5, <1>8, <1>9, <1>10 DEF n, last
\* A lead is heard as one.
LEMMA LeadRead ==
  ASSUME NEW lead, NEW p, NEW bits, NEW rawbuf, NEW rawlen,
         Received(lead, p, bits, rawbuf, rawlen), NEW k \in 1..Len(lead)
  PROVE  /\ k % 2 = 1 => rawbuf[k] \in MarkTicks(lead[k])
         /\ k % 2 = 0 => rawbuf[k] \in SpaceTicks(lead[k])
<1> DEFINE n == Len(lead)
           signal == Signal(lead, p, bits)
           last == n + 2 * p.bits + 1
<1>1. /\ n \in {0, 2, 4} /\ last \in Nat /\ last < RAWBUF
      /\ p.bits \in Nat /\ Len(bits) = p.bits
      /\ lead[k] \in Nat /\ Heard(signal, rawbuf, rawlen)
  BY DEF Received
<1>2. k \in 1..last /\ k \in Nat /\ k <= n
  BY <1>1
<1>3. DOMAIN signal = 1..last /\ signal[k] = lead[k]
  BY <1>1, <1>2 DEF Signal
<1>4. Len(signal) = last
  <2> DEFINE S == {signal[j] : j \in 1..last}
  <2>1. signal \in [1..last -> S]
    BY <1>1, <1>3 DEF Signal
  <2> HIDE DEF S, signal, last
  <2> QED
    BY <1>1, <2>1
<1>5. rawlen = last + 1
  BY <1>1, <1>4 DEF Heard
<1> HIDE DEF n, signal, last
<1>6. k \in 1..(rawlen - 1) /\ signal[k] \in Nat
  BY <1>1, <1>2, <1>3, <1>5
<1> QED
  BY <1>1, <1>2, <1>3, <1>6, HeardMark, HeardSpace

\* The same for a lead of a mark and a space.
LEMMA CodeRead ==
  ASSUME NEW lead, NEW p, NEW bits, NEW rawbuf, NEW rawlen,
         Received(lead, p, bits, rawbuf, rawlen), Readable(p), Len(lead) = 2
  PROVE  /\ rawlen = 2 * p.bits + 4
         /\ rawbuf[1] \in MarkTicks(lead[1]) /\ rawbuf[2] \in SpaceTicks(lead[2])
         /\ BitsAt(rawbuf, 3, p) /\ StopAt(rawbuf, 3, p)
         /\ ValueAt(rawbuf, 3, p) = bits
<1>1. p.bits \in Nat
  BY DEF Readable
<1>2. /\ BitsAt(rawbuf, Len(lead) + 1, p) /\ StopAt(rawbuf, Len(lead) + 1, p)
      /\ ValueAt(rawbuf, Len(lead) + 1, p) = bits
      /\ rawlen = Len(lead) + 2 * p.bits + 2
  BY BitsRead
<1>3. Len(lead) + 1 = 3 /\ rawlen = 2 * p.bits + 4
  BY <1>1, <1>2
<1>4. /\ 1 \in 1..Len(lead) /\ 1 % 2 = 1
      /\ 2 \in 1..Len(lead) /\ 2 % 2 = 0
  OBVIOUS
<1>5. rawbuf[1] \in MarkTicks(lead[1]) /\ rawbuf[2] \in SpaceTicks(lead[2])
  BY <1>4, LeadRead
<1> QED
  BY <1>2, <1>3, <1>5

\* The first decoder of the list that takes a code decides.
LEMMA FirstAttempt ==
  ASSUME NEW rawbuf, NEW rawlen, NEW n \in 1..11,
         \A i \in 1..(n - 1) : Attempts(rawbuf, rawlen)[i] = ERR,
         Attempts(rawbuf, rawlen)[n] # ERR
  PROVE  decode(rawbuf, rawlen) = Attempts(rawbuf, rawlen)[n]
<1> DEFINE attempts == Attempts(rawbuf, rawlen)
           taken == {i \in 1..11 : attempts[i] # ERR}
<1>1. n \in taken /\ \A i \in taken : n <= i
  OBVIOUS
<1>2. (CHOOSE i \in taken : \A j \in taken : i <= j) = n
  BY <1>1
<1> QED
  BY <1>1, <1>2 DEF decode

LEMMA NECRead ==
  ASSUME NEW bits \in [1..32 -> BOOLEAN], NEW rawbuf, NEW rawlen,
         Heard(sendNEC(bits), rawbuf, rawlen)
  PROVE  decodeNEC(rawbuf, rawlen) = Decoded("NEC", bits)
<1>1. NEC.bits = 32 /\ Len(NEC.lead) = 2 /\ NEC.lead[1] = 9000 /\ NEC.lead[2] = 4500
  BY DEF NEC
<1>2. Received(NEC.lead, NEC, bits, rawbuf, rawlen)
  BY <1>1 DEF sendNEC, Received, RAWBUF
<1>3. /\ rawlen = 2 * NEC.bits + 4
      /\ rawbuf[1] \in MarkTicks(NEC.lead[1]) /\ rawbuf[2] \in SpaceTicks(NEC.lead[2])
      /\ BitsAt(rawbuf, 3, NEC) /\ ValueAt(rawbuf, 3, NEC) = bits
  BY <1>1, <1>2, ProtocolsReadable, CodeRead
<1>4. MATCH_MARK(rawbuf[1], 9000) /\ MATCH_SPACE(rawbuf[2], 4500)
  BY <1>1, <1>3 DEF MarkTicks, SpaceTicks, MATCH_MARK, MATCH_SPACE, MATCH, TICKS_LOW,
              TICKS_HIGH, MARK_EXCESS, USECPERTICK
<1>5. ~ IsRepeat(rawbuf, rawlen, 1, NEC) /\ rawlen = 68
  BY <1>1, <1>3 DEF IsRepeat
<1> QED
  BY <1>1, <1>3, <1>4, <1>5 DEF decodeNEC

\* decode() takes no other decoder's answer to what sendNEC() sent, and reads
\* its 32 bits as they were, whatever lag within MARK_EXCESS the edges have and
\* whatever an earlier code left in rawbuf.
THEOREM NECReadBack ==
  ASSUME NEW bits \in [1..32 -> BOOLEAN], NEW rawbuf, NEW rawlen,
         Heard(sendNEC(bits), rawbuf, rawlen)
  PROVE  decode(rawbuf, rawlen) = Decoded("NEC", bits)
<1>1. Attempts(rawbuf, rawlen)[1] = Decoded("NEC", bits)
  BY NECRead DEF Attempts
<1>2. Decoded("NEC", bits) # ERR
  BY DEF Decoded, ERR
<1>3. \A i \in 1..(1 - 1) : Attempts(rawbuf, rawlen)[i] = ERR
  OBVIOUS
<1> QED
  BY <1>1, <1>2, <1>3, FirstAttempt

\* No decoder before LG's takes a code with the lead of LG and JVC that is
\* shorter than one of NEC.
LEMMA EarlierReject ==
  ASSUME NEW rawbuf, NEW rawlen \in Nat, 4 < rawlen, rawlen < 68,
         rawbuf[1] \in MarkTicks(8000), rawbuf[2] \in SpaceTicks(4000)
  PROVE  \A i \in 1..6 : Attempts(rawbuf, rawlen)[i] = ERR
<1>1. rawbuf[1] \in 161..163 /\ rawbuf[2] \in 79..81
  BY DEF MarkTicks, SpaceTicks, MARK_EXCESS, USECPERTICK
<1>2. decodeNEC(rawbuf, rawlen) = ERR
  BY DEF decodeNEC, IsRepeat, NEC
<1>3. decodeSony(rawbuf, rawlen) = ERR
  <2>1. ~ MATCH_MARK(rawbuf[1], SONY.lead[1])
    BY <1>1 DEF SONY, MATCH_MARK, MATCH, TICKS_LOW, TICKS_HIGH, MARK_EXCESS,
                USECPERTICK
  <2> QED
    BY <2>1 DEF decodeSony
<1>4. decodeMitsubishi(rawbuf, rawlen) = ERR
  <2>1. ~ MATCH_MARK(rawbuf[2], MITSUBISHI.space)
    BY <1>1 DEF MITSUBISHI, MATCH_MARK, MATCH, TICKS_LOW, TICKS_HIGH, MARK_EXCESS,
                USECPERTICK
  <2> QED
    BY <2>1 DEF decodeMitsubishi
<1>5. decodeRC5(rawbuf, rawlen) = ERR
  <2>1. UnitsAt(rawbuf, 1, RC5_T1) = 0 /\ 1 \in 1..(rawlen - 1)
    BY <1>1 DEF UnitsAt, RC5_T1, MATCH, TICKS_LOW, TICKS_HIGH, MARK_EXCESS,
                USECPERTICK
  <2> QED
    BY <2>1 DEF decodeRC5
<1>6. decodeRC6(rawbuf, rawlen) = ERR
  <2>1. ~ MATCH_MARK(rawbuf[1], RC6_HDR_MARK)
    BY <1>1 DEF RC6_HDR_MARK, MATCH_MARK, MATCH, TICKS_LOW, TICKS_HIGH, MARK_EXCESS,
                USECPERTICK
  <2> QED
    BY <2>1 DEF decodeRC6
<1>7. decodePanasonic(rawbuf, rawlen) = ERR
  <2>1. ~ MATCH_MARK(rawbuf[1], PANASONIC.lead[2])
    BY <1>1 DEF PANASONIC, MATCH_MARK, MATCH, TICKS_LOW, TICKS_HIGH, MARK_EXCESS,
                USECPERTICK
  <2> QED
    BY <2>1 DEF decodePanasonic
<1> QED
  BY <1>2, <1>3, <1>4, <1>5, <1>6, <1>7 DEF Attempts

LEMMA LGRead ==
  ASSUME NEW bits \in [1..28 -> BOOLEAN], NEW rawbuf, NEW rawlen,
         Heard(sendLG(bits), rawbuf, rawlen)
  PROVE  /\ decodeLG(rawbuf, rawlen) = Decoded("LG", bits)
         /\ rawlen = 60
         /\ rawbuf[1] \in MarkTicks(8000) /\ rawbuf[2] \in SpaceTicks(4000)
<1>1. LG.bits = 28 /\ Len(LG.lead) = 2 /\ LG.lead[1] = 8000 /\ LG.lead[2] = 4000
  BY DEF LG
<1>2. Received(LG.lead, LG, bits, rawbuf, rawlen)
  BY <1>1 DEF sendLG, Received, RAWBUF
<1>3. /\ rawlen = 2 * LG.bits + 4
      /\ rawbuf[1] \in MarkTicks(LG.lead[1]) /\ rawbuf[2] \in SpaceTicks(LG.lead[2])
      /\ BitsAt(rawbuf, 3, LG) /\ StopAt(rawbuf, 3, LG)
      /\ ValueAt(rawbuf, 3, LG) = bits
  BY <1>1, <1>2, ProtocolsReadable, CodeRead
<1>4. LeadAt(rawbuf, 1, LG.lead)
  BY <1>1, <1>3 DEF LeadAt, MarkTicks, SpaceTicks, MATCH_MARK, MATCH_SPACE, MATCH,
              TICKS_LOW, TICKS_HIGH, MARK_EXCESS, USECPERTICK
<1> QED
  BY <1>1, <1>3, <1>4 DEF decodeLG

\* The same for sendLG() and its 28 bits, although NEC's decoder is asked first
\* and takes the lead for its own.
THEOREM LGReadBack ==
  ASSUME NEW bits \in [1..28 -> BOOLEAN], NEW rawbuf, NEW rawlen,
         Heard(sendLG(bits), rawbuf, rawlen)
  PROVE  decode(rawbuf, rawlen) = Decoded("LG", bits)
<1>1. Attempts(rawbuf, rawlen)[7] = Decoded("LG", bits)
  BY LGRead DEF Attempts
<1>2. Decoded("LG", bits) # ERR
  BY DEF Decoded, ERR
<1>3. \A i \in 1..(7 - 1) : Attempts(rawbuf, rawlen)[i] = ERR
  BY LGRead, EarlierReject
<1> QED
  BY <1>1, <1>2, <1>3, FirstAttempt

LEMMA JVCRead ==
  ASSUME NEW bits \in [1..16 -> BOOLEAN], NEW rawbuf, NEW rawlen,
         Heard(Signal(JVC.lead, JVC, bits), rawbuf, rawlen)
  PROVE  /\ decodeJVC(rawbuf, rawlen) = Decoded("JVC", bits)
         /\ rawlen = 36
         /\ rawbuf[1] \in MarkTicks(8000) /\ rawbuf[2] \in SpaceTicks(4000)
<1>1. JVC.bits = 16 /\ Len(JVC.lead) = 2 /\ JVC.lead[1] = 8000 /\ JVC.lead[2] = 4000
  BY DEF JVC
<1>2. Received(JVC.lead, JVC, bits, rawbuf, rawlen)
  BY <1>1 DEF Received, RAWBUF
<1>3. /\ rawlen = 2 * JVC.bits + 4
      /\ rawbuf[1] \in MarkTicks(JVC.lead[1]) /\ rawbuf[2] \in SpaceTicks(JVC.lead[2])
      /\ BitsAt(rawbuf, 3, JVC) /\ StopAt(rawbuf, 3, JVC)
      /\ ValueAt(rawbuf, 3, JVC) = bits
  BY <1>1, <1>2, ProtocolsReadable, CodeRead
<1>4. LeadAt(rawbuf, 1, JVC.lead)
  BY <1>1, <1>3 DEF LeadAt, MarkTicks, SpaceTicks, MATCH_MARK, MATCH_SPACE, MATCH,
              TICKS_LOW, TICKS_HIGH, MARK_EXCESS, USECPERTICK
<1> QED
  BY <1>1, <1>3, <1>4 DEF decodeJVC

\* The same for the first code sendJVC() sends for a button and its 16 bits.
THEOREM JVCReadBack ==
  ASSUME NEW bits \in [1..16 -> BOOLEAN], NEW rawbuf, NEW rawlen,
         Heard(sendJVC(bits, FALSE), rawbuf, rawlen)
  PROVE  decode(rawbuf, rawlen) = Decoded("JVC", bits)
<1>0. /\ decodeJVC(rawbuf, rawlen) = Decoded("JVC", bits)
      /\ rawlen = 36
      /\ rawbuf[1] \in MarkTicks(8000) /\ rawbuf[2] \in SpaceTicks(4000)
  <2>1. Heard(Signal(JVC.lead, JVC, bits), rawbuf, rawlen)
    BY DEF sendJVC
  <2> QED
    BY <2>1, JVCRead
<1>1. Attempts(rawbuf, rawlen)[8] = Decoded("JVC", bits)
  BY <1>0 DEF Attempts
<1>2. Decoded("JVC", bits) # ERR
  BY DEF Decoded, ERR
<1>3. \A i \in 1..6 : Attempts(rawbuf, rawlen)[i] = ERR
  BY <1>0, EarlierReject
<1>4. Attempts(rawbuf, rawlen)[7] = ERR
  BY <1>0 DEF Attempts, decodeLG, LG
<1>5. \A i \in 1..(8 - 1) : Attempts(rawbuf, rawlen)[i] = ERR
  BY <1>3, <1>4
<1> QED
  BY <1>1, <1>2, <1>5, FirstAttempt

\* No code that the receiver can have put into rawbuf is taken by SAMSUNG's
\* decoder: it looks for the lead at rawbuf[0], which has no length of the code.
THEOREM NoSAMSUNGHeard ==
  ASSUME NEW signal, NEW rawbuf, NEW rawlen, Heard(signal, rawbuf, rawlen)
  PROVE  decodeSAMSUNG(rawbuf, rawlen) = ERR
<1>1. rawbuf[0] = 20
  BY Zenon DEF Heard
<1>2. ~ MATCH_MARK(rawbuf[0], SAMSUNG.lead[1])
  BY <1>1 DEF SAMSUNG, MATCH_MARK, MATCH, TICKS_LOW, TICKS_HIGH, MARK_EXCESS,
              USECPERTICK
<1> QED
  BY <1>2, Zenon DEF decodeSAMSUNG

SonyHeard(n, bits, rawbuf, rawlen) ==
    /\ n \in 12..32 /\ bits \in [1..n -> BOOLEAN]
    /\ Heard(sendSony(bits), rawbuf, rawlen)

\* What decodeSony() finds at the places of a Sony code: its bits are in the
\* marks.
LEMMA SonyPlaces ==
  ASSUME NEW n, NEW bits, NEW rawbuf, NEW rawlen,
         SonyHeard(n, bits, rawbuf, rawlen)
  PROVE  /\ rawlen = 2 * n + 2
         /\ rawbuf[1] \in MarkTicks(2400)
         /\ \A i \in 0..(n - 1) : rawbuf[2 + 2 * i] \in SpaceTicks(600)
         /\ \A i \in 1..n : rawbuf[1 + 2 * i] \in MarkTicks(IF bits[i] THEN 1200 ELSE 600)
<1> DEFINE signal == sendSony(bits)
           last == 2 * n + 1
<1>1. /\ SONY.lead[1] = 2400 /\ SONY.lead[2] = 600 /\ SONY.one = 1200 /\ SONY.zero = 600
      /\ n \in 12..32 /\ bits \in [1..n -> BOOLEAN] /\ Heard(signal, rawbuf, rawlen)
      /\ Len(bits) = n /\ last \in Nat /\ last < RAWBUF
  BY DEF SONY, RAWBUF, SonyHeard
<1>2. /\ DOMAIN signal = 1..last
      /\ \A k \in 1..last :
            signal[k] = IF k = 1 THEN 2400 ELSE IF k % 2 = 0 THEN 600
                        ELSE IF bits[(k - 1) \div 2] THEN 1200 ELSE 600
  BY <1>1 DEF sendSony
<1>3. Len(signal) = last
  <2> DEFINE S == {signal[k] : k \in 1..last}
  <2>1. signal \in [1..last -> S]
    BY <1>1, <1>2 DEF sendSony
  <2> HIDE DEF S, signal, last
  <2> QED
    BY <1>1, <2>1
<1>4. rawlen = last + 1
  BY <1>1, <1>3 DEF Heard
<1> HIDE DEF signal, last
<1>5. rawbuf[1] \in MarkTicks(2400)
  <2>1. 1 \in 1..last /\ 1 \in 1..(rawlen - 1) /\ 1 % 2 = 1 /\ 1 \in Nat
    BY <1>1, <1>4 DEF last
  <2>2. signal[1] = 2400
    BY <1>2, <2>1
  <2> QED
    BY <1>1, <2>1, <2>2, HeardMark
<1>6. ASSUME NEW i \in 0..(n - 1) PROVE rawbuf[2 + 2 * i] \in SpaceTicks(600)
  <2> DEFINE k == 2 + 2 * i
  <2>1. k \in 1..last /\ k \in 1..(rawlen - 1) /\ k % 2 = 0 /\ k \in Nat /\ k # 1
    BY <1>1, <1>4 DEF last
  <2> HIDE DEF k
  <2>2. signal[k] = 600
    BY <1>2, <2>1
  <2> QED
    BY <1>1, <2>1, <2>2, HeardSpace DEF k
<1>7. ASSUME NEW i \in 1..n
      PROVE  rawbuf[1 + 2 * i] \in MarkTicks(IF bits[i] THEN 1200 ELSE 600)
  <2> DEFINE k == 1 + 2 * i
             us == IF bits[i] THEN 1200 ELSE 600
  <2>1. /\ k \in 1..last /\ k \in 1..(rawlen - 1) /\ k % 2 = 1 /\ k \in Nat /\ k # 1
        /\ (k - 1) \div 2 = i /\ k % 2 # 0
    BY <1>1, <1>4 DEF last
  <2> HIDE DEF k
  <2>2. signal[k] = us
    <3>1. signal[k] = IF bits[(k - 1) \div 2] THEN 1200 ELSE 600
      BY <1>2, <2>1
    <3>2. CASE bits[i]
      <4>1. bits[(k - 1) \div 2] /\ us = 1200
        BY <2>1, <3>2, Zenon
      <4> QED
        BY <3>1, <4>1
    <3>3. CASE ~ bits[i]
      <4>1. ~ bits[(k - 1) \div 2] /\ us = 600
        BY <2>1, <3>3, Zenon
      <4> QED
        BY <3>1, <4>1
    <3> QED
      BY <3>2, <3>3
  <2>3. us \in Nat
    OBVIOUS
  <2> HIDE DEF us
  <2>4. rawbuf[k] \in MarkTicks(us)
    <3>1. signal[k] \in Nat
      BY <2>2, <2>3
    <3>2. rawbuf[k] \in MarkTicks(signal[k])
      BY <1>1, <2>1, <3>1, HeardMark
    <3> QED
      BY <2>2, <3>2
  <2> QED
    BY <2>4 DEF k, us
<1> QED
  BY <1>1, <1>4, <1>5, <1>6, <1>7 DEF last

LEMMA SonyRead ==
  ASSUME NEW n, NEW bits, NEW rawbuf, NEW rawlen,
         SonyHeard(n, bits, rawbuf, rawlen)
  PROVE  decodeSony(rawbuf, rawlen) = Decoded("SONY", bits)
<1> DEFINE Space(i) == MATCH_SPACE(rawbuf[2 + 2 * i], SONY.lead[2])
           One(i) == MATCH_MARK(rawbuf[1 + 2 * i], SONY.one)
           Zero(i) == MATCH_MARK(rawbuf[1 + 2 * i], SONY.zero)
<1>1. SONY.lead[1] = 2400 /\ SONY.lead[2] = 600 /\ SONY.one = 1200 /\ SONY.zero = 600
      /\ SONY.bits = 12 /\ n \in 12..32 /\ bits \in [1..n -> BOOLEAN]
  BY DEF SONY, SonyHeard
<1>2. /\ rawlen = 2 * n + 2 /\ rawbuf[1] \in MarkTicks(2400)
      /\ \A i \in 0..(n - 1) : rawbuf[2 + 2 * i] \in SpaceTicks(600)
      /\ \A i \in 1..n : rawbuf[1 + 2 * i] \in MarkTicks(IF bits[i] THEN 1200 ELSE 600)
  BY SonyPlaces
<1>3. /\ \A t \in MarkTicks(2400) : MATCH_MARK(t, 2400)
      /\ \A t \in SpaceTicks(600) : MATCH_SPACE(t, 600)
      /\ \A t \in MarkTicks(1200) : MATCH_MARK(t, 1200)
      /\ \A t \in MarkTicks(600) : MATCH_MARK(t, 600) /\ ~ MATCH_MARK(t, 1200)
  BY DEF MarkTicks, SpaceTicks, MATCH_MARK, MATCH_SPACE, MATCH, TICKS_LOW,
         TICKS_HIGH, MARK_EXCESS, USECPERTICK
<1>4. MATCH_MARK(rawbuf[1], SONY.lead[1])
  BY <1>1, <1>2, <1>3
<1>5. \A i \in 0..(n - 1) : Space(i)
  BY <1>1, <1>2, <1>3
<1>6. \A i \in 1..n : /\ bits[i] => One(i)
                      /\ ~ bits[i] => Zero(i) /\ ~ One(i)
  BY <1>1, <1>2, <1>3
<1> HIDE DEF Space, One, Zero
<1>7. \A i \in 1..n : One(i) = bits[i]
  <2>1. TAKE i \in 1..n
  <2>2. One(i) \in BOOLEAN
    BY DEF One, MATCH_MARK, MATCH
  <2>3. bits[i] \in BOOLEAN
    BY <1>1
  <2>4. (bits[i] => One(i)) /\ (~ bits[i] => ~ One(i))
    BY <1>6
  <2>5. CASE bits[i] = TRUE
    <3>1. One(i)
      BY <2>4, <2>5
    <3> QED
      BY <2>2, <2>5, <3>1, Zenon
  <2>6. CASE bits[i] = FALSE
    <3>1. ~ One(i)
      BY <2>4, <2>6
    <3> QED
      BY <2>2, <2>6, <3>1, Zenon
  <2> QED
    BY <2>3, <2>5, <2>6
<1>8. \A k \in 0..rawlen :
         (/\ \A i \in 0..(k - 1) : 2 + 2 * i + 1 < rawlen /\ Space(i)
          /\ ~ (2 + 2 * k + 1 < rawlen /\ Space(k)))
         <=> k = n
  <2>1. TAKE k \in 0..rawlen
  <2>2. CASE k < n
    <3>1. k \in 0..(n - 1) /\ 2 + 2 * k + 1 < rawlen
      BY <1>1, <1>2, <2>2
    <3> QED
      BY <1>5, <2>2, <3>1
  <2>3. CASE k = n
    <3>1. ~ (2 + 2 * k + 1 < rawlen)
      BY <1>1, <1>2, <2>3
    <3>2. \A i \in 0..(k - 1) : 2 + 2 * i + 1 < rawlen /\ Space(i)
      BY <1>1, <1>2, <1>5, <2>3
    <3> QED
      BY <2>3, <3>1, <3>2
  <2>4. CASE k > n
    <3>1. n \in 0..(k - 1) /\ ~ (2 + 2 * n + 1 < rawlen)
      BY <1>1, <1>2, <2>4
    <3> QED
      BY <2>4, <3>1
  <2>5. k < n \/ k = n \/ k > n
    <3>1. n \in Nat
      BY <1>1
    <3>2. k \in Int
      OBVIOUS
    <3> QED
      BY <3>1, <3>2
  <2> QED
    BY <2>2, <2>3, <2>4, <2>5, Zenon
<1>9. WholeTurns(rawlen, 2, Space) = n
  <2>1. n \in 0..rawlen
    BY <1>1, <1>2
  <2> QED
    BY <1>8, <2>1 DEF WholeTurns
<1>10. LastOf(n, One) = bits
  <2>1. LastOf(n, One) = [i \in 1..n |-> One(i)]
    BY <1>1 DEF LastOf
  <2>2. LastOf(n, One) = [i \in 1..n |-> bits[i]]
    BY <1>7, <2>1
  <2> QED
    BY <1>1, <2>2
<1>11. /\ rawlen >= 2 * SONY.bits + 2 /\ n >= 12
       /\ \A i \in 1..n : One(i) \/ Zero(i)
  BY <1>1, <1>2, <1>6
<1> QED
  BY <1>4, <1>9, <1>10, <1>11 DEF decodeSony, Space, One, Zero

\* The same for sendSony() and any number of bits from the 12 of its shortest
\* code to the 32 that a value holds.
THEOREM SonyReadBack ==
  ASSUME NEW n \in 12..32, NEW bits \in [1..n -> BOOLEAN], NEW rawbuf, NEW rawlen,
         Heard(sendSony(bits), rawbuf, rawlen)
  PROVE  decode(rawbuf, rawlen) = Decoded("SONY", bits)
<1>0. SonyHeard(n, bits, rawbuf, rawlen)
  BY DEF SonyHeard
<1>1. Attempts(rawbuf, rawlen)[2] = Decoded("SONY", bits)
  BY <1>0, SonyRead DEF Attempts
<1>2. Decoded("SONY", bits) # ERR
  BY DEF Decoded, ERR
<1>3. decodeNEC(rawbuf, rawlen) = ERR
  <2>1. rawbuf[1] \in MarkTicks(2400)
    BY <1>0, SonyPlaces
  <2>2. ~ MATCH_MARK(rawbuf[1], NEC.lead[1])
    BY <2>1 DEF MarkTicks, NEC, MATCH_MARK, MATCH, TICKS_LOW, TICKS_HIGH,
                MARK_EXCESS, USECPERTICK
  <2> QED
    BY <2>2 DEF decodeNEC
<1>4. \A i \in 1..(2 - 1) : Attempts(rawbuf, rawlen)[i] = ERR
  BY <1>3 DEF Attempts
<1> QED
  BY <1>1, <1>2, <1>4, FirstAttempt

\* Whynter's decoder reads the 32 bits of sendWhynter() as they were.
THEOREM WhynterRead ==
  ASSUME NEW bits \in [1..32 -> BOOLEAN], NEW rawbuf, NEW rawlen,
         Heard(sendWhynter(bits), rawbuf, rawlen)
  PROVE  decodeWhynter(rawbuf, rawlen) = Decoded("WHYNTER", bits)
<1> DEFINE lead == WHYNTER.lead
<1>1. /\ WHYNTER.bits = 32 /\ Len(lead) = 4
      /\ lead[1] = 750 /\ lead[2] = 750 /\ lead[3] = 2850 /\ lead[4] = 2850
  BY DEF WHYNTER
<1>2. Received(lead, WHYNTER, bits, rawbuf, rawlen)
  BY <1>1 DEF sendWhynter, Received, RAWBUF
<1> HIDE DEF lead
<1>3. /\ BitsAt(rawbuf, Len(lead) + 1, WHYNTER)
      /\ ValueAt(rawbuf, Len(lead) + 1, WHYNTER) = bits
      /\ StopAt(rawbuf, Len(lead) + 1, WHYNTER)
      /\ rawlen = Len(lead) + 2 * WHYNTER.bits + 2
  BY <1>2, ProtocolsReadable, BitsRead
<1>4. ASSUME NEW k \in 1..4
      PROVE  /\ k % 2 = 1 => rawbuf[k] \in MarkTicks(lead[k])
             /\ k % 2 = 0 => rawbuf[k] \in SpaceTicks(lead[k])
  <2>1. k \in 1..Len(lead)
    BY <1>1
  <2> QED
    BY <1>2, <2>1, LeadRead
<1>5. /\ rawbuf[1] \in MarkTicks(750) /\ rawbuf[2] \in SpaceTicks(750)
      /\ rawbuf[3] \in MarkTicks(2850) /\ rawbuf[4] \in SpaceTicks(2850)
  BY <1>1, <1>4
<1>6. /\ \A t \in MarkTicks(750) : MATCH_MARK(t, 750)
      /\ \A t \in SpaceTicks(750) : MATCH_SPACE(t, 750)
      /\ \A t \in MarkTicks(2850) : MATCH_MARK(t, 2850)
      /\ \A t \in SpaceTicks(2850) : MATCH_SPACE(t, 2850)
  BY DEF MarkTicks, SpaceTicks, MATCH_MARK, MATCH_SPACE, MATCH, TICKS_LOW,
         TICKS_HIGH, MARK_EXCESS, USECPERTICK
<1>7. LeadAt(rawbuf, 1, lead)
  BY <1>1, <1>5, <1>6 DEF LeadAt
<1> QED
  BY <1>1, <1>3, <1>7 DEF decodeWhynter, lead

LEMMA AddressThenData ==
  ASSUME NEW address \in [1..16 -> BOOLEAN], NEW data \in [1..32 -> BOOLEAN]
  PROVE  address \o data \in [1..48 -> BOOLEAN]
<1>1. 16 \in Nat /\ 32 \in Nat
  OBVIOUS
<1>2. address \in Seq(BOOLEAN) /\ data \in Seq(BOOLEAN)
  <2>1. Seq(BOOLEAN) = UNION {[1..n -> BOOLEAN] : n \in Nat}
    BY SeqDef
  <2>2. [1..16 -> BOOLEAN] \in {[1..n -> BOOLEAN] : n \in Nat}
    BY <1>1, Zenon
  <2>3. [1..32 -> BOOLEAN] \in {[1..n -> BOOLEAN] : n \in Nat}
    BY <1>1, Zenon
  <2> QED
    BY <2>1, <2>2, <2>3, Zenon
<1>3. Len(address) = 16 /\ Len(data) = 32
  OBVIOUS
<1> DEFINE both == address \o data
<1>4. both \in Seq(BOOLEAN) /\ Len(both) = Len(address) + Len(data)
  BY <1>2, ConcatProperties, Zenon
<1> HIDE DEF both
<1>5. Len(both) = 48
  BY <1>3, <1>4
<1>6. both \in [1..Len(both) -> BOOLEAN]
  BY <1>4, LenProperties, Zenon
<1> QED
  BY <1>5, <1>6 DEF both

\* Panasonic's decoder takes no code of sendPanasonic(): it looks for the space
\* of the lead where the mark is.
THEOREM PanasonicUnread ==
  ASSUME NEW address \in [1..16 -> BOOLEAN], NEW data \in [1..32 -> BOOLEAN],
         NEW rawbuf, NEW rawlen, Heard(sendPanasonic(address, data), rawbuf, rawlen)
  PROVE  decodePanasonic(rawbuf, rawlen) = ERR
<1> DEFINE lead == PANASONIC.lead
           bits == address \o data
<1>1. /\ PANASONIC.bits = 48 /\ Len(lead) = 2 /\ lead[1] = 3502 /\ lead[2] = 1750
  BY DEF PANASONIC
<1>2. bits \in [1..48 -> BOOLEAN]
  BY AddressThenData
<1>3. Received(lead, PANASONIC, bits, rawbuf, rawlen)
  <2>1. Heard(Signal(lead, PANASONIC, bits), rawbuf, rawlen)
    BY DEF sendPanasonic
  <2> HIDE DEF bits
  <2> QED
    BY <1>1, <1>2, <2>1 DEF Received, RAWBUF
<1>4. 1 \in 1..Len(lead) /\ 1 % 2 = 1
  BY <1>1
<1> HIDE DEF lead, bits
<1>5. rawbuf[1] \in MarkTicks(3502)
  <2>1. rawbuf[1] \in MarkTicks(lead[1])
    BY <1>3, <1>4, LeadRead
  <2> QED
    BY <1>1, <2>1
<1>6. ~ MATCH_MARK(rawbuf[1], 1750)
  BY <1>5 DEF MarkTicks, MATCH_MARK, MATCH, TICKS_LOW, TICKS_HIGH, MARK_EXCESS,
              USECPERTICK
<1> QED
  BY <1>1, <1>6 DEF decodePanasonic, lead
=============================================================================
