------------------------ MODULE Notifications_proofs ------------------------
(***************************************************************************)
(* Proofs about Notifications, for every number of streams, of entries     *)
(* kept, of changes and of restarts.                                       *)
(*                                                                         *)
(* No id comes to the page twice: the counter is above all of them         *)
(* (Numbered, Received), what two threads have yet to write differs        *)
(* (Apart), and so does what is still to come from what has come (Untold). *)
(*                                                                         *)
(* HistoryInOrder needs more: for as long as one stream is read at a time  *)
(* (OneReader), what has yet to be written to the page is newer than all   *)
(* it has (Newer).  The events another thread is still to write go         *)
(* nowhere.                                                                *)
(*                                                                         *)
(* The toast of the newest entry comes because nothing that is still to    *)
(* come counts as seen (SeenIsOld), and the newest entry is counted only   *)
(* when its toast was shown (ShownFirst).                                  *)
(***************************************************************************)
EXTENDS Notifications, FiniteSetTheorems, SequenceTheorems, TLAPS

Notes == [id : Nat, boot : Nat]

Connections ==
  [at : {"closed", "polling", "telling", "writing"}, read : BOOLEAN,
   snapshot : Statuses, events : Seq(Notes)]

Typed ==
  /\ status \in Statuses /\ previous \in Statuses \cup {Nothing}
  /\ sequence \in Nat /\ boots \in Nat /\ beside \in BOOLEAN
  /\ stream \in [Streams -> Connections] /\ history \in Seq(Notes)

OneReader == \A c, d \in Streams : stream[c].read /\ stream[d].read => c = d

(* What a thread has yet to write, in order, and no id above the counter. *)
Rises(events, top, boot) ==
  /\ \A i \in 1 .. Len(events) : events[i].boot = boot /\ events[i].id <= top
  /\ \A i, j \in 1 .. Len(events) : i < j => events[i].id < events[j].id

Numbered == \A c \in Streams : Rises(stream[c].events, sequence, boots)

(* What the page has, with no id of this backend above the counter. *)
Received ==
  \A k \in 1 .. Len(history) :
    history[k].boot <= boots /\ (history[k].boot = boots => history[k].id <= sequence)

(* The page has nothing yet that is newer than what its stream is to write. *)
Newer ==
  \A c \in Streams : stream[c].read =>
    \A i \in 1 .. Len(stream[c].events), k \in 1 .. Len(history) :
      history[k].boot = boots => history[k].id < stream[c].events[i].id

(* What the threads of two streams have yet to write differs. *)
Apart ==
  \A c, d \in Streams : c # d =>
    \A i \in 1 .. Len(stream[c].events), j \in 1 .. Len(stream[d].events) :
      stream[c].events[i].id # stream[d].events[j].id

(* What is yet to come has not come. *)
Untold ==
  \A c \in Streams : \A i \in 1 .. Len(stream[c].events), k \in 1 .. Len(history) :
    history[k].boot = boots => history[k].id # stream[c].events[i].id

Counted == Typed /\ Numbered /\ Received /\ Apart /\ Untold /\ ToldOnce

InOrder == ~beside => OneReader /\ Newer /\ HistoryInOrder

Inv == Counted /\ InOrder

-----------------------------------------------------------------------------
(* Facts about the operators *)

LEMMA ClosedType == Closed \in Connections /\ ~Closed.read /\ Closed.events = <<>>
BY DEF Closed, Stream, Connections, Stopped, Statuses

LEMMA StreamType ==
  ASSUME NEW at \in {"closed", "polling", "telling", "writing"}, NEW read \in BOOLEAN,
         NEW snapshot \in Statuses, NEW events \in Seq(Notes)
  PROVE  /\ Stream(at, read, snapshot, events) \in Connections
         /\ Stream(at, read, snapshot, events).read = read
         /\ Stream(at, read, snapshot, events).events = events
BY DEF Stream, Connections

LEMMA SilentType ==
  ASSUME NEW at \in {"closed", "polling", "telling", "writing"}, NEW read \in BOOLEAN,
         NEW snapshot \in Statuses
  PROVE  /\ Stream(at, read, snapshot, <<>>) \in Connections
         /\ Stream(at, read, snapshot, <<>>).read = read
         /\ Stream(at, read, snapshot, <<>>).events = <<>>
<1>1. <<>> \in Seq(Notes)  OBVIOUS
<1> QED  BY <1>1 DEF Stream, Connections

(* The events of a comparison are numbered from the counter on. *)
LEMMA EventsFacts ==
  ASSUME Typed, previous \in Statuses, NEW new \in Statuses
  PROVE  /\ Events(previous, new) \in Seq(Notes)
         /\ \A i \in 1 .. Len(Events(previous, new)) :
              /\ Events(previous, new)[i].id = sequence + i
              /\ Events(previous, new)[i].boot = boots
<1> DEFINE differ == (previous \ new) \cup (new \ previous)
           n == Cardinality(differ)
<1>1. previous \subseteq Aspects /\ new \subseteq Aspects  BY DEF Statuses, Aspects
<1>2. IsFiniteSet(Aspects)
  <2>1. IsFiniteSet({"running"}) /\ IsFiniteSet({"game"})  BY FS_Singleton
  <2>2. Aspects = {"running"} \cup {"game"}  BY DEF Aspects
  <2>3. IsFiniteSet({"running"} \cup {"game"})  BY <2>1, FS_Union
  <2> QED  BY <2>2, <2>3
<1>3. differ \subseteq Aspects  BY <1>1
<1>4. n \in Nat  BY <1>2, <1>3, FS_Subset, FS_CardinalityType
<1> HIDE DEF differ
<1>5. Events(previous, new) = [i \in 1 .. n |-> [id |-> sequence + i, boot |-> boots]]
  BY DEF Events, differ
<1>6. \A i \in 1 .. n : [id |-> sequence + i, boot |-> boots] \in Notes
  BY <1>4 DEF Notes, Typed
<1>7. Events(previous, new) \in Seq(Notes) /\ Len(Events(previous, new)) = n
  BY <1>4, <1>5, <1>6
<1>8. ASSUME NEW i \in 1 .. n
      PROVE  Events(previous, new)[i].id = sequence + i /\ Events(previous, new)[i].boot = boots
  <2>1. Events(previous, new)[i] = [id |-> sequence + i, boot |-> boots]  BY <1>5
  <2> QED  BY <2>1
<1> HIDE DEF n
<1> QED  BY <1>7, <1>8

(* The newest entry goes in front; the others move back, the last perhaps out. *)
LEMMA AppendFacts ==
  ASSUME Typed, NEW new \in Notes
  PROVE  /\ AppendNotification(new) \in Seq(Notes)
         /\ Len(AppendNotification(new)) >= 1 /\ Len(AppendNotification(new)) <= Len(history) + 1
         /\ AppendNotification(new)[1] = new
         /\ \A k \in 2 .. Len(AppendNotification(new)) :
              AppendNotification(new)[k] = history[k - 1]
<1> DEFINE all == <<new>> \o history
           n == IF Len(history) < MaxHistory THEN Len(history) + 1 ELSE MaxHistory
<1>1. /\ history \in Seq(Notes) /\ Len(history) \in Nat /\ MaxHistory \in Nat \ {0}
  BY NotificationsAssumption, LenProperties DEF Typed
<1>2. <<new>> \in Seq(Notes) /\ Len(<<new>>) = 1 /\ <<new>>[1] = new  OBVIOUS
<1>3. /\ all \in Seq(Notes) /\ Len(all) = Len(history) + 1
      /\ \A k \in 1 .. Len(history) + 1 : all[k] = IF k <= 1 THEN new ELSE history[k - 1]
  BY <1>1, <1>2, ConcatProperties
<1>4. n \in Nat /\ 1 <= n /\ n <= Len(history) + 1  BY <1>1
<1> HIDE DEF all, n
<1>5. \A k \in 1 .. n : all[k] \in Notes  BY <1>1, <1>3, <1>4, ElementOfSeq
<1>6. /\ SubSeq(all, 1, n) \in Seq(Notes) /\ Len(SubSeq(all, 1, n)) = n
      /\ \A k \in 1 .. n : SubSeq(all, 1, n)[k] = all[k]
  BY <1>4, <1>5, SubSeqProperties
<1>7. AppendNotification(new) = SubSeq(all, 1, n)  BY DEF AppendNotification, all, n
<1> QED  BY <1>1, <1>3, <1>4, <1>6, <1>7

-----------------------------------------------------------------------------
(* The steps *)

LEMMA InitInv == Init => Inv
<1> SUFFICES ASSUME Init PROVE Inv  OBVIOUS
<1>1. /\ status \in Statuses /\ previous \in Statuses \cup {Nothing} /\ sequence = 0 /\ boots = 0
      /\ stream = [c \in Streams |-> Closed] /\ history = <<>> /\ beside = FALSE
  BY DEF Init, Stopped, Statuses
<1>2. stream \in [Streams -> Connections]  BY <1>1, ClosedType
<1>3. \A c \in Streams : ~stream[c].read /\ stream[c].events = <<>>  BY <1>1, ClosedType
<1>4. Typed
  <2>1. history \in Seq(Notes) /\ sequence \in Nat /\ boots \in Nat  BY <1>1
  <2>2. beside \in BOOLEAN  BY <1>1
  <2> QED  BY <1>1, <1>2, <2>1, <2>2 DEF Typed
<1>5. Numbered /\ Received /\ Apart /\ Untold
  BY <1>1, <1>3 DEF Numbered, Rises, Received, Apart, Untold
<1>6. DOMAIN history = {}
  <2>1. history \in Seq(Notes) /\ Len(history) = 0  BY <1>1
  <2>2. DOMAIN history = 1 .. 0  BY <2>1, LenProperties
  <2> QED  BY <2>2
<1>7. ToldOnce /\ HistoryInOrder  BY <1>6 DEF ToldOnce, HistoryInOrder
<1>8. OneReader /\ Newer  BY <1>3 DEF OneReader, Newer
<1> QED  BY <1>4, <1>5, <1>7, <1>8 DEF Inv, Counted, InOrder

(* A step that changes one stream, whose new events are none, keeps the invariant. *)
LEMMA SilentStep ==
  ASSUME Inv, NEW c \in Streams, NEW new \in Connections, new.events = <<>>,
         stream' = [stream EXCEPT ![c] = new], beside' \in BOOLEAN,
         ~beside' => ~beside /\ (new.read => \A d \in Streams \ {c} : ~stream[d].read),
         UNCHANGED <<status, previous, sequence, boots, history>>
  PROVE  Inv'
<1>1. Typed'  BY DEF Inv, Counted, Typed
<1>2. \A d \in Streams : stream'[d] = IF d = c THEN new ELSE stream[d]
  BY DEF Inv, Counted, Typed
<1>3. \A d \in Streams : stream'[d].events = <<>> \/ stream'[d].events = stream[d].events
  BY <1>2
<1>4. Numbered'  BY <1>3 DEF Inv, Counted, Numbered, Rises
<1>5. Received' /\ ToldOnce'  BY DEF Inv, Counted, Received, ToldOnce, Together
<1>6. Apart'  BY <1>3 DEF Inv, Counted, Apart
<1>7. Untold'  BY <1>3 DEF Inv, Counted, Untold
<1>8. InOrder'
  <2> SUFFICES ASSUME ~beside' PROVE OneReader' /\ Newer' /\ HistoryInOrder'  BY DEF InOrder
  <2>1. OneReader /\ Newer /\ HistoryInOrder  BY DEF Inv, InOrder
  <2>2. OneReader'  BY <1>2, <2>1 DEF OneReader
  <2>3. Newer'  BY <1>2, <2>1 DEF Newer
  <2>4. HistoryInOrder'  BY <2>1 DEF HistoryInOrder, Together, Inv, InOrder
  <2> QED  BY <2>2, <2>3, <2>4
<1> QED  BY <1>1, <1>4, <1>5, <1>6, <1>7, <1>8 DEF Inv, Counted

LEMMA PollsKeepsInv == ASSUME Inv, NEW c \in Streams, Polls(c) PROVE Inv'
<1> DEFINE new == Stream("telling", stream[c].read, status, <<>>)
<1>1. stream[c] \in Connections /\ status \in Statuses  BY DEF Inv, Counted, Typed
<1>2. stream[c].read \in BOOLEAN  BY <1>1 DEF Connections
<1>3. new \in Connections /\ new.read = stream[c].read /\ new.events = <<>>
  BY <1>1, <1>2, SilentType
<1>4. stream' = [stream EXCEPT ![c] = new] /\ UNCHANGED <<bridge, beside, history>>
  BY DEF Polls, center
<1>5. ~beside' => ~beside /\ (new.read => \A d \in Streams \ {c} : ~stream[d].read)
  BY <1>3, <1>4 DEF Inv, InOrder, OneReader
<1>6. beside' \in BOOLEAN  BY <1>4 DEF Inv, Counted, Typed
<1> HIDE DEF new
<1> QED  BY <1>3, <1>4, <1>5, <1>6, SilentStep DEF bridge

(* The stream of c closes, nothing else. *)
LEMMA CloseKeepsInv ==
  ASSUME Inv, NEW c \in Streams, stream' = [stream EXCEPT ![c] = Closed],
         UNCHANGED <<status, previous, sequence, boots, beside, history>>
  PROVE  Inv'
<1>1. beside' \in BOOLEAN  BY DEF Inv, Counted, Typed
<1> QED  BY <1>1, ClosedType, SilentStep

LEMMA TellsKeepsInv == ASSUME Inv, NEW c \in Streams, Tells(c) PROVE Inv'
<1> DEFINE new == stream[c].snapshot
           events == IF previous = Nothing THEN <<>> ELSE Events(previous, new)
           conn == Stream("writing", stream[c].read, Stopped, events)
<1>1. UNCHANGED <<status, boots, beside, history>>  BY DEF Tells
<1>2. CASE Fails(c) /\ UNCHANGED <<previous, sequence>>
  BY <1>1, <1>2, CloseKeepsInv DEF Fails
<1>3. CASE /\ previous' = new /\ sequence' = sequence + Len(events)
           /\ stream' = [stream EXCEPT ![c] = conn]
  <2>1. /\ stream[c] \in Connections /\ stream \in [Streams -> Connections]
        /\ sequence \in Nat /\ boots \in Nat /\ history \in Seq(Notes)
    BY DEF Inv, Counted, Typed
  <2>2. new \in Statuses /\ stream[c].read \in BOOLEAN  BY <2>1 DEF Connections
  <2>3. /\ events \in Seq(Notes)
        /\ \A i \in 1 .. Len(events) : events[i].boot = boots /\ events[i].id = sequence + i
    <3>1. CASE previous = Nothing  BY <3>1
    <3>2. CASE previous # Nothing
      <4>1. previous \in Statuses  BY <3>2 DEF Inv, Counted, Typed
      <4>2. events = Events(previous, new)  BY <3>2
      <4> QED  BY <2>2, <4>1, <4>2, EventsFacts DEF Inv, Counted
    <3> QED  BY <3>1, <3>2
  <2> HIDE DEF events, new
  <2>4. conn \in Connections /\ conn.read = stream[c].read /\ conn.events = events
    BY <2>2, <2>3, StreamType DEF Stopped, Statuses
  <2>5. Len(events) \in Nat  BY <2>3, LenProperties
  <2> HIDE DEF conn
  <2>6. \A d \in Streams : stream'[d] = IF d = c THEN conn ELSE stream[d]  BY <1>3, <2>1
  <2>7. Typed'  BY <1>1, <1>3, <2>1, <2>2, <2>4, <2>5 DEF Inv, Counted, Typed
  <2>9. Numbered'
    <3> SUFFICES ASSUME NEW d \in Streams PROVE Rises(stream'[d].events, sequence', boots')
      BY DEF Numbered
    <3>1. CASE d = c
      <4>1. stream'[d].events = events  BY <2>4, <2>6, <3>1
      <4>2. \A i \in 1 .. Len(events) :
              events[i].boot = boots /\ events[i].id = sequence + i
        BY <2>3
      <4>3. sequence' = sequence + Len(events) /\ boots' = boots  BY <1>1, <1>3
      <4> QED  BY <2>1, <2>5, <4>1, <4>2, <4>3 DEF Rises
    <3>2. CASE d # c
      <4>1. stream'[d] = stream[d] /\ Rises(stream[d].events, sequence, boots)
        BY <2>6, <3>2 DEF Inv, Counted, Numbered
      <4>2. \A i \in 1 .. Len(stream[d].events) : stream[d].events[i] \in Notes
        BY <2>1, ElementOfSeq DEF Connections
      <4> QED  BY <1>1, <1>3, <2>1, <2>5, <4>1, <4>2 DEF Rises, Notes
    <3> QED  BY <3>1, <3>2
  <2>10. \A k \in 1 .. Len(history) : history[k] \in Notes  BY <2>1, ElementOfSeq
  <2>11. Received'  BY <1>1, <1>3, <2>1, <2>5, <2>10 DEF Inv, Counted, Received, Notes
  <2>a. \A k \in 1 .. Len(history) :
          history[k].boot = boots => history[k].id \in Nat /\ history[k].id <= sequence
    BY <2>10 DEF Inv, Counted, Received, Notes
  <2>b. \A d \in Streams : \A j \in 1 .. Len(stream[d].events) :
          stream[d].events[j].id \in Nat /\ stream[d].events[j].id <= sequence
    <3> SUFFICES ASSUME NEW d \in Streams, NEW j \in 1 .. Len(stream[d].events)
                 PROVE  stream[d].events[j].id \in Nat /\ stream[d].events[j].id <= sequence
      OBVIOUS
    <3>1. stream[d].events \in Seq(Notes)  BY <2>1 DEF Connections
    <3>2. stream[d].events[j] \in Notes  BY <3>1, ElementOfSeq
    <3> QED  BY <3>2 DEF Inv, Counted, Numbered, Rises, Notes
  <2>c. stream'[c].events = events  BY <2>4, <2>6
  <2>d. Apart'
    <3> SUFFICES ASSUME NEW d \in Streams, NEW e \in Streams, d # e,
                        NEW i \in 1 .. Len(stream'[d].events), NEW j \in 1 .. Len(stream'[e].events)
                 PROVE  stream'[d].events[i].id # stream'[e].events[j].id
      BY DEF Apart
    <3>1. CASE d = c
      <4>1. stream'[e] = stream[e] /\ stream'[d].events[i].id = sequence + i
        BY <2>3, <2>6, <2>c, <3>1
      <4>2. stream[e].events[j].id \in Nat /\ stream[e].events[j].id <= sequence  BY <2>b, <4>1
      <4>3. i \in Nat /\ i > 0  BY <2>5, <2>c, <3>1
      <4> QED  BY <2>1, <4>1, <4>2, <4>3
    <3>2. CASE e = c
      <4>1. stream'[d] = stream[d] /\ stream'[e].events[j].id = sequence + j
        BY <2>3, <2>6, <2>c, <3>2
      <4>2. stream[d].events[i].id \in Nat /\ stream[d].events[i].id <= sequence  BY <2>b, <4>1
      <4>3. j \in Nat /\ j > 0  BY <2>5, <2>c, <3>2
      <4> QED  BY <2>1, <4>1, <4>2, <4>3
    <3>3. CASE d # c /\ e # c
      <4>1. stream'[d] = stream[d] /\ stream'[e] = stream[e]  BY <2>6, <3>3
      <4> QED  BY <4>1 DEF Inv, Counted, Apart
    <3> QED  BY <3>1, <3>2, <3>3
  <2>e. Untold'
    <3> SUFFICES ASSUME NEW d \in Streams, NEW i \in 1 .. Len(stream'[d].events),
                        NEW k \in 1 .. Len(history), history[k].boot = boots
                 PROVE  history[k].id # stream'[d].events[i].id
      BY <1>1 DEF Untold
    <3>1. CASE d = c
      <4>1. stream'[d].events[i].id = sequence + i  BY <2>3, <2>c, <3>1
      <4>2. i \in Nat /\ i > 0  BY <2>5, <2>c, <3>1
      <4> QED  BY <2>1, <2>a, <4>1, <4>2
    <3>2. CASE d # c
      <4>1. stream'[d] = stream[d]  BY <2>6, <3>2
      <4> QED  BY <4>1 DEF Inv, Counted, Untold
    <3> QED  BY <3>1, <3>2
  <2>f. ToldOnce'  BY <1>1 DEF Inv, Counted, ToldOnce, Together
  <2>g. InOrder'
    <3> SUFFICES ASSUME ~beside PROVE OneReader' /\ Newer' /\ HistoryInOrder'
      BY <1>1 DEF InOrder
    <3>1. OneReader /\ Newer /\ HistoryInOrder  BY DEF Inv, InOrder
    <3>2. OneReader'  BY <2>4, <2>6, <3>1 DEF OneReader
    <3>3. HistoryInOrder'  BY <1>1, <3>1 DEF HistoryInOrder, Together
    <3>4. Newer'
      <4> SUFFICES ASSUME NEW d \in Streams, stream'[d].read,
                          NEW i \in 1 .. Len(stream'[d].events), NEW k \in 1 .. Len(history),
                          history[k].boot = boots
                   PROVE  history[k].id < stream'[d].events[i].id
        BY <1>1 DEF Newer
      <4>1. CASE d = c
        <5>1. stream'[d].events[i].id = sequence + i  BY <2>3, <2>c, <4>1
        <5>2. i \in Nat /\ i > 0  BY <2>5, <2>c, <4>1
        <5> QED  BY <2>1, <2>a, <5>1, <5>2
      <4>2. CASE d # c  BY <2>6, <3>1, <4>2 DEF Newer
      <4> QED  BY <4>1, <4>2
    <3> QED  BY <3>2, <3>3, <3>4
  <2> QED  BY <2>7, <2>9, <2>11, <2>d, <2>e, <2>f, <2>g DEF Inv, Counted
<1> QED  BY <1>2, <1>3 DEF Tells, Remember, Numbers

LEMMA WritesKeepsInv == ASSUME Inv, NEW c \in Streams, Writes(c) PROVE Inv'
<1>1. UNCHANGED <<status, previous, sequence, boots, beside>>  BY DEF Writes, bridge
<1>2. CASE Fails(c) /\ UNCHANGED history
  BY <1>1, <1>2, CloseKeepsInv DEF Fails
<1>3. CASE /\ stream' = [stream EXCEPT ![c] = Stream("writing", @.read, Stopped, Tail(@.events))]
           /\ \/ stream[c].read /\ history' = AppendNotification(Head(stream[c].events))
              \/ UNCHANGED history
  <2> DEFINE events == stream[c].events
             conn == Stream("writing", stream[c].read, Stopped, Tail(events))
  <2>1. /\ stream[c] \in Connections /\ stream \in [Streams -> Connections]
        /\ sequence \in Nat /\ boots \in Nat /\ history \in Seq(Notes)
    BY DEF Inv, Counted, Typed
  <2>2. events \in Seq(Notes) /\ events # <<>>  BY <2>1 DEF Connections, Writes
  <2>3. /\ Head(events) \in Notes /\ Tail(events) \in Seq(Notes) /\ Head(events) = events[1]
        /\ Len(Tail(events)) = Len(events) - 1 /\ Len(events) \in Nat /\ Len(events) >= 1
        /\ \A i \in 1 .. Len(events) - 1 : Tail(events)[i] = events[i + 1]
        /\ \A i \in 1 .. Len(events) : events[i] \in Notes
    BY <2>2, HeadTailProperties, ElementOfSeq, EmptySeq
  <2>4. conn \in Connections /\ conn.read = stream[c].read /\ conn.events = Tail(events)
    <3>1. stream[c].read \in BOOLEAN /\ Stopped \in Statuses
      BY <2>1 DEF Connections, Stopped, Statuses
    <3> QED  BY <2>3, <3>1 DEF Stream, Connections
  <2>5. stream' = [stream EXCEPT ![c] = conn]  BY <1>3
  <2>6. Rises(events, sequence, boots)  BY DEF Inv, Counted, Numbered
  <2> HIDE DEF conn, events
  <2>7. \A d \in Streams : stream'[d] = IF d = c THEN conn ELSE stream[d]  BY <2>1, <2>5
  (* What a stream is to write after the step it was to write before, and c not first. *)
  <2>8. ASSUME NEW d \in Streams, NEW i \in 1 .. Len(stream'[d].events)
        PROVE  \E j \in 1 .. Len(stream[d].events) :
                 stream'[d].events[i] = stream[d].events[j] /\ (d = c => j = i + 1)
    <3>1. CASE d = c
      <4>1. stream'[d].events = Tail(events)  BY <2>4, <2>7, <3>1
      <4>2. i \in 1 .. Len(events) - 1  BY <2>3, <4>1
      <4>3. i + 1 \in 1 .. Len(events) /\ Tail(events)[i] = events[i + 1]  BY <2>3, <4>2
      <4> QED  BY <3>1, <4>1, <4>3 DEF events
    <3>2. CASE d # c
      <4>1. stream'[d] = stream[d]  BY <2>7, <3>2
      <4> QED  BY <3>2, <4>1
    <3> QED  BY <3>1, <3>2
  <2>9. Numbered'
    <3> SUFFICES ASSUME NEW d \in Streams PROVE Rises(stream'[d].events, sequence', boots')
      BY DEF Numbered
    <3>1. CASE d = c
      <4>1. stream'[d].events = Tail(events) /\ sequence' = sequence /\ boots' = boots
        BY <1>1, <2>4, <2>7, <3>1
      <4>2. \A i \in 1 .. Len(events) - 1 : i + 1 \in 1 .. Len(events)  BY <2>3
      <4> QED  BY <2>3, <2>6, <4>1, <4>2 DEF Rises
    <3>2. CASE d # c  BY <1>1, <2>7, <3>2 DEF Inv, Counted, Numbered, Rises
    <3> QED  BY <3>1, <3>2
  <2>a. Apart'
    <3> SUFFICES ASSUME NEW d \in Streams, NEW e \in Streams, d # e,
                        NEW i \in 1 .. Len(stream'[d].events), NEW j \in 1 .. Len(stream'[e].events)
                 PROVE  stream'[d].events[i].id # stream'[e].events[j].id
      BY DEF Apart
    <3>1. PICK x \in 1 .. Len(stream[d].events) : stream'[d].events[i] = stream[d].events[x]
      BY <2>8
    <3>2. PICK y \in 1 .. Len(stream[e].events) : stream'[e].events[j] = stream[e].events[y]
      BY <2>8
    <3> QED  BY <3>1, <3>2 DEF Inv, Counted, Apart
  <2>10. CASE UNCHANGED history
    <3>1. Typed'  BY <1>1, <2>1, <2>4, <2>5, <2>10 DEF Inv, Counted, Typed
    <3>2. Received' /\ ToldOnce'
      BY <1>1, <2>10 DEF Inv, Counted, Received, ToldOnce, Together
    <3>3. Untold'
      <4> SUFFICES ASSUME NEW d \in Streams, NEW i \in 1 .. Len(stream'[d].events),
                          NEW k \in 1 .. Len(history), history[k].boot = boots
                   PROVE  history[k].id # stream'[d].events[i].id
        BY <1>1, <2>10 DEF Untold
      <4>1. PICK x \in 1 .. Len(stream[d].events) : stream'[d].events[i] = stream[d].events[x]
        BY <2>8
      <4> QED  BY <4>1 DEF Inv, Counted, Untold
    <3>4. InOrder'
      <4> SUFFICES ASSUME ~beside PROVE OneReader' /\ Newer' /\ HistoryInOrder'
        BY <1>1 DEF InOrder
      <4>1. OneReader /\ Newer /\ HistoryInOrder  BY DEF Inv, InOrder
      <4>2. \A d \in Streams : stream'[d].read = stream[d].read  BY <2>4, <2>7
      <4>3. OneReader'  BY <4>1, <4>2 DEF OneReader
      <4>4. HistoryInOrder'  BY <1>1, <2>10, <4>1 DEF HistoryInOrder, Together
      <4>5. Newer'
        <5> SUFFICES ASSUME NEW d \in Streams, stream'[d].read,
                            NEW i \in 1 .. Len(stream'[d].events), NEW k \in 1 .. Len(history),
                            history[k].boot = boots
                     PROVE  history[k].id < stream'[d].events[i].id
          BY <1>1, <2>10 DEF Newer
        <5>1. PICK x \in 1 .. Len(stream[d].events) : stream'[d].events[i] = stream[d].events[x]
          BY <2>8
        <5> QED  BY <4>1, <4>2, <5>1 DEF Newer
      <4> QED  BY <4>3, <4>4, <4>5
    <3> QED  BY <2>9, <2>a, <3>1, <3>2, <3>3, <3>4 DEF Inv, Counted
  <2>11. CASE stream[c].read /\ history' = AppendNotification(Head(stream[c].events))
    <3>1. history' = AppendNotification(Head(events))  BY <2>11 DEF events
    <3>2. /\ history' \in Seq(Notes) /\ Len(history') \in Nat /\ Len(history) \in Nat
          /\ Len(history') >= 1 /\ Len(history') <= Len(history) + 1
          /\ history'[1] = events[1]
          /\ \A k \in 2 .. Len(history') : history'[k] = history[k - 1]
      BY <2>1, <2>3, <3>1, AppendFacts, LenProperties DEF Inv, Counted
    <3>3. \A k \in 1 .. Len(history) : history[k] \in Notes  BY <2>1, ElementOfSeq
    <3>4. /\ events[1] \in Notes /\ events[1].boot = boots /\ events[1].id <= sequence
      BY <2>3, <2>6 DEF Rises
    <3>5. \A k \in 1 .. Len(history) : history[k].boot = boots => history[k].id # events[1].id
      BY <2>3 DEF Inv, Counted, Untold, events
    <3>6. \A k \in 2 .. Len(history') : k - 1 \in 1 .. Len(history)  BY <3>2
    <3>7. Typed'  BY <1>1, <2>1, <2>4, <2>5, <3>2 DEF Inv, Counted, Typed
    <3>8. Received'
      <4> SUFFICES ASSUME NEW k \in 1 .. Len(history')
                   PROVE  /\ history'[k].boot <= boots
                          /\ history'[k].boot = boots => history'[k].id <= sequence
        BY <1>1 DEF Received
      <4>1. CASE k = 1  BY <2>1, <3>2, <3>4, <4>1
      <4>2. CASE k # 1
        <5>1. k \in 2 .. Len(history')  BY <3>2, <4>2
        <5>2. history'[k] = history[k - 1] /\ k - 1 \in 1 .. Len(history)  BY <3>2, <3>6, <5>1
        <5> QED  BY <5>2 DEF Inv, Counted, Received
      <4> QED  BY <4>1, <4>2
    <3>d. DOMAIN history' = 1 .. Len(history') /\ DOMAIN history = 1 .. Len(history)
      BY <2>1, <3>2, LenProperties
    <3>9. ToldOnce'
      <4>1. ASSUME NEW j \in 2 .. Len(history'), history'[j].boot = boots
            PROVE  history'[j].id # events[1].id
        <5>1. history'[j] = history[j - 1] /\ j - 1 \in 1 .. Len(history)  BY <3>2, <3>6
        <5> QED  BY <3>5, <4>1, <5>1
      <4>2. ASSUME NEW i \in 2 .. Len(history'), NEW j \in 2 .. Len(history'), i # j,
                   history'[i].boot = history'[j].boot
            PROVE  history'[i].id # history'[j].id
        <5>1. /\ history'[i] = history[i - 1] /\ i - 1 \in DOMAIN history
              /\ history'[j] = history[j - 1] /\ j - 1 \in DOMAIN history
          BY <3>2, <3>6, <3>d
        <5>2. i - 1 # j - 1  BY <3>2, <4>2
        <5> QED  BY <4>2, <5>1, <5>2 DEF Inv, Counted, ToldOnce, Together
      <4> SUFFICES ASSUME NEW i \in 1 .. Len(history'), NEW j \in 1 .. Len(history'),
                          i # j, history'[i].boot = history'[j].boot
                   PROVE  history'[i].id # history'[j].id
        BY <3>d DEF ToldOnce, Together
      <4>3. CASE i = 1
        <5>1. j \in 2 .. Len(history')  BY <3>2, <4>3
        <5> QED  BY <3>2, <3>4, <4>1, <4>3, <5>1
      <4>4. CASE j = 1
        <5>1. i \in 2 .. Len(history')  BY <3>2, <4>4
        <5> QED  BY <3>2, <3>4, <4>1, <4>4, <5>1
      <4>5. CASE i # 1 /\ j # 1
        <5>1. i \in 2 .. Len(history') /\ j \in 2 .. Len(history')  BY <3>2, <4>5
        <5> QED  BY <4>2, <5>1
      <4> QED  BY <4>3, <4>4, <4>5
    <3>10. Untold'
      <4> SUFFICES ASSUME NEW d \in Streams, NEW i \in 1 .. Len(stream'[d].events),
                          NEW k \in 1 .. Len(history'), history'[k].boot = boots
                   PROVE  history'[k].id # stream'[d].events[i].id
        BY <1>1 DEF Untold
      <4>1. PICK x \in 1 .. Len(stream[d].events) :
              stream'[d].events[i] = stream[d].events[x] /\ (d = c => x = i + 1)
        BY <2>8
      <4>2. CASE k = 1 /\ d = c
        <5>1. x \in 1 .. Len(events) /\ 1 \in 1 .. Len(events) /\ 1 < x
          BY <2>3, <4>1, <4>2 DEF events
        <5>2. events[1].id < events[x].id  BY <2>6, <5>1 DEF Rises
        <5>3. events[1].id \in Nat /\ events[x].id \in Nat  BY <2>3, <5>1 DEF Notes
        <5> QED  BY <3>2, <4>1, <4>2, <5>2, <5>3 DEF events
      <4>3. CASE k = 1 /\ d # c
        <5>1. 1 \in 1 .. Len(stream[c].events)  BY <2>3 DEF events
        <5>2. stream[c].events[1].id # stream[d].events[x].id
          BY <4>1, <4>3, <5>1 DEF Inv, Counted, Apart
        <5> QED  BY <3>2, <4>1, <4>3, <5>2 DEF events
      <4>4. CASE k # 1
        <5>1. k \in 2 .. Len(history')  BY <3>2, <4>4
        <5>2. history'[k] = history[k - 1] /\ k - 1 \in 1 .. Len(history)  BY <3>2, <3>6, <5>1
        <5> QED  BY <4>1, <5>2 DEF Inv, Counted, Untold
      <4> QED  BY <4>2, <4>3, <4>4
    <3>11. InOrder'
      <4> SUFFICES ASSUME ~beside PROVE OneReader' /\ Newer' /\ HistoryInOrder'
        BY <1>1 DEF InOrder
      <4>1. OneReader /\ Newer /\ HistoryInOrder  BY DEF Inv, InOrder
      <4>2. \A d \in Streams : stream'[d].read = stream[d].read  BY <2>4, <2>7
      <4>3. OneReader'  BY <4>1, <4>2 DEF OneReader
      <4>4. \A k \in 1 .. Len(history) : history[k].boot = boots => history[k].id < events[1].id
        BY <2>3, <2>11, <4>1 DEF Newer, events
      <4>5. HistoryInOrder'
        <5> SUFFICES ASSUME NEW i \in 1 .. Len(history'), NEW j \in 1 .. Len(history'),
                            i < j, history'[i].boot = history'[j].boot
                     PROVE  history'[i].id > history'[j].id
          BY <3>d DEF HistoryInOrder, Together
        <5>1. j \in 2 .. Len(history')  BY <3>2
        <5>2. history'[j] = history[j - 1] /\ j - 1 \in 1 .. Len(history)  BY <3>2, <3>6, <5>1
        <5>3. CASE i = 1
          <6>1. history'[i] = events[1]  BY <3>2, <5>3
          <6>2. history[j - 1].boot = boots  BY <3>4, <5>2, <6>1
          <6>3. history[j - 1].id < events[1].id  BY <4>4, <5>2, <6>2
          <6> QED  BY <3>3, <3>4, <5>2, <6>1, <6>3 DEF Notes
        <5>4. CASE i # 1
          <6>1. i \in 2 .. Len(history')  BY <3>2, <5>4
          <6>2. history'[i] = history[i - 1] /\ i - 1 \in 1 .. Len(history)
            BY <3>2, <3>6, <6>1
          <6>3. i - 1 < j - 1  BY <5>1, <6>1
          <6> QED  BY <3>d, <4>1, <5>2, <6>2, <6>3 DEF HistoryInOrder, Together
        <5> QED  BY <5>3, <5>4
      <4>6. Newer'
        <5> SUFFICES ASSUME NEW d \in Streams, stream'[d].read,
                            NEW i \in 1 .. Len(stream'[d].events), NEW k \in 1 .. Len(history'),
                            history'[k].boot = boots
                     PROVE  history'[k].id < stream'[d].events[i].id
          BY <1>1 DEF Newer
        <5>1. d = c  BY <2>11, <4>1, <4>2 DEF OneReader
        <5>2. i + 1 \in 1 .. Len(events) /\ stream'[d].events[i] = events[i + 1]
          BY <2>8, <5>1 DEF events
        <5>3. 1 \in 1 .. Len(events) /\ 1 < i + 1  BY <2>3, <5>2
        <5>4. events[1].id < events[i + 1].id  BY <2>6, <5>2, <5>3 DEF Rises
        <5>5. CASE k = 1  BY <3>2, <5>2, <5>4, <5>5
        <5>6. CASE k # 1
          <6>1. k \in 2 .. Len(history')  BY <3>2, <5>6
          <6>2. history'[k] = history[k - 1] /\ k - 1 \in 1 .. Len(history)
            BY <3>2, <3>6, <6>1
          <6>3. history[k - 1].id < events[i + 1].id
            BY <2>11, <4>1, <5>2, <6>2 DEF Newer, events
          <6> QED  BY <5>2, <6>2, <6>3
        <5> QED  BY <5>5, <5>6
      <4> QED  BY <4>3, <4>5, <4>6
    <3> QED  BY <2>9, <2>a, <3>7, <3>8, <3>9, <3>10, <3>11 DEF Inv, Counted
  <2> QED  BY <1>3, <2>10, <2>11
<1> QED  BY <1>2, <1>3 DEF Writes

LEMMA WaitsKeepsInv == ASSUME Inv, NEW c \in Streams, Waits(c) PROVE Inv'
<1> DEFINE new == Stream("polling", stream[c].read, Stopped, <<>>)
<1>1. stream[c].read \in BOOLEAN  BY DEF Inv, Counted, Typed, Connections
<1>2. new \in Connections /\ new.read = stream[c].read /\ new.events = <<>>
  BY <1>1, SilentType DEF Stopped, Statuses
<1>3. stream' = [stream EXCEPT ![c] = new] /\ UNCHANGED <<bridge, beside, history>>
  BY DEF Waits, center
<1>4. ~beside' => ~beside /\ (new.read => \A d \in Streams \ {c} : ~stream[d].read)
  BY <1>2, <1>3 DEF Inv, InOrder, OneReader
<1>5. beside' \in BOOLEAN  BY <1>3 DEF Inv, Counted, Typed
<1> HIDE DEF new
<1> QED  BY <1>2, <1>3, <1>4, <1>5, SilentStep DEF bridge

LEMMA OpensKeepsInv == ASSUME Inv, NEW c \in Streams, Opens(c) PROVE Inv'
<1> DEFINE new == Stream("polling", TRUE, Stopped, <<>>)
<1>1. new \in Connections /\ new.events = <<>>
  BY SilentType DEF Stopped, Statuses
<1>2. stream' = [stream EXCEPT ![c] = new] /\ UNCHANGED <<bridge, history>>
      /\ beside' = (beside \/ \E d \in Streams : stream[d].read)
  BY DEF Opens, center
<1> HIDE DEF new
<1>3. ~beside' => ~beside /\ \A d \in Streams \ {c} : ~stream[d].read  BY <1>2
<1>4. beside' \in BOOLEAN  BY <1>2
<1> QED  BY <1>1, <1>2, <1>3, <1>4, SilentStep DEF bridge

LEMMA AbandonsKeepsInv == ASSUME Inv, NEW c \in Streams, Abandons(c) PROVE Inv'
<1> DEFINE conn == Stream(stream[c].at, FALSE, stream[c].snapshot, stream[c].events)
<1>1. stream' = [stream EXCEPT ![c] = conn] /\ UNCHANGED <<bridge, beside, history>>
  BY DEF Abandons, center
<1>2. stream \in [Streams -> Connections]  BY DEF Inv, Counted, Typed
<1>3. conn \in Connections /\ conn.read = FALSE /\ conn.events = stream[c].events
  <2>1. /\ stream[c].at \in {"closed", "polling", "telling", "writing"}
        /\ stream[c].snapshot \in Statuses /\ stream[c].events \in Seq(Notes)
    BY <1>2 DEF Connections
  <2> QED  BY <2>1 DEF Stream, Connections
<1> HIDE DEF conn
<1>4. \A d \in Streams : stream'[d] \in Connections /\ stream'[d].events = stream[d].events
                         /\ (stream'[d].read => stream[d].read)
  BY <1>1, <1>2, <1>3
<1>5. Typed'  BY <1>1, <1>2, <1>3 DEF Inv, Counted, Typed, bridge
<1>6. Numbered' /\ Apart' /\ Untold'
  BY <1>1, <1>4 DEF Inv, Counted, Numbered, Rises, Apart, Untold, bridge
<1>7. Received' /\ ToldOnce'  BY <1>1 DEF Inv, Counted, Received, ToldOnce, Together, bridge
<1>8. InOrder'
  <2> SUFFICES ASSUME ~beside PROVE OneReader' /\ Newer' /\ HistoryInOrder'
    BY <1>1 DEF InOrder
  <2>1. OneReader /\ Newer /\ HistoryInOrder  BY DEF Inv, InOrder
  <2>2. OneReader'  BY <1>4, <2>1 DEF OneReader
  <2>3. Newer'  BY <1>1, <1>4, <2>1 DEF Newer, bridge
  <2>4. HistoryInOrder'  BY <1>1, <2>1 DEF HistoryInOrder, Together
  <2> QED  BY <2>2, <2>3, <2>4
<1> QED  BY <1>5, <1>6, <1>7, <1>8 DEF Inv, Counted

LEMMA RaisesKeepsInv == ASSUME Inv, NEW c \in Streams, Raises(c) PROVE Inv'
BY CloseKeepsInv DEF Raises, bridge, center

LEMMA RestartsKeepsInv == ASSUME Inv, Restarts PROVE Inv'
<1>1. /\ status' \in Statuses /\ previous' = Nothing /\ sequence' = 0 /\ boots' = boots + 1
      /\ stream' = [c \in Streams |-> Closed] /\ history' = history /\ beside' = beside
  BY DEF Restarts, center, Stopped, Statuses
<1>2. boots \in Nat /\ history \in Seq(Notes) /\ beside \in BOOLEAN  BY DEF Inv, Counted, Typed
<1>3. \A c \in Streams : stream'[c] = Closed  BY <1>1
<1>4. Typed'  BY <1>1, <1>2, ClosedType DEF Typed
<1>5. OneReader' /\ Numbered' /\ Newer' /\ Apart' /\ Untold'
  BY <1>3, ClosedType DEF OneReader, Numbered, Rises, Newer, Apart, Untold
<1>6. \A k \in 1 .. Len(history) : history[k] \in Notes  BY <1>2, ElementOfSeq
<1>7. Received'  BY <1>1, <1>2, <1>6 DEF Inv, Counted, Received, Notes
<1>8. ToldOnce'  BY <1>1 DEF Inv, Counted, ToldOnce, Together
<1>9. InOrder'
  <2>1. ~beside => HistoryInOrder  BY DEF Inv, InOrder
  <2>2. ~beside => HistoryInOrder'  BY <1>1, <2>1 DEF HistoryInOrder, Together
  <2> QED  BY <1>1, <1>5, <2>2 DEF InOrder
<1> QED  BY <1>4, <1>5, <1>7, <1>8, <1>9 DEF Inv, Counted

(* The status, the toasts and what stutters. *)
LEMMA AsideKeepsInv ==
  ASSUME Inv, StatusChanges \/ Toast \/ UNCHANGED vars
  PROVE  Inv'
<1>1. /\ status' \in Statuses
      /\ UNCHANGED <<previous, sequence, boots, stream, beside, history>>
  BY DEF StatusChanges, Toast, vars, bridge, center, Inv, Counted, Typed
<1>2. Typed'  BY <1>1 DEF Inv, Counted, Typed
<1>3. Numbered' /\ Received' /\ Apart' /\ Untold' /\ ToldOnce'
  BY <1>1 DEF Inv, Counted, Numbered, Rises, Received, Apart, Untold, ToldOnce, Together
<1>4. InOrder'
  <2>1. ~beside => OneReader /\ Newer /\ HistoryInOrder  BY DEF Inv, InOrder
  <2>2. ~beside => OneReader' /\ Newer' /\ HistoryInOrder'
    BY <1>1, <2>1 DEF OneReader, Newer, HistoryInOrder, Together
  <2> QED  BY <1>1, <2>2 DEF InOrder
<1> QED  BY <1>2, <1>3, <1>4 DEF Inv, Counted

-----------------------------------------------------------------------------
(* The invariant holds in every state. *)
THEOREM Invariance == Spec => []Inv
<1>1. ASSUME Inv, [Next]_vars PROVE Inv'
  BY <1>1, PollsKeepsInv, TellsKeepsInv, WritesKeepsInv, WaitsKeepsInv, OpensKeepsInv,
     AbandonsKeepsInv, RaisesKeepsInv, RestartsKeepsInv, AsideKeepsInv DEF Next, Thread
<1> QED  BY InitInv, <1>1, PTL DEF Spec

(* However many streams take turns at numbering the changes, and however many of them the page     *)
(* hears, no two of its entries have one id (notifications_for_snapshot).                           *)
THEOREM ComesOnce == Spec => []ToldOnce
<1>1. Inv => ToldOnce  BY DEF Inv, Counted
<1> QED  BY Invariance, <1>1, PTL

(* For as long as the page has never heard two streams at a time, it has the changes in the order   *)
(* in which the bridge found them, however many threads take turns at that (appendNotification).    *)
THEOREM ArrivesInOrder == Spec => []HistoryInOrder
<1>1. Inv => HistoryInOrder
  <2>1. Inv /\ beside => HistoryInOrder  BY DEF HistoryInOrder
  <2>2. Inv /\ ~beside => HistoryInOrder  BY DEF Inv, InOrder
  <2> QED  BY <2>1, <2>2
<1> QED  BY Invariance, <1>1, PTL

-----------------------------------------------------------------------------
(* Toasts *)

(* Nothing that is yet to come to a stream counts as seen. *)
SeenIsOld ==
  \A x \in seen :
    /\ x \in Nat /\ x <= sequence
    /\ \A c \in Streams : \A i \in 1 .. Len(stream[c].events) : x # stream[c].events[i].id

(* The newest notification counts as seen only when its toast was shown. *)
ShownFirst == history # <<>> => toasted \/ Newest \notin seen

(* NewestHasToast says nothing of a time after the effect that is due, nor of a game. *)
ToastInv == boots = 0 => SeenIsOld /\ ShownFirst /\ NewestHasToast

(* Nothing new counts as seen, and a stream has at most the events to write that it had. *)
LEMMA SeenAside ==
  ASSUME SeenIsOld, UNCHANGED <<sequence, seen>>,
         \A c \in Streams : \A i \in 1 .. Len(stream'[c].events) :
           \E j \in 1 .. Len(stream[c].events) : stream'[c].events[i] = stream[c].events[j]
  PROVE  SeenIsOld'
<1> SUFFICES ASSUME NEW x \in seen, NEW c \in Streams, NEW i \in 1 .. Len(stream'[c].events)
             PROVE  x # stream'[c].events[i].id
  BY DEF SeenIsOld
<1>1. PICK j \in 1 .. Len(stream[c].events) : stream'[c].events[i] = stream[c].events[j]
  OBVIOUS
<1> QED  BY <1>1 DEF SeenIsOld

(* A step that leaves the page alone besides. *)
LEMMA ToastsAside ==
  ASSUME ToastInv, UNCHANGED <<sequence, boots, history, game, due, seen, toasted>>,
         \A c \in Streams : \A i \in 1 .. Len(stream'[c].events) :
           \E j \in 1 .. Len(stream[c].events) : stream'[c].events[i] = stream[c].events[j]
  PROVE  ToastInv'
<1> SUFFICES ASSUME boots = 0 PROVE SeenIsOld' /\ ShownFirst' /\ NewestHasToast'
  BY DEF ToastInv
<1>1. ShownFirst' /\ NewestHasToast'
  BY DEF ToastInv, ShownFirst, NewestHasToast, Newest
<1>2. SeenIsOld'  BY SeenAside DEF ToastInv
<1> QED  BY <1>1, <1>2

(* A stream opens, closes, is abandoned, or takes a snapshot. *)
LEMMA StreamKeepsToasts ==
  ASSUME Inv, ToastInv, NEW c \in Streams, Polls(c) \/ Waits(c) \/ Opens(c) \/ Abandons(c) \/ Raises(c)
  PROVE  ToastInv'
<1>1. UNCHANGED <<sequence, boots, history, game, due, seen, toasted>>
  BY DEF Polls, Waits, Opens, Abandons, Raises, bridge, center
<1>2. stream[c] \in Connections /\ stream \in [Streams -> Connections]  BY DEF Inv, Counted, Typed
<1>3. ASSUME NEW new, stream' = [stream EXCEPT ![c] = new],
             new.events = <<>> \/ new.events = stream[c].events
      PROVE  ToastInv'
  <2>1. \A d \in Streams : stream'[d].events = <<>> \/ stream'[d].events = stream[d].events
    BY <1>2, <1>3
  <2>2. \A d \in Streams : stream'[d].events = <<>> => Len(stream'[d].events) = 0  OBVIOUS
  <2> QED  BY <1>1, <2>1, <2>2, ToastsAside
<1>4. CASE Polls(c)
  <2> DEFINE new == Stream("telling", stream[c].read, status, <<>>)
  <2>1. new.events = <<>> /\ stream' = [stream EXCEPT ![c] = new]  BY <1>4 DEF Polls, Stream
  <2> QED  BY <1>3, <2>1
<1>5. CASE Waits(c)
  <2> DEFINE new == Stream("polling", stream[c].read, Stopped, <<>>)
  <2>1. new.events = <<>> /\ stream' = [stream EXCEPT ![c] = new]  BY <1>5 DEF Waits, Stream
  <2> QED  BY <1>3, <2>1
<1>6. CASE Opens(c)
  <2> DEFINE new == Stream("polling", TRUE, Stopped, <<>>)
  <2>1. new.events = <<>> /\ stream' = [stream EXCEPT ![c] = new]  BY <1>6 DEF Opens, Stream
  <2> QED  BY <1>3, <2>1
<1>7. CASE Abandons(c)
  <2> DEFINE new == Stream(stream[c].at, FALSE, stream[c].snapshot, stream[c].events)
  <2>1. new.events = stream[c].events /\ stream' = [stream EXCEPT ![c] = new]
    BY <1>7 DEF Abandons, Stream
  <2> QED  BY <1>3, <2>1
<1>8. CASE Raises(c)
  BY <1>3, <1>8, ClosedType DEF Raises
<1> QED  BY <1>4, <1>5, <1>6, <1>7, <1>8

LEMMA TellsKeepsToasts == ASSUME Inv, ToastInv, NEW c \in Streams, Tells(c) PROVE ToastInv'
<1> DEFINE new == stream[c].snapshot
           events == IF previous = Nothing THEN <<>> ELSE Events(previous, new)
           conn == Stream("writing", stream[c].read, Stopped, events)
<1>1. UNCHANGED <<boots, history, seen, toasted>>  BY DEF Tells
<1>t. /\ stream[c] \in Connections /\ stream \in [Streams -> Connections] /\ sequence \in Nat
  BY DEF Inv, Counted, Typed
<1>2. CASE Fails(c) /\ UNCHANGED <<sequence, game, due>>
  <2>1. \A d \in Streams : stream'[d].events = <<>> \/ stream'[d].events = stream[d].events
    BY <1>2, <1>t, ClosedType DEF Fails
  <2>2. \A d \in Streams : stream'[d].events = <<>> => Len(stream'[d].events) = 0  OBVIOUS
  <2> QED  BY <1>1, <1>2, <2>1, <2>2, ToastsAside
<1>3. CASE /\ sequence' = sequence + Len(events) /\ stream' = [stream EXCEPT ![c] = conn]
           /\ (due => due') /\ (game' # game => due')
  <2>1. /\ events \in Seq(Notes) /\ \A i \in 1 .. Len(events) : events[i].id = sequence + i
    <3>1. CASE previous = Nothing  BY <3>1
    <3>2. CASE previous # Nothing
      <4>1. previous \in Statuses /\ new \in Statuses  BY <3>2, <1>t DEF Inv, Counted, Typed, Connections
      <4>2. events = Events(previous, new)  BY <3>2
      <4> QED  BY <4>1, <4>2, EventsFacts DEF Inv, Counted
    <3> QED  BY <3>1, <3>2
  <2> HIDE DEF events
  <2>2. Len(events) \in Nat  BY <2>1, LenProperties
  <2>3. conn.events = events  BY DEF Stream
  <2> HIDE DEF conn
  <2>4. \A d \in Streams : stream'[d] = IF d = c THEN conn ELSE stream[d]  BY <1>3, <1>t
  <2> SUFFICES ASSUME boots = 0 PROVE SeenIsOld' /\ ShownFirst' /\ NewestHasToast'
    BY <1>1 DEF ToastInv
  <2>5. ShownFirst' /\ NewestHasToast'
    BY <1>1, <1>3 DEF ToastInv, ShownFirst, NewestHasToast, Newest
  <2>6. SeenIsOld'
    <3> SUFFICES ASSUME NEW x \in seen
                 PROVE  /\ x \in Nat /\ x <= sequence'
                        /\ \A d \in Streams : \A i \in 1 .. Len(stream'[d].events) :
                             x # stream'[d].events[i].id
      BY <1>1 DEF SeenIsOld
    <3>1. x \in Nat /\ x <= sequence  BY DEF ToastInv, SeenIsOld
    <3>2. \A i \in 1 .. Len(events) : x # events[i].id  BY <1>t, <2>1, <2>2, <3>1
    <3>3. \A d \in Streams : \A i \in 1 .. Len(stream'[d].events) : x # stream'[d].events[i].id
      BY <2>3, <2>4, <3>2 DEF ToastInv, SeenIsOld
    <3> QED  BY <1>3, <1>t, <2>2, <3>1, <3>3
  <2> QED  BY <2>5, <2>6
<1>4. \/ /\ sequence' = sequence + Len(events) /\ stream' = [stream EXCEPT ![c] = conn]
         /\ (due => due') /\ (game' # game => due')
      \/ Fails(c) /\ UNCHANGED <<sequence, game, due>>
  BY DEF Tells, Numbers
<1> QED  BY <1>2, <1>3, <1>4

LEMMA WritesKeepsToasts == ASSUME Inv, Inv', ToastInv, NEW c \in Streams, Writes(c) PROVE ToastInv'
<1> DEFINE events == stream[c].events
           conn == Stream("writing", stream[c].read, Stopped, Tail(events))
<1>1. UNCHANGED <<sequence, boots, game, seen>>  BY DEF Writes, bridge
<1>t. stream[c] \in Connections /\ stream \in [Streams -> Connections]  BY DEF Inv, Counted, Typed
<1>2. CASE Fails(c) /\ UNCHANGED <<history, due, toasted>>
  <2>1. \A d \in Streams : stream'[d].events = <<>> \/ stream'[d].events = stream[d].events
    BY <1>2, <1>t, ClosedType DEF Fails
  <2>2. \A d \in Streams : stream'[d].events = <<>> => Len(stream'[d].events) = 0  OBVIOUS
  <2> QED  BY <1>1, <1>2, <2>1, <2>2, ToastsAside
<1>3. CASE /\ stream' = [stream EXCEPT ![c] = conn]
           /\ \/ history' = AppendNotification(Head(events)) /\ due' = TRUE /\ toasted' = FALSE
              \/ UNCHANGED <<history, due, toasted>>
  <2>1. events \in Seq(Notes) /\ events # <<>>  BY <1>t DEF Connections, Writes
  <2>2. /\ Head(events) = events[1] /\ Head(events) \in Notes /\ 1 \in 1 .. Len(events)
        /\ Len(Tail(events)) = Len(events) - 1 /\ Len(events) \in Nat
        /\ \A i \in 1 .. Len(events) - 1 : Tail(events)[i] = events[i + 1]
    BY <2>1, HeadTailProperties, ElementOfSeq, EmptySeq
  <2>3. conn.read = stream[c].read /\ conn.events = Tail(events)  BY DEF Stream
  <2> HIDE DEF conn, events
  <2>4. \A d \in Streams : stream'[d] = IF d = c THEN conn ELSE stream[d]  BY <1>3, <1>t
  <2>5. \A i \in 1 .. Len(Tail(events)) : i + 1 \in 1 .. Len(events) /\ Tail(events)[i] = events[i + 1]
    BY <2>2
  <2>6. \A d \in Streams : \A i \in 1 .. Len(stream'[d].events) :
          \E j \in 1 .. Len(stream[d].events) : stream'[d].events[i] = stream[d].events[j]
    BY <2>3, <2>4, <2>5 DEF events
  <2>7. CASE UNCHANGED <<history, due, toasted>>
    BY <1>1, <2>6, <2>7, ToastsAside
  <2>8. CASE history' = AppendNotification(Head(events)) /\ due' = TRUE /\ toasted' = FALSE
    <3> SUFFICES ASSUME boots = 0 PROVE SeenIsOld' /\ ShownFirst' /\ NewestHasToast'
      BY <1>1 DEF ToastInv
    <3>1. due' = TRUE /\ history' = AppendNotification(events[1])  BY <2>2, <2>8
    <3>2. history'[1] = events[1]  BY <2>2, <3>1, AppendFacts DEF Inv, Counted
    <3>3. SeenIsOld'
      BY <1>1, <2>6, SeenAside DEF ToastInv
    <3>4. Newest' \notin seen
      <4>1. \A x \in seen : x # events[1].id
        BY <2>2 DEF ToastInv, SeenIsOld, events
      <4>2. Newest' = events[1].id  BY <3>2 DEF Newest
      <4> QED  BY <4>1, <4>2
    <3> QED  BY <1>1, <3>1, <3>3, <3>4 DEF ShownFirst, NewestHasToast
  <2> QED  BY <1>3, <2>7, <2>8
<1> QED  BY <1>2, <1>3 DEF Writes

LEMMA ToastKeepsToasts == ASSUME Inv, ToastInv, Toast PROVE ToastInv'
<1>1. /\ UNCHANGED <<sequence, boots, stream, history, game>>
      /\ seen' = IF Pending /\ ~game THEN seen \cup {Newest} ELSE seen
      /\ toasted' = (toasted \/ (Pending /\ ~game))
  BY DEF Toast, bridge
<1> SUFFICES ASSUME boots = 0 PROVE SeenIsOld' /\ ShownFirst' /\ NewestHasToast'
  BY <1>1 DEF ToastInv
<1>2. ASSUME history # <<>>
      PROVE  /\ Newest \in Nat /\ Newest <= sequence
             /\ \A c \in Streams : \A i \in 1 .. Len(stream[c].events) :
                  Newest # stream[c].events[i].id
  <2>1. history \in Seq(Notes) /\ 1 \in 1 .. Len(history) /\ history[1] \in Notes
    BY <1>2, ElementOfSeq, EmptySeq, LenProperties DEF Inv, Counted, Typed
  <2>2. history[1].boot = boots  BY <2>1 DEF Inv, Counted, Received, Notes
  <2>3. history[1].id \in Nat /\ history[1].id <= sequence  BY <2>1, <2>2 DEF Inv, Counted, Received, Notes
  <2>4. \A c \in Streams : \A i \in 1 .. Len(stream[c].events) :
          history[1].id # stream[c].events[i].id
    BY <2>1, <2>2 DEF Inv, Counted, Untold
  <2> QED  BY <2>3, <2>4 DEF Newest
<1>3. SeenIsOld'
  BY <1>1, <1>2 DEF ToastInv, SeenIsOld, Pending
<1>4. ShownFirst' /\ NewestHasToast'
  BY <1>1 DEF ToastInv, ShownFirst, NewestHasToast, Pending, Newest
<1> QED  BY <1>3, <1>4

(* NotificationCenter and appendNotification: a notification that comes during a game is not     *)
(* swallowed.  Once the effect has run after the game, the newest one has had its toast, for any *)
(* number of streams and changes - until the backend is restarted and counts from one again.     *)
THEOREM ToastComes == Spec => []NewestHasToast
<1>1. Init => ToastInv
  BY DEF Init, ToastInv, SeenIsOld, ShownFirst, NewestHasToast
<1>2. ASSUME Inv, Inv', ToastInv, [Next]_vars PROVE ToastInv'
  <2>1. CASE StatusChanges \/ UNCHANGED vars
    <3>1. UNCHANGED <<sequence, boots, stream, history, game, due, seen, toasted>>
      BY <2>1 DEF StatusChanges, vars, bridge, center
    <3>2. \A c \in Streams : \A i \in 1 .. Len(stream[c].events) :
            \E j \in 1 .. Len(stream[c].events) : stream[c].events[i] = stream[c].events[j]
      OBVIOUS
    <3>3. \A c \in Streams : stream'[c] = stream[c]  BY <3>1
    <3> QED  BY <1>2, <3>1, <3>2, <3>3, ToastsAside
  <2>2. CASE Restarts
    <3>1. boots \in Nat /\ boots' = boots + 1  BY <1>2, <2>2 DEF Inv, Counted, Typed, Restarts
    <3> QED  BY <3>1 DEF ToastInv
  <2> QED
    BY <1>2, <2>1, <2>2, StreamKeepsToasts, TellsKeepsToasts, WritesKeepsToasts, ToastKeepsToasts
    DEF Next, Thread
<1>3. [](Inv /\ ToastInv) => []NewestHasToast
  <2>1. Inv /\ ToastInv => NewestHasToast  BY DEF ToastInv, NewestHasToast
  <2> QED  BY <2>1, PTL
<1> QED  BY Invariance, <1>1, <1>2, <1>3, PTL DEF Spec
=============================================================================
