---------------------------- MODULE Notifications ----------------------------
(***************************************************************************)
(* The notifications of the dashboard.  In the backend every live stream   *)
(* has a thread that reads the status, writes it to its client, compares   *)
(* it with the status the bridge remembers, which is one for all streams,  *)
(* and writes the differences.  The page keeps a history of what arrives   *)
(* and shows the newest entry as a toast, but not during a game.           *)
(*                                                                         *)
(* Several streams can be open, and even read, at a time (LiveStream).     *)
(* What is written to one that nobody reads any more is lost, and so is    *)
(* what comes while the page has no listener, or while the chunks of two   *)
(* responses mix in liveStreamBuffer.                                      *)
(*                                                                         *)
(* Of the status, "running" and "game" are followed; the power plan goes   *)
(* like them, and the counts that are told when they grow are left out, as *)
(* is the switch for toasts, which stops them the way a game does.         *)
(***************************************************************************)
EXTENDS Naturals, Sequences, FiniteSets

CONSTANTS
  Streams,      \* live streams at a time
  MaxHistory,   \* MAX_NOTIFICATION_HISTORY
  MaxChanges,   \* bound: changes of the status
  MaxBoots      \* bound: restarts of the backend

ASSUME NotificationsAssumption ==
  MaxHistory \in Nat \ {0} /\ MaxChanges \in Nat /\ MaxBoots \in Nat

Aspects == {"running", "game"}
\* What holds; there is no game mode without the engine.
Statuses == {{}, {"running"}, Aspects}
Stopped == {}
Nothing == {"nothing"}

VARIABLES
  status,     \* what the engine reports
  previous,   \* _notification_state, or Nothing
  sequence,   \* _notification_sequence
  stream,     \* per stream: where its thread is, its snapshot, the events it has yet to write
  beside,     \* history: two streams have been read at a time
  boots,      \* restarts of the backend so far
  changes,
  history,    \* notifications, the newest first
  game,       \* game_mode of the last snapshot that arrived
  due,        \* the effect that shows toasts is to run
  seen,       \* seenToastIds
  toasted     \* history: the newest notification has had a toast

bridge == <<status, previous, sequence, boots, changes>>
center == <<history, game, due, seen, toasted>>
vars == <<bridge, stream, beside, center>>

Stream(at, read, snapshot, events) ==
  [at |-> at, read |-> read, snapshot |-> snapshot, events |-> events]
Closed == Stream("closed", FALSE, Stopped, <<>>)

Init ==
  /\ status = Stopped /\ previous = Nothing /\ sequence = 0
  /\ boots = 0 /\ changes = 0 /\ stream = [c \in Streams |-> Closed]
  /\ beside = FALSE /\ history = <<>> /\ game = FALSE /\ due = FALSE
  /\ seen = {} /\ toasted = FALSE

-----------------------------------------------------------------------------
(* The backend *)

StatusChanges ==
  /\ changes < MaxChanges /\ changes' = changes + 1
  /\ status' \in Statuses \ {status}
  /\ UNCHANGED <<previous, sequence, boots, stream, beside, center>>

\* The thread of a stream: live_snapshot
Polls(c) ==
  /\ stream[c].at = "polling"
  /\ stream' = [stream EXCEPT ![c] = Stream("telling", @.read, status, <<>>)]
  /\ UNCHANGED <<bridge, beside, center>>

\* _build_notification_events: one event for each difference
Events(old, new) ==
  [i \in 1 .. Cardinality((old \ new) \cup (new \ old)) |-> [id |-> sequence + i, boot |-> boots]]

(* Mutant: a comparison counts once, whatever it finds. *)
NumbersOnce(events) == IF events = <<>> THEN sequence ELSE sequence + 1

\* _notification_sequence counts the events.
Numbers(events) == sequence + Len(events)

(* Mutant: the first status is not kept. *)
RememberLater(new) == previous' = IF previous = Nothing THEN previous ELSE new

\* notifications_for_snapshot keeps the status, the first one without an event.
Remember(new) == previous' = new

\* A write reaches the page, or is lost, or fails when nobody reads.
Fails(c) == ~stream[c].read /\ stream' = [stream EXCEPT ![c] = Closed]

\* The snapshot is written; its comparison with the status remembered gives the events.
Tells(c) ==
  LET new == stream[c].snapshot IN
  /\ stream[c].at = "telling"
  /\ \/ /\ Remember(new)
        /\ LET events == IF previous = Nothing THEN <<>> ELSE Events(previous, new)
           IN /\ sequence' = Numbers(events)
              /\ stream' = [stream EXCEPT ![c] = Stream("writing", @.read, Stopped, events)]
        /\ \/ /\ stream[c].read
              /\ game' = ("game" \in new) /\ due' = (due \/ game' # game)
           \/ UNCHANGED <<game, due>>
     \/ Fails(c) /\ UNCHANGED <<previous, sequence, game, due>>
  /\ UNCHANGED <<status, boots, changes, beside, history, seen, toasted>>

(* Mutant: the newest goes last. *)
AppendLast(new) ==
  SubSeq(history \o <<new>>, 1, IF Len(history) < MaxHistory THEN Len(history) + 1 ELSE MaxHistory)

\* appendNotification: the newest first, up to MaxHistory
AppendNotification(new) ==
  SubSeq(<<new>> \o history, 1, IF Len(history) < MaxHistory THEN Len(history) + 1 ELSE MaxHistory)

\* One notification is written.
Writes(c) ==
  /\ stream[c].at = "writing" /\ stream[c].events # <<>>
  /\ \/ /\ stream' = [stream EXCEPT ![c] = Stream("writing", @.read, Stopped, Tail(@.events))]
        /\ \/ /\ stream[c].read
              /\ history' = AppendNotification(Head(stream[c].events))
              /\ due' = TRUE /\ toasted' = FALSE
           \/ UNCHANGED <<history, due, toasted>>
     \/ Fails(c) /\ UNCHANGED <<history, due, toasted>>
  /\ UNCHANGED <<bridge, beside, game, seen>>

\* The wait between two snapshots; a thread that would write to nobody has found out by the next.
Waits(c) ==
  /\ stream[c].at = "writing" /\ stream[c].events = <<>>
  /\ stream' = [stream EXCEPT ![c] = Stream("polling", @.read, Stopped, <<>>)]
  /\ UNCHANGED <<bridge, beside, center>>

\* openLiveStream: the backend's thread for the request before may still be at work, and when that
\* request has only lost its place in liveStreamRequest, it is still read.
Opens(c) ==
  /\ stream[c].at = "closed"
  /\ stream' = [stream EXCEPT ![c] = Stream("polling", TRUE, Stopped, <<>>)]
  /\ beside' = (beside \/ \E d \in Streams : stream[d].read)
  /\ UNCHANGED <<bridge, center>>

\* stopLiveStream, or the connection is lost.
Abandons(c) ==
  /\ stream[c].read /\ stream' = [stream EXCEPT ![c] = Stream(@.at, FALSE, @.snapshot, @.events)]
  /\ UNCHANGED <<bridge, beside, center>>

\* The engine raises in the stream's thread, which ends it.
Raises(c) ==
  /\ stream[c].at = "polling" /\ stream' = [stream EXCEPT ![c] = Closed]
  /\ UNCHANGED <<bridge, beside, center>>

\* The supervisor launches another backend; the page stays.
Restarts ==
  /\ boots < MaxBoots /\ boots' = boots + 1
  /\ status' = Stopped /\ previous' = Nothing /\ sequence' = 0 /\ UNCHANGED changes
  /\ stream' = [c \in Streams |-> Closed]
  /\ UNCHANGED <<beside, center>>

-----------------------------------------------------------------------------
(* The page *)

Newest == history[1].id
Pending == history # <<>> /\ Newest \notin seen

(* Mutant: a notification that comes during a game counts as seen. *)
ToastInGame ==
  /\ due /\ due' = FALSE
  /\ seen' = IF Pending THEN seen \cup {Newest} ELSE seen
  /\ toasted' = (toasted \/ (Pending /\ ~game))
  /\ UNCHANGED <<bridge, stream, beside, history, game>>

\* The effect of NotificationCenter on what has changed since it last ran: one toast at most, for
\* the newest notification.
Toast ==
  /\ due /\ due' = FALSE
  /\ seen' = IF Pending /\ ~game THEN seen \cup {Newest} ELSE seen
  /\ toasted' = (toasted \/ (Pending /\ ~game))
  /\ UNCHANGED <<bridge, stream, beside, history, game>>

-----------------------------------------------------------------------------
Thread(c) == Polls(c) \/ Tells(c) \/ Writes(c) \/ Waits(c)

Next ==
  \/ StatusChanges \/ Restarts
  \/ \E c \in Streams : Thread(c) \/ Opens(c) \/ Abandons(c) \/ Raises(c)
  \/ Toast

(* The threads of the streams go on. *)
Fairness == \A c \in Streams : WF_vars(Thread(c))

Spec == Init /\ [][Next]_vars
FairSpec == Spec /\ Fairness

-----------------------------------------------------------------------------
(* Properties *)

TypeOK ==
  /\ status \in Statuses /\ previous \in Statuses \cup {Nothing}
  /\ sequence \in Nat /\ boots \in 0 .. MaxBoots /\ changes \in 0 .. MaxChanges
  /\ \A c \in Streams : /\ stream[c].at \in {"closed", "polling", "telling", "writing"}
                        /\ stream[c].read \in BOOLEAN /\ stream[c].snapshot \in Statuses
  /\ Len(history) <= MaxHistory /\ toasted \in BOOLEAN
  /\ game \in BOOLEAN /\ due \in BOOLEAN /\ beside \in BOOLEAN

Together(i, j) == history[i].boot = history[j].boot

\* No two entries of the page's history have one id, which the page takes for the entry itself: in
\* its list of what was seen, and as the key of what it shows.  The threads of several streams take
\* turns at numbering, and the page may hear two of them (notifications_for_snapshot).
ToldOnce ==
  \A i, j \in DOMAIN history : i # j /\ Together(i, j) => history[i].id # history[j].id

\* The page's history is in the order in which the bridge found the changes, newest first, although
\* the threads of several streams take turns at finding them (notifications_for_snapshot,
\* appendNotification) - as long as the page has never heard two streams at a time: their threads
\* write as they please.
HistoryInOrder ==
  ~beside => \A i, j \in DOMAIN history : i < j /\ Together(i, j) => history[i].id > history[j].id

\* An old snapshot that was compared late does not stay: once the engine stands still, a stream
\* that stays open brings the memory of the bridge, and with it the events, to what the engine
\* reports.
MemoryCatchesUp ==
  \A c \in Streams : <>[](stream[c].at # "closed") => <>[](previous = status)

\* A notification that comes during a game is not swallowed:
\* when the effect has run after that, the newest one has had its toast (NotificationCenter).
\* For as long as the backend has not been restarted.
NewestHasToast ==
  boots = 0 /\ ~due /\ ~game /\ history # <<>> => toasted

\* Settings.jsx:413, of the toasts: "Important session changes appear in the corner of the app."
ChangesAppear == ~due /\ ~game /\ history # <<>> => toasted
=============================================================================
