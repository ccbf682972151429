--------------------------------- MODULE Feed ---------------------------------
(***************************************************************************)
(* The notifications of one identity: the table (internal/store/             *)
(* notifications.go), the hub of an API process with a channel per stream    *)
(* (internal/notify/notify.go), the stream and its tickets                   *)
(* (internal/api/server.go, notifications.go), and the browser tabs that     *)
(* show the feed (web/src/notifications.tsx).  A tab is told of a            *)
(* notification by its stream, and reads list and count by two queries when  *)
(* it is opened or focused; the answers overwrite what it shows.             *)
(***************************************************************************)
EXTENDS Integers, Sequences, FiniteSets

CONSTANTS
  Tab,        \* tabs the identity can be signed in to
  MaxNotes,   \* notifications
  MaxTickets, \* stream tickets
  MaxFetches, \* refreshes
  MaxMarks,   \* requests to mark as read that are under way at once
  Capacity,   \* of a subscriber's channel
  Limit       \* notifications a list holds

ASSUME FeedAssumption ==
  /\ {MaxNotes, MaxTickets, MaxFetches, MaxMarks} \subseteq Nat
  /\ {Capacity, Limit} \subseteq Nat \ {0}

NoStream == 0
Ticket == 1..MaxTickets
Note == 1..MaxNotes

VARIABLES
  table,      \* per notification, in the order of created_at: whether it was read
  notifying,  \* those inserted and not broadcast yet
  stream,     \* per ticket: its state, and the stream it was used for
  tab,        \* what a tab shows
  fetch,      \* per refresh: how far it is and what it has read
  marks       \* requests to mark as read that are under way

vars == <<table, notifying, stream, tab, fetch, marks>>

(* A line of the list. *)
Item == [note: Note, read: BOOLEAN]

(* "ticket": it would be taken; one that has expired is as good as removed.    *)
(* "taken" counts the connections it admitted; "ended": the client is gone.    *)
Stream == [ticket: BOOLEAN, tab: Tab, taken: Nat,
           subscribed: BOOLEAN, ended: BOOLEAN, events: Seq(Note)]

(* "exact": nothing that is known to make the feed wrong has happened since a  *)
(* refresh that was undisturbed.                                               *)
Screen == [session: BOOLEAN, stream: Ticket \cup {NoStream}, items: Seq(Item),
           count: Nat, exact: BOOLEAN]
Done == [step |-> "done"]
Request == [step: {"list", "count", "answer"}, tab: Tab, items: Seq(Item), count: Nat,
            clean: BOOLEAN]
Mark == [tab: Tab, note: Note \cup {0}, upto: 0..MaxNotes]

TypeOK ==
  /\ Len(table) <= MaxNotes /\ \A n \in DOMAIN table : table[n] \in BOOLEAN
  /\ notifying \subseteq DOMAIN table
  /\ Len(stream) <= MaxTickets
  /\ \A k \in DOMAIN stream :
       stream[k] \in Stream /\ Len(stream[k].events) <= Capacity
  /\ tab \in [Tab -> Screen]
  /\ \A t \in Tab : Len(tab[t].items) <= Limit /\ tab[t].stream \in DOMAIN stream \cup {NoStream}
  /\ Len(fetch) <= MaxFetches /\ \A q \in DOMAIN fetch : fetch[q] \in Request \cup {Done}
  /\ marks \subseteq Mark /\ Cardinality(marks) <= MaxMarks

Blank == [session |-> FALSE, stream |-> NoStream, items |-> <<>>, count |-> 0, exact |-> FALSE]

Init ==
  /\ table = <<>>
  /\ notifying = {}
  /\ stream = <<>>
  /\ tab = [t \in Tab |-> Blank]
  /\ fetch = <<>>
  /\ marks = {}

----------------------------------------------------------------------------
Unread == {n \in DOMAIN table : ~table[n]}
FirstFew(s) == SubSeq(s, 1, IF Len(s) < Limit THEN Len(s) ELSE Limit)

(* ListNotifications: the newest first. *)
Listed == FirstFew([i \in 1..Len(table) |->
            LET n == Len(table) + 1 - i IN [note |-> n, read |-> table[n]]])

Listening(t) == tab[t].stream # NoStream /\ stream[tab[t].stream].subscribed
Told(t) == tab[t].stream = NoStream \/ stream[tab[t].stream].events = <<>>

(* What refreshes of these tabs have read is out of date. *)
Disturbed(tabs) ==
  [q \in DOMAIN fetch |-> IF fetch[q] # Done /\ fetch[q].tab \in tabs
                          THEN [fetch[q] EXCEPT !.clean = FALSE] ELSE fetch[q]]
Inexact(tabs) == [t \in Tab |-> [tab[t] EXCEPT !.exact = @ /\ t \notin tabs]]

----------------------------------------------------------------------------
(* Notify *)

(* A process that has no stream of this identity — the statement job, another   *)
(* API process — has nobody to tell.                                            *)
InsertNotification(here) ==
  LET n == Len(table) + 1 IN
  /\ n <= MaxNotes
  /\ table' = Append(table, FALSE)
  /\ notifying' = IF here THEN notifying \cup {n} ELSE notifying
  /\ tab' = IF here THEN tab ELSE Inexact(Tab)
  /\ fetch' = Disturbed(Tab)
  /\ UNCHANGED <<stream, marks>>

HasRoom(k) == Len(stream[k].events) < Capacity

(* Mutant: a subscriber with a full channel makes broadcast give up. *)
BroadcastUntilFull(n) ==
  /\ n \in notifying
  /\ notifying' = notifying \ {n}
  /\ stream' = [k \in DOMAIN stream |->
       IF stream[k].subscribed /\ \A l \in 1..k : stream[l].subscribed => HasRoom(l)
       THEN [stream[k] EXCEPT !.events = Append(@, n)] ELSE stream[k]]
  /\ tab' = Inexact({t \in Tab : ~Listening(t) \/ ~HasRoom(tab[t].stream)
                                 \/ \E m \in notifying : m < n})
  /\ UNCHANGED <<table, fetch, marks>>

(* Under the hub's lock; a full channel is passed over.                         *)
Broadcast(n) ==
  /\ n \in notifying
  /\ notifying' = notifying \ {n}
  /\ stream' = [k \in DOMAIN stream |->
       IF stream[k].subscribed /\ HasRoom(k)
       THEN [stream[k] EXCEPT !.events = Append(@, n)] ELSE stream[k]]
  /\ tab' = Inexact({t \in Tab : ~Listening(t) \/ ~HasRoom(tab[t].stream)
                                 \/ \E m \in notifying : m < n})
  /\ UNCHANGED <<table, fetch, marks>>

----------------------------------------------------------------------------
(* Streams *)

(* connect: a ticket is minted and the GET goes out. *)
Connect(t) ==
  LET k == Len(stream) + 1 IN
  /\ k \in Ticket
  /\ tab[t].session /\ tab[t].stream = NoStream
  /\ stream' = Append(stream, [ticket |-> TRUE, tab |-> t, taken |-> 0,
                              subscribed |-> FALSE, ended |-> FALSE, events |-> <<>>])
  /\ tab' = [tab EXCEPT ![t].stream = k]
  /\ UNCHANGED <<table, notifying, fetch, marks>>

TicketExpires(k) ==
  /\ stream[k].ticket
  /\ stream' = [stream EXCEPT ![k].ticket = FALSE]
  /\ UNCHANGED <<table, notifying, tab, fetch, marks>>

Closed(k) == [t \in Tab |-> IF tab[t].stream = k THEN [tab[t] EXCEPT !.stream = NoStream] ELSE tab[t]]

(* Mutant: a ticket is not removed when it is taken. *)
TakeAndKeep(k) ==
  LET s == stream[k] IN
  /\ IF s.ticket
     THEN /\ stream' = [stream EXCEPT ![k].taken = @ + 1, ![k].subscribed = TRUE,
                                      ![k].ended = (tab[s.tab].stream # k)]
          /\ UNCHANGED tab
     ELSE /\ stream' = [stream EXCEPT ![k].ticket = FALSE]
          /\ tab' = IF s.taken > 0 THEN tab ELSE Closed(k)
  /\ UNCHANGED <<table, notifying, fetch, marks>>

(* takeStreamTicket and Subscribe.  The GET may arrive late, when its client is  *)
(* gone, more than once, or never; the tab closes a stream that was refused.     *)
TakeStreamTicket(k) ==
  LET s == stream[k] IN
  /\ IF s.ticket
     THEN /\ stream' = [stream EXCEPT ![k].ticket = FALSE, ![k].taken = @ + 1,
                                      ![k].subscribed = TRUE, ![k].ended = (tab[s.tab].stream # k)]
          /\ UNCHANGED tab
     ELSE /\ stream' = [stream EXCEPT ![k].ticket = FALSE]
          /\ tab' = IF s.taken > 0 THEN tab ELSE Closed(k)
  /\ UNCHANGED <<table, notifying, fetch, marks>>

(* The loop of handleNotificationStream writes an event and the tab adds it. *)
Push(k) ==
  LET n == Head(stream[k].events)
      shown == {t \in Tab : tab[t].stream = k}
  IN
  /\ stream[k].subscribed /\ stream[k].events # <<>>
  /\ stream' = [stream EXCEPT ![k].events = Tail(@)]
  /\ tab' = [t \in Tab |->
       IF t \in shown
       THEN [tab[t] EXCEPT !.items = FirstFew(<<[note |-> n, read |-> FALSE]>> \o @),
                           !.count = @ + 1]
       ELSE tab[t]]
  /\ UNCHANGED <<table, notifying, fetch, marks>>

(* The client is gone: a tab that closed the stream, or lost the connection.   *)
Ended(k) == [stream EXCEPT ![k].ended = TRUE]

(* onerror; what was on its way is lost. *)
Disconnect(k) ==
  /\ \E t \in Tab : tab[t].stream = k
  /\ stream' = Ended(k)
  /\ tab' = [t \in Tab |-> [Closed(k)[t] EXCEPT !.exact = @ /\ Told(t)]]
  /\ UNCHANGED <<table, notifying, fetch, marks>>

(* Mutant: the loop only notices that the client is gone when it writes. *)
UnsubscribeOnWrite(k) ==
  /\ stream[k].subscribed /\ stream[k].ended /\ stream[k].events # <<>>
  /\ stream' = [stream EXCEPT ![k].subscribed = FALSE, ![k].events = <<>>]
  /\ UNCHANGED <<table, notifying, tab, fetch, marks>>

(* The request's context is done. *)
Unsubscribe(k) ==
  /\ stream[k].subscribed /\ stream[k].ended
  /\ stream' = [stream EXCEPT ![k].subscribed = FALSE, ![k].events = <<>>]
  /\ UNCHANGED <<table, notifying, tab, fetch, marks>>

----------------------------------------------------------------------------
(* Tabs *)

Refresh(t) ==
  /\ Len(fetch) < MaxFetches
  /\ fetch' = Append(fetch, [step |-> "list", tab |-> t, items |-> <<>>, count |-> 0,
                            clean |-> FALSE])

(* The effect of a new session asks for the list, if the request is not lost;   *)
(* Connect is its other half.                                                   *)
SignIn(t) ==
  /\ ~tab[t].session
  /\ tab' = [tab EXCEPT ![t].session = TRUE]
  /\ Refresh(t) \/ UNCHANGED fetch
  /\ UNCHANGED <<table, notifying, stream, marks>>

(* The stream is closed and the feed cleared; refreshes under way are not told. *)
SignOut(t) ==
  LET k == tab[t].stream IN
  /\ tab[t].session
  /\ tab' = [tab EXCEPT ![t] = Blank]
  /\ stream' = IF k = NoStream THEN stream ELSE Ended(k)
  /\ fetch' = Disturbed({t})
  /\ UNCHANGED <<table, notifying, marks>>

Focus(t) ==
  /\ tab[t].session
  /\ Refresh(t)
  /\ UNCHANGED <<table, notifying, stream, tab, marks>>

(* handleListNotifications reads the list, then the count.                      *)
ReadList(q) ==
  /\ fetch[q].step = "list"
  /\ fetch' = [fetch EXCEPT ![q].step = "count", ![q].items = Listed,
                 ![q].clean = (notifying = {} /\ marks = {} /\ Told(fetch[q].tab))]
  /\ UNCHANGED <<table, notifying, stream, tab, marks>>

ReadCount(q) ==
  /\ fetch[q].step = "count"
  /\ fetch' = [fetch EXCEPT ![q].step = "answer", ![q].count = Cardinality(Unread)]
  /\ UNCHANGED <<table, notifying, stream, tab, marks>>

(* Whatever the tab showed is overwritten, in whichever order answers come.     *)
Answer(q) ==
  LET a == fetch[q] IN
  /\ a.step = "answer"
  /\ tab' = [tab EXCEPT ![a.tab].items = a.items, ![a.tab].count = a.count,
                        ![a.tab].exact = a.clean]
  /\ fetch' = [fetch EXCEPT ![q] = Done]
  /\ UNCHANGED <<table, notifying, stream, marks>>

----------------------------------------------------------------------------
(* Marking as read: shown at once, then asked for *)

Read(items, notes) ==
  [i \in DOMAIN items |-> [items[i] EXCEPT !.read = @ \/ items[i].note \in notes]]

(* Mutant: the count is not kept from going below zero. *)
MarkReadBelowZero(t, i) ==
  LET n == tab[t].items[i].note IN
  /\ tab[t].session
  /\ ~tab[t].items[i].read
  /\ tab' = [tab EXCEPT ![t].items = Read(@, {n}), ![t].count = @ - 1]
  /\ Cardinality(marks) < MaxMarks
  /\ marks' = marks \cup {[tab |-> t, note |-> n, upto |-> 0]}
  /\ fetch' = Disturbed({t})
  /\ UNCHANGED <<table, notifying, stream>>

(* NotificationBell asks for a line that is not read yet; the count may be      *)
(* older than the line.                                                         *)
MarkRead(t, i) ==
  LET n == tab[t].items[i].note IN
  /\ tab[t].session
  /\ ~tab[t].items[i].read
  /\ tab' = [tab EXCEPT ![t].items = Read(@, {n}), ![t].count = IF @ = 0 THEN 0 ELSE @ - 1]
  /\ Cardinality(marks) < MaxMarks
  /\ marks' = marks \cup {[tab |-> t, note |-> n, upto |-> 0]}
  /\ fetch' = Disturbed({t})
  /\ UNCHANGED <<table, notifying, stream>>

MarkAllRead(t) ==
  /\ tab[t].session
  /\ tab[t].count > 0
  /\ tab' = [tab EXCEPT ![t].items = Read(@, Note), ![t].count = 0]
  /\ Cardinality(marks) < MaxMarks
  /\ marks' = marks \cup {[tab |-> t, note |-> 0,
                           upto |-> IF notifying = {} /\ Told(t) THEN Len(table) ELSE 0]}
  /\ fetch' = Disturbed({t})
  /\ UNCHANGED <<table, notifying, stream>>

(* Other tabs are not told; "all" takes in what the tab has not shown yet.      *)
ApplyMark(m) ==
  /\ m \in marks
  /\ marks' = marks \ {m}
  /\ table' = [n \in DOMAIN table |-> table[n] \/ m.note \in {0, n}]
  /\ tab' = Inexact(IF m.note = 0 /\ m.upto # Len(table) THEN Tab ELSE Tab \ {m.tab})
  /\ fetch' = Disturbed(Tab)
  /\ UNCHANGED <<notifying, stream>>

(* The same for a request of another device. *)
MarkElsewhere(n) ==
  /\ ~table[n]
  /\ table' = [table EXCEPT ![n] = TRUE]
  /\ tab' = Inexact(Tab)
  /\ fetch' = Disturbed(Tab)
  /\ UNCHANGED <<notifying, stream, marks>>

----------------------------------------------------------------------------
Next ==
  \/ \E here \in BOOLEAN : InsertNotification(here)
  \/ \E n \in notifying : Broadcast(n)
  \/ \E t \in Tab : Connect(t) \/ SignIn(t) \/ SignOut(t) \/ Focus(t) \/ MarkAllRead(t)
  \/ \E t \in Tab : \E i \in DOMAIN tab[t].items : MarkRead(t, i)
  \/ \E k \in DOMAIN stream :
       TicketExpires(k) \/ TakeStreamTicket(k) \/ Push(k) \/ Disconnect(k)
         \/ Unsubscribe(k)
  \/ \E q \in DOMAIN fetch : ReadList(q) \/ ReadCount(q) \/ Answer(q)
  \/ \E m \in marks : ApplyMark(m)
  \/ \E n \in DOMAIN table : MarkElsewhere(n)

(* A Notify under way and the loop of an open stream run on; nobody has to sign *)
(* in, connect, focus or read.                                                  *)
Fairness ==
  /\ \A n \in Note : WF_vars(Broadcast(n))
  /\ \A k \in Ticket : WF_vars(k \in DOMAIN stream /\ Push(k))
                     /\ WF_vars(k \in DOMAIN stream /\ Unsubscribe(k))

Spec == Init /\ [][Next]_vars /\ Fairness

----------------------------------------------------------------------------
(* A ticket admits one connection (server.go:57, "each one connects at most    *)
(* once"), whatever is repeated, expires or is swept; and a channel in the hub *)
(* whose client is not known to be gone is that of the one stream its tab      *)
(* holds open, so that no tab is told of a notification twice and none is left *)
(* in the hub by a tab that signs out while its GET is on the way.             *)
ChannelsAreHeld ==
  \A k \in DOMAIN stream : LET s == stream[k] IN
    /\ s.taken <= 1
    /\ s.subscribed => s.taken = 1
    /\ s.subscribed /\ ~s.ended => tab[s.tab].stream = k /\ tab[s.tab].session

(* Once nothing is on its way, what a tab shows is the newest of the table and  *)
(* its count all that is unread — though list and count are read by two         *)
(* queries, events are added to whatever is shown, and answers overwrite it —   *)
(* unless since the last refresh one of these has happened: the stream was not  *)
(* there or was full, two inserts were told out of order, another process, tab  *)
(* or lost request was involved, or a refresh overlapped with any change.       *)
FeedMatchesTable ==
  notifying = {} /\ marks = {} =>
    \A t \in Tab : tab[t].session /\ tab[t].exact /\ Told(t) =>
      tab[t].items = Listed /\ tab[t].count = Cardinality(Unread)

InHub(k) == k \in DOMAIN stream /\ stream[k].subscribed
Owed(k) == InHub(k) /\ (stream[k].ended \/ stream[k].events # <<>>)

(* The hub settles: what is in a channel is written to its client, or the       *)
(* channel is given up — also when its client is gone and no event may ever     *)
(* come again to make a write fail.                                             *)
HubSettles == \A k \in Ticket : Owed(k) ~> ~Owed(k)
===============================================================================
