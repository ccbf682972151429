------------------------------ MODULE FeedProofs ------------------------------
(***************************************************************************)
(* Types, the channels of the hub, and what a tab shows, for any number of  *)
(* tabs, tickets, notifications, refreshes and marks, and channels and      *)
(* lists of any length.                                                     *)
(***************************************************************************)
EXTENDS Feed, SequenceTheorems, FiniteSetTheorems, TLAPS

(* TypeOK looks at what is in the sequences; these are sequences.            *)
TableTyped ==
  /\ table \in Seq(BOOLEAN) /\ Len(table) <= MaxNotes
  /\ notifying \subseteq DOMAIN table
StreamTyped ==
  /\ stream \in Seq(Stream) /\ Len(stream) <= MaxTickets
  /\ \A k \in DOMAIN stream : Len(stream[k].events) <= Capacity
TabTyped ==
  /\ tab \in [Tab -> Screen]
  /\ \A t \in Tab : Len(tab[t].items) <= Limit /\ tab[t].stream \in DOMAIN stream \cup {NoStream}
FetchTyped ==
  /\ fetch \in Seq(Request \cup {Done}) /\ Len(fetch) <= MaxFetches
  /\ \A q \in DOMAIN fetch : fetch[q] # Done => Len(fetch[q].items) <= Limit
MarksTyped == marks \subseteq Mark /\ IsFiniteSet(marks) /\ Cardinality(marks) <= MaxMarks

Typed == TableTyped /\ StreamTyped /\ TabTyped /\ FetchTyped /\ MarksTyped

(* A ticket that would be taken was not taken; a tab holds a stream of its     *)
(* own, in a session; and what ChannelsAreHeld says.                           *)
TicketsAreFresh == \A k \in DOMAIN stream : stream[k].ticket => stream[k].taken = 0
TabsHoldTheirOwn ==
  \A t \in Tab : tab[t].stream # NoStream =>
    stream[tab[t].stream].tab = t /\ tab[t].session

Hub == TicketsAreFresh /\ TabsHoldTheirOwn /\ ChannelsAreHeld
IInv == Typed /\ Hub

----------------------------------------------------------------------------
(* What the helpers return *)

LEMMA Sequence == ASSUME NEW S, NEW n \in Nat, NEW f \in [1..n -> S]
                  PROVE  f \in Seq(S) /\ Len(f) = n /\ DOMAIN f = 1..n
  OBVIOUS

LEMMA FirstFewTypes ==
  ASSUME NEW s \in Seq(Item)
  PROVE  FirstFew(s) \in Seq(Item) /\ Len(FirstFew(s)) <= Limit
<1>1. CASE Len(s) < Limit
  <2>1. FirstFew(s) = SubSeq(s, 1, Len(s))
    BY <1>1 DEF FirstFew
  <2> QED BY <2>1, <1>1, FeedAssumption
<1>2. CASE ~(Len(s) < Limit)
  <2>1. FirstFew(s) = SubSeq(s, 1, Limit) /\ Limit \in Nat /\ Limit <= Len(s)
    BY <1>2, FeedAssumption DEF FirstFew
  <2> QED BY <2>1
<1> QED BY <1>1, <1>2

LEMMA ListedTypes ==
  ASSUME TableTyped
  PROVE  Listed \in Seq(Item) /\ Len(Listed) <= Limit
<1> DEFINE All == [i \in 1..Len(table) |->
                    LET n == Len(table) + 1 - i IN [note |-> n, read |-> table[n]]]
<1>1. \A i \in 1..Len(table) : All[i] \in Item
  BY FeedAssumption DEF TableTyped, Item, Note
<1>2. All \in [1..Len(table) -> Item] /\ Len(table) \in Nat
  BY <1>1 DEF TableTyped
<1>3. All \in Seq(Item)
  <2> HIDE DEF All
  <2> QED BY <1>2, Sequence
<1> HIDE DEF All
<1>4. Listed = FirstFew(All)
  BY DEF Listed, All
<1> QED BY <1>3, <1>4, FirstFewTypes

LEMMA InexactTypes ==
  ASSUME tab \in [Tab -> Screen], NEW tabs
  PROVE  /\ Inexact(tabs) \in [Tab -> Screen]
         /\ \A t \in Tab : /\ Inexact(tabs)[t].items = tab[t].items
                           /\ Inexact(tabs)[t].stream = tab[t].stream
                           /\ Inexact(tabs)[t].session = tab[t].session
<1>1. \A t \in Tab : [tab[t] EXCEPT !.exact = @ /\ t \notin tabs] \in Screen
  <2> SUFFICES ASSUME NEW t \in Tab PROVE [tab[t] EXCEPT !.exact = @ /\ t \notin tabs] \in Screen
    OBVIOUS
  <2>1. (tab[t].exact /\ t \notin tabs) \in BOOLEAN
    OBVIOUS
  <2> QED BY <2>1 DEF Screen
<1> QED BY <1>1 DEF Inexact, Screen

LEMMA DisturbedTypes ==
  ASSUME fetch \in Seq(Request \cup {Done}), NEW tabs
  PROVE  /\ Disturbed(tabs) \in Seq(Request \cup {Done}) /\ Len(Disturbed(tabs)) = Len(fetch)
         /\ \A q \in DOMAIN fetch : Disturbed(tabs)[q] # Done =>
              fetch[q] # Done /\ Disturbed(tabs)[q].items = fetch[q].items
<1>1. DOMAIN fetch = 1..Len(fetch) /\ Len(fetch) \in Nat
  OBVIOUS
<1>2. ASSUME NEW q \in 1..Len(fetch)
      PROVE  /\ Disturbed(tabs)[q] \in Request \cup {Done}
             /\ Disturbed(tabs)[q] # Done =>
                  fetch[q] # Done /\ Disturbed(tabs)[q].items = fetch[q].items
  <2>1. fetch[q] \in Request \cup {Done}
    OBVIOUS
  <2>2. fetch[q] # Done => /\ [fetch[q] EXCEPT !.clean = FALSE] \in Request
                           /\ [fetch[q] EXCEPT !.clean = FALSE].items = fetch[q].items
    BY <2>1 DEF Request
  <2> QED BY <2>1, <2>2, <1>1 DEF Disturbed
<1>3. Disturbed(tabs) \in [1..Len(fetch) -> Request \cup {Done}]
  BY <1>1, <1>2 DEF Disturbed
<1> QED BY <1>1, <1>2, <1>3, Sequence

LEMMA ClosedTypes ==
  ASSUME tab \in [Tab -> Screen], NEW k
  PROVE  /\ Closed(k) \in [Tab -> Screen]
         /\ \A t \in Tab : /\ Closed(k)[t].items = tab[t].items
                           /\ Closed(k)[t].session = tab[t].session
                           /\ Closed(k)[t].exact = tab[t].exact
                           /\ Closed(k)[t].stream = IF tab[t].stream = k THEN NoStream ELSE tab[t].stream
  BY DEF Closed, Screen

LEMMA ReadTypes ==
  ASSUME NEW items \in Seq(Item), NEW notes
  PROVE  Read(items, notes) \in Seq(Item) /\ Len(Read(items, notes)) = Len(items)
<1>1. DOMAIN items = 1..Len(items) /\ Len(items) \in Nat
  OBVIOUS
<1>2. \A i \in 1..Len(items) : Read(items, notes)[i] \in Item
  <2> SUFFICES ASSUME NEW i \in 1..Len(items) PROVE Read(items, notes)[i] \in Item
    OBVIOUS
  <2>1. items[i] \in Item
    OBVIOUS
  <2>2. (items[i].read \/ items[i].note \in notes) \in BOOLEAN
    OBVIOUS
  <2>3. Read(items, notes)[i] = [items[i] EXCEPT !.read = items[i].read \/ items[i].note \in notes]
    BY <1>1 DEF Read
  <2> QED BY <2>1, <2>2, <2>3 DEF Item
<1>3. Read(items, notes) \in [1..Len(items) -> Item]
  BY <1>1, <1>2 DEF Read
<1> QED BY <1>1, <1>3, Sequence

LEMMA StreamsAreStreams ==
  ASSUME Typed
  PROVE  /\ DOMAIN stream = 1..Len(stream) /\ Len(stream) \in Nat
         /\ \A k \in DOMAIN stream : stream[k] \in Stream /\ stream[k].tab \in Tab /\ k # NoStream
<1>1. stream \in Seq(Stream)
  BY DEF Typed, StreamTyped
<1>2. DOMAIN stream = 1..Len(stream) /\ Len(stream) \in Nat
  BY <1>1
<1>3. \A k \in DOMAIN stream : stream[k] \in Stream
  BY <1>1, <1>2
<1> QED BY <1>2, <1>3 DEF Stream, NoStream

----------------------------------------------------------------------------
(* The hub under steps that add no stream and subscribe to none: a tab either  *)
(* keeps its stream, or gives it up when its client is known to be gone.       *)
LEMMA HubKept ==
  ASSUME Typed, Hub,
         DOMAIN stream' = DOMAIN stream,
         \A k \in DOMAIN stream :
           /\ stream'[k].tab = stream[k].tab /\ stream'[k].taken = stream[k].taken
           /\ stream'[k].ticket => stream[k].ticket
           /\ stream'[k].subscribed => stream[k].subscribed
           /\ stream[k].ended => stream'[k].ended,
         \A t \in Tab :
           \/ tab'[t].stream = tab[t].stream /\ tab'[t].session = tab[t].session
           \/ /\ tab'[t].stream = NoStream
              /\ tab[t].stream # NoStream =>
                   stream'[tab[t].stream].ended \/ ~stream'[tab[t].stream].subscribed
  PROVE  Hub'
<1>1. TicketsAreFresh'
  BY DEF Hub, TicketsAreFresh
<1>2. TabsHoldTheirOwn'
  BY DEF Typed, TabTyped, Hub, TabsHoldTheirOwn
<1>3. ChannelsAreHeld'
  <2> SUFFICES ASSUME NEW k \in DOMAIN stream
               PROVE  LET s == stream'[k] IN
                      /\ s.taken <= 1
                      /\ s.subscribed => s.taken = 1
                      /\ s.subscribed /\ ~s.ended => tab'[s.tab].stream = k /\ tab'[s.tab].session
    BY DEF ChannelsAreHeld
  <2>1. stream[k].tab \in Tab /\ k # NoStream
    BY StreamsAreStreams
  <2> QED BY <2>1 DEF Hub, ChannelsAreHeld
<1> QED BY <1>1, <1>2, <1>3 DEF Hub

(* A step that leaves the streams alone.                                      *)
LEMMA HubAlone ==
  ASSUME Typed, Hub, UNCHANGED stream,
         \A t \in Tab : tab'[t].stream = tab[t].stream /\ tab'[t].session = tab[t].session
  PROVE  Hub'
  BY HubKept

----------------------------------------------------------------------------
(* Types of what a step changes *)

LEMMA TabInexact ==
  ASSUME TabTyped, NEW tabs, tab' = Inexact(tabs), DOMAIN stream \subseteq DOMAIN stream'
  PROVE  /\ TabTyped'
         /\ \A t \in Tab : tab'[t].stream = tab[t].stream /\ tab'[t].session = tab[t].session
<1>1. tab \in [Tab -> Screen]
  BY DEF TabTyped
<1> QED BY <1>1, InexactTypes DEF TabTyped

LEMMA FetchDisturbed ==
  ASSUME FetchTyped, NEW tabs, fetch' = Disturbed(tabs)
  PROVE  FetchTyped'
<1>1. fetch \in Seq(Request \cup {Done})
  BY DEF FetchTyped
<1>2. DOMAIN fetch' = DOMAIN fetch
  BY DEF Disturbed
<1> QED BY <1>1, <1>2, DisturbedTypes DEF FetchTyped

LEMMA StreamExcept ==
  ASSUME Typed, NEW k \in DOMAIN stream, NEW s \in Stream, Len(s.events) <= Capacity,
         stream' = [stream EXCEPT ![k] = s]
  PROVE  /\ StreamTyped'
         /\ DOMAIN stream' = DOMAIN stream
         /\ stream'[k] = s
         /\ \A l \in DOMAIN stream : l # k => stream'[l] = stream[l]
<1>1. stream \in Seq(Stream) /\ k \in 1..Len(stream)
  BY StreamsAreStreams DEF Typed, StreamTyped
<1>2. stream' \in Seq(Stream) /\ Len(stream') = Len(stream)
  BY <1>1, ExceptSeq
<1>3. DOMAIN stream' = DOMAIN stream /\ stream'[k] = s
  OBVIOUS
<1>4. \A l \in DOMAIN stream : l # k => stream'[l] = stream[l]
  OBVIOUS
<1> QED BY <1>2, <1>3, <1>4 DEF Typed, StreamTyped

LEMMA TabExcept ==
  ASSUME Typed, NEW t \in Tab, NEW s \in Screen, Len(s.items) <= Limit,
         s.stream \in DOMAIN stream \cup {NoStream},
         DOMAIN stream \subseteq DOMAIN stream',
         tab' = [tab EXCEPT ![t] = s]
  PROVE  /\ TabTyped'
         /\ tab'[t] = s /\ \A u \in Tab \ {t} : tab'[u] = tab[u]
  BY DEF Typed, TabTyped

----------------------------------------------------------------------------
(* Notifying *)

LEMMA InsertNotificationStep ==
  ASSUME IInv, NEW here \in BOOLEAN, InsertNotification(here)
  PROVE  IInv'
<1> USE DEF IInv, Typed
<1>1. TableTyped'
  BY DEF InsertNotification, TableTyped
<1>2. StreamTyped'
  BY DEF InsertNotification, StreamTyped
<1>3. TabTyped' /\ \A t \in Tab : tab'[t].stream = tab[t].stream /\ tab'[t].session = tab[t].session
  <2>1. CASE here
    BY <2>1 DEF InsertNotification, TabTyped
  <2>2. CASE ~here
    BY <2>2, TabInexact DEF InsertNotification
  <2> QED BY <2>1, <2>2
<1>4. FetchTyped'
  BY FetchDisturbed DEF InsertNotification
<1>5. MarksTyped'
  BY DEF InsertNotification, MarksTyped
<1>6. Hub'
  BY <1>3, HubAlone DEF InsertNotification
<1> QED BY <1>1, <1>2, <1>3, <1>4, <1>5, <1>6

LEMMA BroadcastStep ==
  ASSUME IInv, NEW n \in notifying, Broadcast(n)
  PROVE  IInv'
<1> USE DEF IInv, Typed
<1>1. TableTyped'
  BY DEF Broadcast, TableTyped
<1>2. StreamTyped' /\ DOMAIN stream' = DOMAIN stream
      /\ \A k \in DOMAIN stream : \E e \in Seq(Note) : stream'[k] = [stream[k] EXCEPT !.events = e]
  <2>1. n \in Note
    BY FeedAssumption DEF TableTyped, Note
  <2>2. \A k \in DOMAIN stream :
          /\ stream'[k] \in Stream /\ Len(stream'[k].events) <= Capacity
          /\ \E e \in Seq(Note) : stream'[k] = [stream[k] EXCEPT !.events = e]
    <3> SUFFICES ASSUME NEW k \in DOMAIN stream
                 PROVE  /\ stream'[k] \in Stream /\ Len(stream'[k].events) <= Capacity
                        /\ \E e \in Seq(Note) : stream'[k] = [stream[k] EXCEPT !.events = e]
      OBVIOUS
    <3>1. stream[k] \in Stream /\ Len(stream[k].events) <= Capacity
      BY StreamsAreStreams DEF StreamTyped
    <3>2. CASE stream[k].subscribed /\ HasRoom(k)
      <4> DEFINE e == Append(stream[k].events, n)
      <4>1. stream'[k] = [stream[k] EXCEPT !.events = e]
        BY <3>2 DEF Broadcast
      <4>2. stream[k].events \in Seq(Note) /\ Len(stream[k].events) < Capacity
        BY <3>1, <3>2 DEF Stream, HasRoom
      <4>3. e \in Seq(Note) /\ Len(e) <= Capacity
        BY <4>2, <2>1, FeedAssumption
      <4> HIDE DEF e
      <4> QED BY <4>1, <4>3, <3>1 DEF Stream
    <3>3. CASE ~(stream[k].subscribed /\ HasRoom(k))
      <4>1. stream'[k] = stream[k]
        BY <3>3 DEF Broadcast
      <4>2. stream[k].events \in Seq(Note) /\ stream[k] = [stream[k] EXCEPT !.events = stream[k].events]
        BY <3>1 DEF Stream
      <4> QED BY <4>1, <4>2, <3>1
    <3> QED BY <3>2, <3>3
  <2>3. DOMAIN stream' = 1..Len(stream) /\ Len(stream) \in Nat
    BY StreamsAreStreams DEF Broadcast
  <2>4. stream' \in [1..Len(stream) -> Stream]
    BY <2>2, <2>3, StreamsAreStreams DEF Broadcast
  <2>5. stream' \in Seq(Stream) /\ Len(stream') = Len(stream)
    BY <2>3, <2>4, Sequence
  <2> QED BY <2>2, <2>3, <2>5, StreamsAreStreams DEF StreamTyped
<1>3. TabTyped' /\ \A t \in Tab : tab'[t].stream = tab[t].stream /\ tab'[t].session = tab[t].session
  BY <1>2, TabInexact DEF Broadcast
<1>4. FetchTyped' /\ MarksTyped'
  BY DEF Broadcast, FetchTyped, MarksTyped
<1>5. \A k \in DOMAIN stream :
        /\ stream'[k].tab = stream[k].tab /\ stream'[k].taken = stream[k].taken
        /\ stream'[k].ticket = stream[k].ticket /\ stream'[k].subscribed = stream[k].subscribed
        /\ stream'[k].ended = stream[k].ended
  BY <1>2, StreamsAreStreams DEF Stream
<1>6. Hub'
  BY <1>2, <1>3, <1>5, HubKept
<1> QED BY <1>1, <1>2, <1>3, <1>4, <1>6

----------------------------------------------------------------------------
(* Streams *)

LEMMA ConnectStep ==
  ASSUME IInv, NEW t \in Tab, Connect(t)
  PROVE  IInv'
<1> USE DEF IInv, Typed
<1> DEFINE k == Len(stream) + 1
           s == [ticket |-> TRUE, tab |-> t, taken |-> 0, subscribed |-> FALSE, ended |-> FALSE,
                 events |-> <<>>]
<1>1. s \in Stream /\ Len(s.events) = 0 /\ s.tab = t /\ s.taken = 0 /\ ~s.subscribed
  BY DEF Stream
<1>2. stream \in Seq(Stream) /\ DOMAIN stream = 1..Len(stream) /\ Len(stream) \in Nat
  BY StreamsAreStreams DEF StreamTyped
<1>3. stream' = Append(stream, s) /\ k \in Ticket
  BY DEF Connect
<1>4. tab' = [tab EXCEPT ![t].stream = k] /\ tab[t].session /\ tab[t].stream = NoStream
      /\ UNCHANGED <<table, notifying, fetch, marks>>
  BY DEF Connect
<1> HIDE DEF s
<1>5. /\ stream' \in Seq(Stream) /\ Len(stream') = k /\ stream'[k] = s
      /\ DOMAIN stream' = DOMAIN stream \cup {k} /\ k \notin DOMAIN stream
      /\ \A l \in DOMAIN stream : stream'[l] = stream[l]
  <2>1. stream' \in Seq(Stream) /\ Len(stream') = k
    BY <1>1, <1>2, <1>3
  <2>2. stream'[k] = s /\ \A l \in 1..Len(stream) : stream'[l] = stream[l]
    BY <1>1, <1>2, <1>3
  <2>3. DOMAIN stream' = 1..k
    BY <2>1
  <2> QED BY <1>2, <2>1, <2>2, <2>3
<1> HIDE DEF k
<1>6. StreamTyped'
  <2>1. Len(stream') <= MaxTickets
    BY <1>3, <1>5, FeedAssumption DEF Ticket
  <2>2. \A l \in DOMAIN stream' : Len(stream'[l].events) <= Capacity
    BY <1>1, <1>5, FeedAssumption DEF StreamTyped
  <2> QED BY <1>5, <2>1, <2>2 DEF StreamTyped
<1>7. TabTyped' /\ tab'[t].stream = k /\ tab'[t].session
      /\ \A u \in Tab \ {t} : tab'[u] = tab[u]
  <2> DEFINE new == [tab[t] EXCEPT !.stream = k]
  <2>1. new \in Screen /\ new.items = tab[t].items /\ new.stream = k /\ new.session
    BY <1>3, <1>4 DEF TabTyped, Screen
  <2>2. tab' = [tab EXCEPT ![t] = new]
    BY <1>4
  <2> HIDE DEF new
  <2> QED BY <1>5, <2>1, <2>2 DEF TabTyped
<1>8. TableTyped' /\ FetchTyped' /\ MarksTyped'
  BY <1>4 DEF TableTyped, FetchTyped, MarksTyped
<1>9. Hub'
  <2>0. k # NoStream
    BY <1>3, FeedAssumption DEF Ticket, NoStream
  <2>1. TicketsAreFresh'
    BY <1>1, <1>5 DEF Hub, TicketsAreFresh
  <2>2. TabsHoldTheirOwn'
    BY <1>1, <1>5, <1>7 DEF Hub, TabsHoldTheirOwn, TabTyped
  <2>3. ChannelsAreHeld'
    <3> SUFFICES ASSUME NEW l \in DOMAIN stream'
                 PROVE  /\ stream'[l].taken <= 1
                        /\ stream'[l].subscribed => stream'[l].taken = 1
                        /\ stream'[l].subscribed /\ ~stream'[l].ended =>
                             tab'[stream'[l].tab].stream = l /\ tab'[stream'[l].tab].session
      BY DEF ChannelsAreHeld
    <3>1. CASE l = k
      BY <3>1, <1>1, <1>5
    <3>2. CASE l # k
      <4>1. l \in DOMAIN stream /\ stream'[l] = stream[l] /\ stream[l].tab \in Tab /\ l # NoStream
        BY <3>2, <1>5, StreamsAreStreams
      <4>2. stream[l].tab # t \/ tab[stream[l].tab].stream # l
        BY <4>1, <1>4
      <4> QED BY <4>1, <4>2, <1>4, <1>7 DEF Hub, ChannelsAreHeld
    <3> QED BY <3>1, <3>2
  <2> QED BY <2>1, <2>2, <2>3 DEF Hub
<1> QED BY <1>6, <1>7, <1>8, <1>9

LEMMA TicketExpiresStep ==
  ASSUME IInv, NEW k \in DOMAIN stream, TicketExpires(k)
  PROVE  IInv'
<1> USE DEF IInv, Typed
<1> DEFINE s == [stream[k] EXCEPT !.ticket = FALSE]
<1>1. s \in Stream /\ s.events = stream[k].events /\ s.tab = stream[k].tab /\ s.taken = stream[k].taken
      /\ ~s.ticket /\ s.subscribed = stream[k].subscribed /\ s.ended = stream[k].ended
  BY StreamsAreStreams DEF Stream
<1>2. stream' = [stream EXCEPT ![k] = s] /\ UNCHANGED <<table, notifying, tab, fetch, marks>>
  BY DEF TicketExpires
<1> HIDE DEF s
<1>3. StreamTyped' /\ DOMAIN stream' = DOMAIN stream /\ stream'[k] = s
      /\ \A l \in DOMAIN stream : l # k => stream'[l] = stream[l]
  <2>1. Len(s.events) <= Capacity
    BY <1>1 DEF StreamTyped
  <2> QED BY <1>1, <1>2, <2>1, StreamExcept
<1>4. TableTyped' /\ TabTyped' /\ FetchTyped' /\ MarksTyped'
  BY <1>2, <1>3 DEF TableTyped, TabTyped, FetchTyped, MarksTyped
<1>5. Hub'
  BY <1>1, <1>2, <1>3, HubKept
<1> QED BY <1>3, <1>4, <1>5

LEMMA TakenStream ==
  ASSUME NEW s \in Stream, NEW taken \in Nat, NEW gone \in BOOLEAN
  PROVE  [s EXCEPT !.ticket = FALSE, !.taken = taken, !.subscribed = TRUE, !.ended = gone]
           = [ticket |-> FALSE, tab |-> s.tab, taken |-> taken, subscribed |-> TRUE,
              ended |-> gone, events |-> s.events]
<1> DEFINE r == [s EXCEPT !.ticket = FALSE, !.taken = taken, !.subscribed = TRUE, !.ended = gone]
<1>1. /\ r.ticket = FALSE /\ r.tab = s.tab /\ r.taken = taken /\ r.subscribed = TRUE
      /\ r.events = s.events
  BY DEF Stream
<1>2. r.ended = gone
  BY Zenon DEF Stream
<1>3. r \in Stream
  BY DEF Stream
<1> HIDE DEF r
<1>4. r = [ticket |-> FALSE, tab |-> s.tab, taken |-> taken, subscribed |-> TRUE,
              ended |-> gone, events |-> s.events]
  BY <1>1, <1>2, <1>3 DEF Stream
<1> QED BY <1>4 DEF r

LEMMA TakeStreamTicketStep ==
  ASSUME IInv, NEW k \in DOMAIN stream, TakeStreamTicket(k)
  PROVE  IInv'
<1> USE DEF IInv, Typed
<1>0. stream[k] \in Stream /\ stream[k].tab \in Tab /\ k # NoStream /\ Len(stream[k].events) <= Capacity
  BY StreamsAreStreams DEF StreamTyped
<1>1. UNCHANGED <<table, notifying, fetch, marks>>
  BY DEF TakeStreamTicket
<1>2. TableTyped' /\ FetchTyped' /\ MarksTyped'
  BY <1>1 DEF TableTyped, FetchTyped, MarksTyped
<1>3. CASE stream[k].ticket
  <2> DEFINE gone == (tab[stream[k].tab].stream # k)
             s == [stream[k] EXCEPT !.ticket = FALSE, !.taken = @ + 1, !.subscribed = TRUE,
                                    !.ended = gone]
  <2>1. gone \in BOOLEAN
    OBVIOUS
  <2>2. stream' = [stream EXCEPT ![k] = s] /\ UNCHANGED tab
    BY <1>3 DEF TakeStreamTicket
  <2>3. stream[k].taken = 0
    BY <1>3 DEF Hub, TicketsAreFresh
  <2>4. ~gone => tab[stream[k].tab].stream = k
    OBVIOUS
  <2> HIDE DEF gone
  <2>5. s \in Stream /\ s.events = stream[k].events /\ s.tab = stream[k].tab /\ s.taken = 1
        /\ ~s.ticket /\ s.ended = gone
    <3>0. stream[k].taken + 1 \in Nat
      BY <2>3
    <3>1. s = [ticket |-> FALSE, tab |-> stream[k].tab, taken |-> stream[k].taken + 1,
               subscribed |-> TRUE, ended |-> gone, events |-> stream[k].events]
      BY <1>0, <2>1, <3>0, TakenStream, Zenon
    <3>2. stream[k].taken + 1 = 1
      BY <2>3
    <3>3. stream[k].events \in Seq(Note)
      BY <1>0 DEF Stream
    <3> HIDE DEF s
    <3> QED BY <1>0, <2>1, <3>1, <3>2, <3>3 DEF Stream
  <2> HIDE DEF s
  <2>6. StreamTyped' /\ DOMAIN stream' = DOMAIN stream /\ stream'[k] = s
        /\ \A l \in DOMAIN stream : l # k => stream'[l] = stream[l]
    BY <1>0, <2>2, <2>5, StreamExcept
  <2>7. TabTyped'
    BY <2>2, <2>6 DEF TabTyped
  <2>8. TicketsAreFresh' /\ TabsHoldTheirOwn'
    BY <2>2, <2>5, <2>6 DEF Hub, TicketsAreFresh, TabsHoldTheirOwn, TabTyped
  <2>9. ChannelsAreHeld'
    <3>1. s.subscribed /\ ~s.ended => tab'[s.tab].stream = k /\ tab'[s.tab].session
      BY <1>0, <2>2, <2>4, <2>5 DEF Hub, TabsHoldTheirOwn
    <3> QED BY <2>2, <2>5, <2>6, <3>1 DEF Hub, ChannelsAreHeld
  <2> QED BY <1>2, <2>6, <2>7, <2>8, <2>9 DEF Hub
<1>4. CASE ~stream[k].ticket
  <2> DEFINE s == [stream[k] EXCEPT !.ticket = FALSE]
  <2>1. s \in Stream /\ s.events = stream[k].events /\ s.tab = stream[k].tab
        /\ s.taken = stream[k].taken /\ ~s.ticket /\ s.subscribed = stream[k].subscribed
        /\ s.ended = stream[k].ended
    BY <1>0 DEF Stream
  <2>2. stream' = [stream EXCEPT ![k] = s]
        /\ tab' = IF stream[k].taken > 0 THEN tab ELSE Closed(k)
    BY <1>4 DEF TakeStreamTicket
  <2> HIDE DEF s
  <2>3. StreamTyped' /\ DOMAIN stream' = DOMAIN stream /\ stream'[k] = s
        /\ \A l \in DOMAIN stream : l # k => stream'[l] = stream[l]
    BY <1>0, <2>1, <2>2, StreamExcept
  <2>4. tab \in [Tab -> Screen]
    BY DEF TabTyped
  <2>5. TabTyped'
    BY <2>2, <2>3, <2>4, ClosedTypes DEF TabTyped
  <2>6. Hub'
    <3>1. CASE stream[k].taken > 0
      <4>1. UNCHANGED tab
        BY <3>1, <2>2
      <4> QED BY <4>1, <2>1, <2>3, HubKept
    <3>2. CASE ~(stream[k].taken > 0)
      <4>1. ~stream[k].subscribed
        BY <3>2 DEF Hub, ChannelsAreHeld
      <4>2. tab' = Closed(k)
        BY <3>2, <2>2
      <4>3. \A t \in Tab :
              \/ tab'[t].stream = tab[t].stream /\ tab'[t].session = tab[t].session
              \/ tab'[t].stream = NoStream /\ tab[t].stream = k
        BY <4>2, <2>4, ClosedTypes
      <4> QED BY <4>1, <4>3, <2>1, <2>3, HubKept
    <3> QED BY <3>1, <3>2
  <2> QED BY <1>2, <2>3, <2>5, <2>6
<1> QED BY <1>3, <1>4

Showing(s, items, count) == [s EXCEPT !.items = items, !.count = count]

LEMMA ShowingTypes ==
  ASSUME NEW s \in Screen, NEW items \in Seq(Item), NEW count \in Nat
  PROVE  /\ Showing(s, items, count) \in Screen
         /\ Showing(s, items, count).items = items
         /\ Showing(s, items, count).stream = s.stream
         /\ Showing(s, items, count).session = s.session
  BY DEF Screen, Showing

LEMMA StreamGivenUp ==
  ASSUME NEW s \in Stream, NEW events \in Seq(Note)
  PROVE  LET r == [s EXCEPT !.subscribed = FALSE, !.events = events] IN
         r \in Stream /\ r.events = events
  BY DEF Stream

LEMMA PushStep ==
  ASSUME IInv, NEW k \in DOMAIN stream, Push(k)
  PROVE  IInv'
<1> USE DEF IInv, Typed
<1> DEFINE n == Head(stream[k].events)
           s == [stream[k] EXCEPT !.events = Tail(@)]
<1>1. stream[k] \in Stream /\ stream[k].events \in Seq(Note) /\ Len(stream[k].events) <= Capacity
  BY StreamsAreStreams DEF StreamTyped, Stream
<1>2. stream[k].events # <<>> /\ stream' = [stream EXCEPT ![k] = s]
      /\ UNCHANGED <<table, notifying, fetch, marks>>
  BY DEF Push
<1>3. n \in Note /\ Tail(stream[k].events) \in Seq(Note)
      /\ Len(Tail(stream[k].events)) <= Capacity
  BY <1>1, <1>2, FeedAssumption
<1>4. s \in Stream /\ Len(s.events) <= Capacity /\ s.tab = stream[k].tab /\ s.taken = stream[k].taken
      /\ s.ticket = stream[k].ticket /\ s.subscribed = stream[k].subscribed
      /\ s.ended = stream[k].ended
  BY <1>1, <1>3 DEF Stream
<1> HIDE DEF s
<1>5. StreamTyped' /\ DOMAIN stream' = DOMAIN stream /\ stream'[k] = s
      /\ \A l \in DOMAIN stream : l # k => stream'[l] = stream[l]
  BY <1>2, <1>4, StreamExcept
<1>6. TabTyped' /\ \A t \in Tab : tab'[t].stream = tab[t].stream /\ tab'[t].session = tab[t].session
  <2> DEFINE Shown(t) == [tab[t] EXCEPT !.items = FirstFew(<<[note |-> n, read |-> FALSE]>> \o @),
                                        !.count = @ + 1]
  <2>1. \A t \in Tab : tab'[t] = IF tab[t].stream = k THEN Shown(t) ELSE tab[t]
    BY DEF Push
  <2>2. ASSUME NEW t \in Tab
        PROVE  /\ Shown(t) \in Screen /\ Len(Shown(t).items) <= Limit
               /\ Shown(t).stream = tab[t].stream /\ Shown(t).session = tab[t].session
    <3> DEFINE items == FirstFew(<<[note |-> n, read |-> FALSE]>> \o tab[t].items)
    <3>1. tab[t] \in Screen /\ tab[t].items \in Seq(Item) /\ tab[t].count \in Nat
      BY DEF TabTyped, Screen
    <3>2. [note |-> n, read |-> FALSE] \in Item
      BY <1>3 DEF Item
    <3>3. <<[note |-> n, read |-> FALSE]>> \o tab[t].items \in Seq(Item)
      BY <3>1, <3>2
    <3>4. items \in Seq(Item) /\ Len(items) <= Limit
      BY <3>3, FirstFewTypes
    <3>5. Shown(t) = Showing(tab[t], items, tab[t].count + 1)
      BY DEF Showing
    <3>6. tab[t].count + 1 \in Nat
      BY <3>1
    <3> HIDE DEF items, Shown
    <3>7. \A count \in Nat :
             /\ Showing(tab[t], items, count) \in Screen
             /\ Showing(tab[t], items, count).items = items
             /\ Showing(tab[t], items, count).stream = tab[t].stream
             /\ Showing(tab[t], items, count).session = tab[t].session
      BY <3>1, <3>4, ShowingTypes, Zenon
    <3> QED BY <3>4, <3>5, <3>6, <3>7, Zenon
  <2> HIDE DEF Shown
  <2>3. tab' \in [Tab -> Screen]
    <3>1. \A t \in Tab : tab'[t] \in Screen
      BY <2>1, <2>2 DEF TabTyped
    <3>2. tab' = [t \in Tab |-> tab'[t]]
      BY DEF Push
    <3> QED BY <3>1, <3>2
  <2> QED BY <1>5, <2>1, <2>2, <2>3 DEF TabTyped
<1>7. TableTyped' /\ FetchTyped' /\ MarksTyped'
  BY <1>2 DEF TableTyped, FetchTyped, MarksTyped
<1>8. Hub'
  BY <1>4, <1>5, <1>6, HubKept
<1> QED BY <1>5, <1>6, <1>7, <1>8

LEMMA EndedTypes ==
  ASSUME Typed, NEW k \in DOMAIN stream, stream' = Ended(k)
  PROVE  /\ StreamTyped' /\ DOMAIN stream' = DOMAIN stream
         /\ stream'[k].ended
         /\ \A l \in DOMAIN stream :
              /\ stream'[l].tab = stream[l].tab /\ stream'[l].taken = stream[l].taken
              /\ stream'[l].ticket = stream[l].ticket
              /\ stream'[l].subscribed = stream[l].subscribed
              /\ stream[l].ended => stream'[l].ended
<1> DEFINE s == [stream[k] EXCEPT !.ended = TRUE]
<1>1. s \in Stream /\ Len(s.events) <= Capacity /\ s.tab = stream[k].tab /\ s.taken = stream[k].taken
      /\ s.ticket = stream[k].ticket /\ s.subscribed = stream[k].subscribed /\ s.ended
  BY StreamsAreStreams DEF Stream, Typed, StreamTyped
<1>2. stream' = [stream EXCEPT ![k] = s]
  BY DEF Ended
<1> HIDE DEF s
<1> QED BY <1>1, <1>2, StreamExcept

LEMMA DisconnectStep ==
  ASSUME IInv, NEW k \in DOMAIN stream, Disconnect(k)
  PROVE  IInv'
<1> USE DEF IInv, Typed
<1>1. stream' = Ended(k) /\ UNCHANGED <<table, notifying, fetch, marks>>
  BY DEF Disconnect
<1>2. tab \in [Tab -> Screen]
  BY DEF TabTyped
<1>3. ASSUME NEW t \in Tab
      PROVE  /\ tab'[t] \in Screen
             /\ tab'[t].items = tab[t].items /\ tab'[t].session = tab[t].session
             /\ tab'[t].stream = IF tab[t].stream = k THEN NoStream ELSE tab[t].stream
  <2> DEFINE c == Closed(k)[t]
             b == c.exact /\ Told(t)
  <2>1. c \in Screen /\ c.items = tab[t].items /\ c.session = tab[t].session
        /\ c.stream = IF tab[t].stream = k THEN NoStream ELSE tab[t].stream
    BY <1>2, ClosedTypes
  <2>2. tab'[t] = [c EXCEPT !.exact = b] /\ b \in BOOLEAN
    BY DEF Disconnect
  <2> HIDE DEF c, b
  <2> QED BY <2>1, <2>2 DEF Screen
<1>4. TabTyped'
  <2>1. tab' = [t \in Tab |-> tab'[t]]
    BY DEF Disconnect
  <2>2. tab' \in [Tab -> Screen]
    BY <1>3, <2>1
  <2> QED BY <1>1, <1>3, <2>2, EndedTypes DEF TabTyped
<1>5. TableTyped' /\ FetchTyped' /\ MarksTyped'
  BY <1>1 DEF TableTyped, FetchTyped, MarksTyped
<1>6. Hub'
  BY <1>1, <1>3, EndedTypes, HubKept
<1> QED BY <1>1, <1>4, <1>5, <1>6, EndedTypes

LEMMA UnsubscribeStep ==
  ASSUME IInv, NEW k \in DOMAIN stream, Unsubscribe(k)
  PROVE  IInv'
<1> USE DEF IInv, Typed
<1> DEFINE s == [stream[k] EXCEPT !.subscribed = FALSE, !.events = <<>>]
<1>1. s \in Stream /\ Len(s.events) <= Capacity /\ s.tab = stream[k].tab /\ s.taken = stream[k].taken
      /\ s.ticket = stream[k].ticket /\ ~s.subscribed /\ s.ended = stream[k].ended
  <2>1. stream[k] \in Stream
    BY StreamsAreStreams
  <2>2. s \in Stream /\ s.events = <<>>
    <3>1. <<>> \in Seq(Note)
      OBVIOUS
    <3> QED BY <2>1, <3>1, StreamGivenUp
  <2>3. s.tab = stream[k].tab /\ s.taken = stream[k].taken
        /\ s.ticket = stream[k].ticket /\ ~s.subscribed /\ s.ended = stream[k].ended
    BY <2>1 DEF Stream
  <2>4. Len(<<>>) <= Capacity
    BY FeedAssumption
  <2> HIDE DEF s
  <2> QED BY <2>2, <2>3, <2>4
<1>2. stream' = [stream EXCEPT ![k] = s] /\ UNCHANGED <<table, notifying, tab, fetch, marks>>
  BY DEF Unsubscribe
<1> HIDE DEF s
<1>3. StreamTyped' /\ DOMAIN stream' = DOMAIN stream /\ stream'[k] = s
      /\ \A l \in DOMAIN stream : l # k => stream'[l] = stream[l]
  BY <1>1, <1>2, StreamExcept
<1>4. TableTyped' /\ TabTyped' /\ FetchTyped' /\ MarksTyped'
  BY <1>2, <1>3 DEF TableTyped, TabTyped, FetchTyped, MarksTyped
<1>5. Hub'
  BY <1>1, <1>2, <1>3, HubKept
<1> QED BY <1>3, <1>4, <1>5

----------------------------------------------------------------------------
(* Tabs and refreshes *)

LEMMA FetchExcept ==
  ASSUME FetchTyped, NEW q \in DOMAIN fetch, NEW r \in Request \cup {Done},
         fetch' = [fetch EXCEPT ![q] = r], r # Done => Len(r.items) <= Limit
  PROVE  FetchTyped'
<1>1. fetch \in Seq(Request \cup {Done}) /\ q \in 1..Len(fetch)
  BY DEF FetchTyped
<1> QED BY <1>1, ExceptSeq DEF FetchTyped

LEMMA FetchRefresh ==
  ASSUME FetchTyped, NEW t \in Tab, Refresh(t)
  PROVE  FetchTyped'
<1> DEFINE r == [step |-> "list", tab |-> t, items |-> <<>>, count |-> 0, clean |-> FALSE]
<1>1. r \in Request \cup {Done} /\ Len(r.items) <= Limit
  <2>1. <<>> \in Seq(Item) /\ Len(<<>>) <= Limit
    BY FeedAssumption
  <2> QED BY <2>1 DEF Request
<1>2. fetch' = Append(fetch, r) /\ Len(fetch) < MaxFetches
  BY DEF Refresh
<1> HIDE DEF r
<1>3. /\ fetch' \in Seq(Request \cup {Done}) /\ Len(fetch') = Len(fetch) + 1
      /\ DOMAIN fetch = 1..Len(fetch) /\ Len(fetch) \in Nat
      /\ \A q \in 1..Len(fetch) : fetch'[q] = fetch[q]
      /\ fetch'[Len(fetch) + 1] = r
  BY <1>1, <1>2 DEF FetchTyped
<1>4. DOMAIN fetch' = 1..(Len(fetch) + 1)
  BY <1>3
<1> QED BY <1>1, <1>2, <1>3, <1>4, FeedAssumption DEF FetchTyped

LEMMA RequestUnderWay ==
  ASSUME FetchTyped, NEW q \in DOMAIN fetch, fetch[q].step # "done"
  PROVE  fetch[q] \in Request /\ Len(fetch[q].items) <= Limit
  BY DEF FetchTyped, Done

LEMMA SignInStep ==
  ASSUME IInv, NEW t \in Tab, SignIn(t)
  PROVE  IInv'
<1> USE DEF IInv, Typed
<1> DEFINE s == [tab[t] EXCEPT !.session = TRUE]
<1>1. s \in Screen /\ s.items = tab[t].items /\ s.stream = tab[t].stream /\ s.session
  BY DEF TabTyped, Screen
<1>2. tab' = [tab EXCEPT ![t] = s] /\ UNCHANGED <<table, notifying, stream, marks>>
  BY DEF SignIn
<1>3. tab[t].stream = NoStream
  BY DEF SignIn, Hub, TabsHoldTheirOwn
<1> HIDE DEF s
<1>4. Len(s.items) <= Limit /\ s.stream \in DOMAIN stream \cup {NoStream}
  BY <1>1 DEF TabTyped
<1>5. TabTyped' /\ tab'[t] = s /\ \A u \in Tab \ {t} : tab'[u] = tab[u]
  BY <1>1, <1>2, <1>4, TabExcept
<1>6. FetchTyped'
  BY FetchRefresh DEF SignIn, FetchTyped
<1>7. TableTyped' /\ StreamTyped' /\ MarksTyped'
  BY <1>2 DEF TableTyped, StreamTyped, MarksTyped
<1>8. Hub'
  BY <1>1, <1>2, <1>3, <1>5, HubKept
<1> QED BY <1>5, <1>6, <1>7, <1>8

LEMMA SignOutStep ==
  ASSUME IInv, NEW t \in Tab, SignOut(t)
  PROVE  IInv'
<1> USE DEF IInv, Typed
<1> DEFINE k == tab[t].stream
<1>1. Blank \in Screen /\ Blank.stream = NoStream /\ Len(Blank.items) <= Limit
  <2>1. <<>> \in Seq(Item) /\ Len(<<>>) <= Limit
    BY FeedAssumption
  <2> QED BY <2>1 DEF Blank, Screen
<1>2. tab' = [tab EXCEPT ![t] = Blank] /\ UNCHANGED <<table, notifying, marks>>
      /\ stream' = IF k = NoStream THEN stream ELSE Ended(k)
  BY DEF SignOut
<1>3. k # NoStream => k \in DOMAIN stream
  BY DEF TabTyped
<1> HIDE DEF k
<1>4. /\ StreamTyped' /\ DOMAIN stream' = DOMAIN stream
      /\ k # NoStream => stream'[k].ended
      /\ \A l \in DOMAIN stream :
           /\ stream'[l].tab = stream[l].tab /\ stream'[l].taken = stream[l].taken
           /\ stream'[l].ticket = stream[l].ticket
           /\ stream'[l].subscribed = stream[l].subscribed
           /\ stream[l].ended => stream'[l].ended
  <2>1. CASE k = NoStream
    BY <2>1, <1>2 DEF StreamTyped
  <2>2. CASE k # NoStream
    BY <2>2, <1>2, <1>3, EndedTypes
  <2> QED BY <2>1, <2>2
<1>5. TabTyped' /\ tab'[t] = Blank /\ \A u \in Tab \ {t} : tab'[u] = tab[u]
  BY <1>1, <1>2, <1>4, TabExcept
<1>6. FetchTyped'
  BY FetchDisturbed DEF SignOut
<1>7. TableTyped' /\ MarksTyped'
  BY <1>2 DEF TableTyped, MarksTyped
<1>8. Hub'
  BY <1>1, <1>4, <1>5, HubKept DEF k
<1> QED BY <1>4, <1>5, <1>6, <1>7, <1>8

LEMMA FocusStep ==
  ASSUME IInv, NEW t \in Tab, Focus(t)
  PROVE  IInv'
<1> USE DEF IInv, Typed
<1>1. FetchTyped'
  BY FetchRefresh DEF Focus
<1>2. TableTyped' /\ StreamTyped' /\ TabTyped' /\ MarksTyped'
  BY DEF Focus, TableTyped, StreamTyped, TabTyped, MarksTyped
<1> QED BY <1>1, <1>2, HubAlone DEF Focus

LEMMA ReadListStep ==
  ASSUME IInv, NEW q \in DOMAIN fetch, ReadList(q)
  PROVE  IInv'
<1> USE DEF IInv, Typed
<1> DEFINE clean == (notifying = {} /\ marks = {} /\ Told(fetch[q].tab))
           r == [fetch[q] EXCEPT !.step = "count", !.items = Listed, !.clean = clean]
<1>1. fetch[q] \in Request
  BY RequestUnderWay DEF ReadList
<1>2. Listed \in Seq(Item) /\ Len(Listed) <= Limit /\ clean \in BOOLEAN
  BY ListedTypes
<1>3. fetch' = [fetch EXCEPT ![q] = r] /\ UNCHANGED <<table, notifying, stream, tab, marks>>
  BY DEF ReadList
<1> HIDE DEF clean
<1>4. r \in Request /\ r.items = Listed
  BY <1>1, <1>2 DEF Request
<1> HIDE DEF r
<1>5. FetchTyped'
  BY <1>2, <1>3, <1>4, FetchExcept
<1>6. TableTyped' /\ StreamTyped' /\ TabTyped' /\ MarksTyped'
  BY <1>3 DEF TableTyped, StreamTyped, TabTyped, MarksTyped
<1> QED BY <1>3, <1>5, <1>6, HubAlone

LEMMA ReadCountStep ==
  ASSUME IInv, NEW q \in DOMAIN fetch, ReadCount(q)
  PROVE  IInv'
<1> USE DEF IInv, Typed
<1> DEFINE c == Cardinality(Unread)
           r == [fetch[q] EXCEPT !.step = "answer", !.count = c]
<1>1. fetch[q] \in Request /\ Len(fetch[q].items) <= Limit
  BY RequestUnderWay DEF ReadCount
<1>2. c \in Nat
  <2>1. Unread \subseteq 1..Len(table) /\ Len(table) \in Nat
    BY DEF Unread, TableTyped
  <2>2. IsFiniteSet(1..Len(table))
    BY <2>1, FS_Interval
  <2> QED BY <2>1, <2>2, FS_Subset, FS_CardinalityType
<1>3. fetch' = [fetch EXCEPT ![q] = r] /\ UNCHANGED <<table, notifying, stream, tab, marks>>
  BY DEF ReadCount
<1> HIDE DEF c
<1>4. r \in Request /\ r.items = fetch[q].items
  BY <1>1, <1>2 DEF Request
<1> HIDE DEF r
<1>5. FetchTyped'
  BY <1>1, <1>3, <1>4, FetchExcept
<1>6. TableTyped' /\ StreamTyped' /\ TabTyped' /\ MarksTyped'
  BY <1>3 DEF TableTyped, StreamTyped, TabTyped, MarksTyped
<1> QED BY <1>3, <1>5, <1>6, HubAlone

LEMMA AnswerStep ==
  ASSUME IInv, NEW q \in DOMAIN fetch, Answer(q)
  PROVE  IInv'
<1> USE DEF IInv, Typed
<1> DEFINE a == fetch[q]
           s == [tab[a.tab] EXCEPT !.items = a.items, !.count = a.count, !.exact = a.clean]
<1>1. a \in Request /\ Len(a.items) <= Limit
  BY RequestUnderWay DEF Answer
<1>2. a.tab \in Tab /\ a.items \in Seq(Item) /\ a.count \in Nat /\ a.clean \in BOOLEAN
  BY <1>1 DEF Request
<1>3. tab' = [tab EXCEPT ![a.tab] = s] /\ fetch' = [fetch EXCEPT ![q] = Done]
      /\ UNCHANGED <<table, notifying, stream, marks>>
  BY DEF Answer
<1> HIDE DEF a
<1>4. tab[a.tab] \in Screen
  BY <1>2 DEF TabTyped
<1>5. s \in Screen /\ s.items = a.items /\ s.stream = tab[a.tab].stream
      /\ s.session = tab[a.tab].session
  BY <1>2, <1>4 DEF Screen
<1> HIDE DEF s
<1>6. TabTyped' /\ tab'[a.tab] = s /\ \A u \in Tab \ {a.tab} : tab'[u] = tab[u]
  <2>1. s.stream \in DOMAIN stream \cup {NoStream} /\ Len(s.items) <= Limit
    BY <1>1, <1>2, <1>5 DEF TabTyped, a
  <2>2. DOMAIN stream \subseteq DOMAIN stream'
    BY <1>3
  <2> QED BY <1>2, <1>3, <1>5, <2>1, <2>2, TabExcept
<1>7. FetchTyped'
  BY <1>3, FetchExcept
<1>8. TableTyped' /\ StreamTyped' /\ MarksTyped'
  BY <1>3 DEF TableTyped, StreamTyped, MarksTyped
<1>9. Hub'
  BY <1>3, <1>5, <1>6, HubAlone
<1> QED BY <1>6, <1>7, <1>8, <1>9

----------------------------------------------------------------------------
(* Marking as read *)

LEMMA MarksAdd ==
  ASSUME MarksTyped, NEW m \in Mark, Cardinality(marks) < MaxMarks, marks' = marks \cup {m}
  PROVE  MarksTyped'
<1>1. Cardinality(marks) \in Nat
  BY FS_CardinalityType DEF MarksTyped
<1>2. IsFiniteSet(marks') /\ Cardinality(marks') <= Cardinality(marks) + 1
  BY <1>1, FS_AddElement DEF MarksTyped
<1>3. Cardinality(marks') \in Nat
  BY <1>2, FS_CardinalityType
<1> QED BY <1>1, <1>2, <1>3, FeedAssumption DEF MarksTyped

(* What a tab shows when it marks.                                            *)
LEMMA TabMarks ==
  ASSUME Typed, NEW t \in Tab, NEW notes, NEW count \in Nat, UNCHANGED stream,
         tab' = [tab EXCEPT ![t].items = Read(@, notes), ![t].count = count]
  PROVE  /\ TabTyped'
         /\ \A u \in Tab : tab'[u].stream = tab[u].stream /\ tab'[u].session = tab[u].session
<1> DEFINE items == Read(tab[t].items, notes)
           s == Showing(tab[t], items, count)
<1>1. tab[t] \in Screen /\ tab[t].items \in Seq(Item) /\ Len(tab[t].items) <= Limit
  BY DEF Typed, TabTyped, Screen
<1>2. items \in Seq(Item) /\ Len(items) = Len(tab[t].items)
  BY <1>1, ReadTypes
<1>3. tab' = [tab EXCEPT ![t] = s]
  BY DEF Showing
<1> HIDE DEF items
<1>4. s \in Screen /\ s.items = items /\ s.stream = tab[t].stream /\ s.session = tab[t].session
  BY <1>1, <1>2, ShowingTypes, Zenon
<1> HIDE DEF s
<1>5. Len(s.items) <= Limit /\ s.stream \in DOMAIN stream \cup {NoStream}
  BY <1>1, <1>2, <1>4 DEF Typed, TabTyped
<1> QED BY <1>3, <1>4, <1>5, TabExcept

LEMMA MarkReadStep ==
  ASSUME IInv, NEW t \in Tab, NEW i \in DOMAIN tab[t].items, MarkRead(t, i)
  PROVE  IInv'
<1> USE DEF IInv, Typed
<1> DEFINE n == tab[t].items[i].note
           count == IF tab[t].count = 0 THEN 0 ELSE tab[t].count - 1
           m == [tab |-> t, note |-> n, upto |-> 0]
<1>1. tab[t] \in Screen
  BY DEF TabTyped
<1>2. n \in Note /\ count \in Nat
  <2>1. tab[t].items \in Seq(Item) /\ tab[t].count \in Nat
    BY <1>1 DEF Screen
  <2>2. tab[t].items[i] \in Item
    BY <2>1
  <2> QED BY <2>1, <2>2 DEF Item
<1>3. m \in Mark
  BY <1>2, FeedAssumption DEF Mark
<1>4. tab' = [tab EXCEPT ![t].items = Read(@, {n}), ![t].count = count]
      /\ UNCHANGED <<table, notifying, stream>>
  BY DEF MarkRead
<1>5. Cardinality(marks) < MaxMarks /\ marks' = marks \cup {m} /\ fetch' = Disturbed({t})
  BY DEF MarkRead
<1> HIDE DEF n, count, m
<1>6. TabTyped' /\ \A u \in Tab : tab'[u].stream = tab[u].stream /\ tab'[u].session = tab[u].session
  BY <1>2, <1>4, TabMarks
<1>7. MarksTyped' /\ FetchTyped'
  BY <1>3, <1>5, MarksAdd, FetchDisturbed
<1>8. TableTyped' /\ StreamTyped'
  BY <1>4 DEF TableTyped, StreamTyped
<1>9. Hub'
  BY <1>4, <1>6, HubAlone
<1> QED BY <1>6, <1>7, <1>8, <1>9

LEMMA MarkAllReadStep ==
  ASSUME IInv, NEW t \in Tab, MarkAllRead(t)
  PROVE  IInv'
<1> USE DEF IInv, Typed
<1> DEFINE upto == IF notifying = {} /\ Told(t) THEN Len(table) ELSE 0
           m == [tab |-> t, note |-> 0, upto |-> upto]
<1>1. upto \in 0..MaxNotes
  BY FeedAssumption DEF TableTyped
<1>2. tab' = [tab EXCEPT ![t].items = Read(@, Note), ![t].count = 0]
      /\ UNCHANGED <<table, notifying, stream>>
  BY DEF MarkAllRead
<1>3. Cardinality(marks) < MaxMarks /\ marks' = marks \cup {m} /\ fetch' = Disturbed({t})
  BY DEF MarkAllRead
<1> HIDE DEF upto
<1>4. m \in Mark
  BY <1>1 DEF Mark
<1> HIDE DEF m
<1>5. TabTyped' /\ \A u \in Tab : tab'[u].stream = tab[u].stream /\ tab'[u].session = tab[u].session
  BY <1>2, TabMarks
<1>6. MarksTyped' /\ FetchTyped'
  BY <1>3, <1>4, MarksAdd, FetchDisturbed
<1>7. TableTyped' /\ StreamTyped'
  BY <1>2 DEF TableTyped, StreamTyped
<1>8. Hub'
  BY <1>2, <1>5, HubAlone
<1> QED BY <1>5, <1>6, <1>7, <1>8

LEMMA ApplyMarkStep ==
  ASSUME IInv, NEW m \in marks, ApplyMark(m)
  PROVE  IInv'
<1> USE DEF IInv, Typed
<1>1. TableTyped'
  <2>1. DOMAIN table = 1..Len(table) /\ Len(table) \in Nat
    BY DEF TableTyped
  <2>2. \A n \in 1..Len(table) : (table[n] \/ m.note \in {0, n}) \in BOOLEAN
    OBVIOUS
  <2>3. table' \in [1..Len(table) -> BOOLEAN]
    BY <2>1, <2>2 DEF ApplyMark
  <2>4. table' \in Seq(BOOLEAN) /\ Len(table') = Len(table) /\ DOMAIN table' = DOMAIN table
    BY <2>1, <2>3, Sequence
  <2> QED BY <2>4 DEF TableTyped, ApplyMark
<1>2. MarksTyped'
  <2>1. marks' = marks \ {m} /\ IsFiniteSet(marks')
    BY FS_RemoveElement DEF ApplyMark, MarksTyped
  <2>2. Cardinality(marks') = Cardinality(marks) - 1 /\ Cardinality(marks) \in Nat
    BY FS_RemoveElement, FS_CardinalityType DEF ApplyMark, MarksTyped
  <2> QED BY <2>1, <2>2, FeedAssumption DEF MarksTyped
<1>3. TabTyped' /\ \A t \in Tab : tab'[t].stream = tab[t].stream /\ tab'[t].session = tab[t].session
  BY TabInexact DEF ApplyMark
<1>4. FetchTyped'
  BY FetchDisturbed DEF ApplyMark
<1>5. StreamTyped'
  BY DEF ApplyMark, StreamTyped
<1>6. Hub'
  BY <1>3, HubAlone DEF ApplyMark
<1> QED BY <1>1, <1>2, <1>3, <1>4, <1>5, <1>6

LEMMA MarkElsewhereStep ==
  ASSUME IInv, NEW n \in DOMAIN table, MarkElsewhere(n)
  PROVE  IInv'
<1> USE DEF IInv, Typed
<1>1. TableTyped'
  <2>1. table \in Seq(BOOLEAN) /\ n \in 1..Len(table)
    BY DEF TableTyped
  <2>2. table' \in Seq(BOOLEAN) /\ Len(table') = Len(table) /\ DOMAIN table' = DOMAIN table
    BY <2>1, ExceptSeq DEF MarkElsewhere
  <2> QED BY <2>2 DEF TableTyped, MarkElsewhere
<1>2. TabTyped' /\ \A t \in Tab : tab'[t].stream = tab[t].stream /\ tab'[t].session = tab[t].session
  BY TabInexact DEF MarkElsewhere
<1>3. FetchTyped'
  BY FetchDisturbed DEF MarkElsewhere
<1>4. StreamTyped' /\ MarksTyped'
  BY DEF MarkElsewhere, StreamTyped, MarksTyped
<1>5. Hub'
  BY <1>2, HubAlone DEF MarkElsewhere
<1> QED BY <1>1, <1>2, <1>3, <1>4, <1>5

----------------------------------------------------------------------------
(* The invariant *)

LEMMA InitIInv == Init => IInv
<1> SUFFICES ASSUME Init PROVE IInv
  OBVIOUS
<1>1. <<>> \in Seq(BOOLEAN) /\ <<>> \in Seq(Stream) /\ <<>> \in Seq(Item)
      /\ <<>> \in Seq(Request \cup {Done}) /\ Len(<<>>) = 0 /\ DOMAIN <<>> = {}
  OBVIOUS
<1>2. Blank \in Screen
  BY <1>1 DEF Blank, Screen
<1>3. TableTyped /\ StreamTyped /\ FetchTyped
  BY <1>1, FeedAssumption DEF Init, TableTyped, StreamTyped, FetchTyped
<1>4. TabTyped
  BY <1>1, <1>2, FeedAssumption DEF Init, TabTyped, Blank
<1>5. MarksTyped
  BY FS_EmptySet, FeedAssumption DEF Init, MarksTyped
<1>6. Hub
  BY <1>1 DEF Init, Blank, Hub, TicketsAreFresh, TabsHoldTheirOwn, ChannelsAreHeld
<1> QED BY <1>3, <1>4, <1>5, <1>6 DEF IInv, Typed

LEMMA NextIInv == IInv /\ [Next]_vars => IInv'
<1> SUFFICES ASSUME IInv, [Next]_vars PROVE IInv'
  OBVIOUS
<1>1. CASE \E here \in BOOLEAN : InsertNotification(here)
  BY <1>1, InsertNotificationStep
<1>2. CASE \E n \in notifying : Broadcast(n)
  BY <1>2, BroadcastStep
<1>3. CASE \E t \in Tab : Connect(t) \/ SignIn(t) \/ SignOut(t) \/ Focus(t) \/ MarkAllRead(t)
  BY <1>3, ConnectStep, SignInStep, SignOutStep, FocusStep, MarkAllReadStep
<1>4. CASE \E t \in Tab : \E i \in DOMAIN tab[t].items : MarkRead(t, i)
  BY <1>4, MarkReadStep
<1>5. CASE \E k \in DOMAIN stream :
             TicketExpires(k) \/ TakeStreamTicket(k) \/ Push(k) \/ Disconnect(k)
               \/ Unsubscribe(k)
  BY <1>5, TicketExpiresStep, TakeStreamTicketStep, PushStep, DisconnectStep, UnsubscribeStep
<1>6. CASE \E q \in DOMAIN fetch : ReadList(q) \/ ReadCount(q) \/ Answer(q)
  BY <1>6, ReadListStep, ReadCountStep, AnswerStep
<1>7. CASE \E m \in marks : ApplyMark(m)
  BY <1>7, ApplyMarkStep
<1>8. CASE \E n \in DOMAIN table : MarkElsewhere(n)
  BY <1>8, MarkElsewhereStep
<1>9. CASE UNCHANGED vars
  <2>1. UNCHANGED <<table, notifying, stream, tab, fetch, marks>>
    BY <1>9 DEF vars
  <2>2. Typed'
    BY <2>1 DEF IInv, Typed, TableTyped, StreamTyped, TabTyped, FetchTyped, MarksTyped
  <2> QED BY <2>1, <2>2, HubAlone DEF IInv
<1> QED BY <1>1, <1>2, <1>3, <1>4, <1>5, <1>6, <1>7, <1>8, <1>9 DEF Next

LEMMA Invariance == Spec => []IInv
  BY InitIInv, NextIInv, PTL DEF Spec

----------------------------------------------------------------------------
(* Whatever is inserted, broadcast, pushed, refreshed, marked, lost or closed,  *)
(* and however long it goes on: every variable keeps its type, no channel of    *)
(* the hub holds more than its capacity, no list more than its limit, and a tab *)
(* names no stream that was never asked for.                                    *)
THEOREM TypesHold == Spec => []TypeOK
<1>1. Typed => TypeOK
  <2> SUFFICES ASSUME Typed PROVE TypeOK
    OBVIOUS
  <2>1. \A n \in DOMAIN table : table[n] \in BOOLEAN
    BY DEF Typed, TableTyped
  <2>2. \A k \in DOMAIN stream : stream[k] \in Stream
    BY StreamsAreStreams
  <2>3. \A q \in DOMAIN fetch : fetch[q] \in Request \cup {Done}
    BY DEF Typed, FetchTyped
  <2> QED BY <2>1, <2>2, <2>3 DEF TypeOK, Typed, TableTyped, StreamTyped, TabTyped, FetchTyped,
                                  MarksTyped
<1> QED BY <1>1, Invariance, PTL DEF IInv

(* A stream ticket admits one connection, whatever is repeated, late or swept   *)
(* (takeStreamTicket removes it under the server's lock); a channel in the hub  *)
(* whose client is not known to be gone is that of the one stream its tab holds *)
(* open, in a session: any number of tabs and tickets leaves none behind and    *)
(* tells no tab of a notification twice.                                        *)
THEOREM ChannelsHold == Spec => []ChannelsAreHeld
  BY Invariance, PTL DEF IInv, Hub

----------------------------------------------------------------------------
(* What a tab shows, and what it has yet to be told *)
(* What is on its way to a tab through the hub. *)
Coming(s, streams) == IF s.stream = NoStream THEN <<>> ELSE streams[s.stream].events

(* What a tab shows that knows of the first v notifications, those in R read.  *)
Few(v) == IF v < Limit THEN v ELSE Limit
Shows(v, R) == [i \in 1..Few(v) |-> [note |-> v + 1 - i, read |-> v + 1 - i \in R]]

(* What a tab has asked to be marked as read, and the notifications it shows as *)
(* read.                                                                        *)
Asked(n, t, ms) == \E m \in ms : m.tab = t /\ (m.note = n \/ (m.note = 0 /\ n <= m.upto))
ReadBy(v, t, tbl, ms) == {n \in 1..v : tbl[n] \/ Asked(n, t, ms)}

(* A tab that will not be exact any more once the marks under way are applied. *)
Doomed(t, ms, len) == \E m \in ms : m.tab # t \/ (m.note = 0 /\ m.upto # len)

(* A tab knows of the first v notifications; the next are on their way to it   *)
(* through its stream, in order, and the rest have yet to be broadcast.  They  *)
(* are unread and it has not asked for them.                                   *)
Accurate(v, s, t, tbl, new, coming, ms) ==
  /\ v + Len(coming) <= Len(tbl)
  /\ \A i \in 1..Len(coming) : coming[i] = v + i
  /\ new = (v + Len(coming) + 1)..Len(tbl)
  /\ \A n \in (v + 1)..Len(tbl) : ~tbl[n]
  /\ \A m \in ms : m.tab = t => m.note <= v /\ (m.note = 0 => v = Len(tbl))
  /\ s.items = Shows(v, ReadBy(v, t, tbl, ms))
  /\ s.count = Cardinality((1..v) \ ReadBy(v, t, tbl, ms))

Faithful(s, t, tbl, new, coming, ms) ==
  s.exact => Doomed(t, ms, Len(tbl)) \/ \E v \in 0..Len(tbl) : Accurate(v, s, t, tbl, new, coming, ms)

(* What an undisturbed refresh has read is still so. *)
Clean(q, tbl, new, tabs, streams, ms) ==
  q # Done /\ q.clean =>
    /\ q.step # "list" /\ new = {} /\ Coming(tabs[q.tab], streams) = <<>>
    /\ \A m \in ms : m.tab # q.tab
    /\ q.items = Shows(Len(tbl), {n \in DOMAIN tbl : tbl[n]})
    /\ q.step = "answer" => q.count = Cardinality({n \in DOMAIN tbl : ~tbl[n]})

(* A channel that nobody is subscribed to is empty, a client that is gone has  *)
(* no tab, and nothing is asked for that does not exist.                       *)
Channels ==
  \A k \in DOMAIN stream :
    /\ stream[k].events # <<>> => stream[k].subscribed
    /\ stream[k].ended => \A t \in Tab : tab[t].stream # k
AskedInTime == \A m \in marks : m.upto <= Len(table)

Screens == \A t \in Tab : Faithful(tab[t], t, table, notifying, Coming(tab[t], stream), marks)
Refreshes == \A q \in DOMAIN fetch : Clean(fetch[q], table, notifying, tab, stream, marks)

FeedInv == Channels /\ AskedInTime /\ Screens /\ Refreshes

----------------------------------------------------------------------------
(* What is shown *)

LEMMA FewIs ==
  ASSUME NEW v \in Nat
  PROVE  Few(v) \in 0..v /\ (Few(v) = v \/ (Few(v) = Limit /\ Few(v) <= v)) /\ Few(v) <= Limit
BY FeedAssumption DEF Few

LEMMA ShowsIs ==
  ASSUME NEW v \in Nat, NEW R
  PROVE  /\ DOMAIN Shows(v, R) = 1..Few(v) /\ Few(v) \in Nat
         /\ \A i \in 1..Few(v) : /\ Shows(v, R)[i] = [note |-> v + 1 - i, read |-> v + 1 - i \in R]
                                 /\ v + 1 - i \in 1..v
<1>1. Few(v) \in 0..v
  BY FewIs
<1>2. \A i \in 1..Few(v) : Shows(v, R)[i] = [note |-> v + 1 - i, read |-> v + 1 - i \in R]
  BY Zenon DEF Shows
<1>3. \A i \in 1..Few(v) : v + 1 - i \in 1..v
  BY <1>1
<1>4. DOMAIN Shows(v, R) = 1..Few(v)
  BY DEF Shows
<1> QED BY <1>1, <1>2, <1>3, <1>4

LEMMA ShowsLines ==
  ASSUME NEW v \in Nat, NEW R, NEW f, DOMAIN f = 1..Few(v), f = [i \in DOMAIN f |-> f[i]],
         \A i \in 1..Few(v) : f[i] = [note |-> v + 1 - i, read |-> v + 1 - i \in R]
  PROVE  f = Shows(v, R)
<1>1. f = [i \in 1..Few(v) |-> f[i]]
  BY Zenon
<1>2. [i \in 1..Few(v) |-> f[i]] = [i \in 1..Few(v) |-> [note |-> v + 1 - i, read |-> v + 1 - i \in R]]
  BY Zenon
<1> QED BY <1>1, <1>2, Zenon DEF Shows

LEMMA SameReads ==
  ASSUME NEW v \in Nat, NEW Q, NEW R, \A n \in 1..v : n \in Q <=> n \in R
  PROVE  Shows(v, Q) = Shows(v, R)
<1>1. \A i \in 1..Few(v) : (v + 1 - i \in Q) = (v + 1 - i \in R)
  <2> SUFFICES ASSUME NEW i \in 1..Few(v)
               PROVE  (v + 1 - i \in Q) = (v + 1 - i \in R)
    OBVIOUS
  <2>1. v + 1 - i \in 1..v
    BY FewIs
  <2> QED BY <2>1
<1>2. \A i \in 1..Few(v) : Shows(v, Q)[i] = [note |-> v + 1 - i, read |-> v + 1 - i \in R]
  <2> SUFFICES ASSUME NEW i \in 1..Few(v)
               PROVE  Shows(v, Q)[i] = [note |-> v + 1 - i, read |-> v + 1 - i \in R]
    OBVIOUS
  <2>1. Shows(v, Q)[i] = [note |-> v + 1 - i, read |-> v + 1 - i \in Q]
    BY ShowsIs
  <2>2. (v + 1 - i \in Q) = (v + 1 - i \in R)
    BY <1>1
  <2> QED BY <2>1, <2>2, Zenon
<1>3. DOMAIN Shows(v, Q) = 1..Few(v)
  BY ShowsIs
<1>4. Shows(v, Q) = [i \in DOMAIN Shows(v, Q) |-> Shows(v, Q)[i]]
  BY DEF Shows
<1> QED BY <1>2, <1>3, <1>4, ShowsLines, Zenon

LEMMA FirstFewIs ==
  ASSUME NEW S, NEW s \in Seq(S)
  PROVE  /\ DOMAIN FirstFew(s) = 1..Few(Len(s)) /\ Few(Len(s)) \in Nat
         /\ FirstFew(s) = [i \in DOMAIN FirstFew(s) |-> FirstFew(s)[i]]
         /\ \A i \in 1..Few(Len(s)) : FirstFew(s)[i] = s[i]
<1>1. Len(s) \in Nat /\ Few(Len(s)) \in 0..Len(s)
  BY FewIs
<1>2. FirstFew(s) = SubSeq(s, 1, Few(Len(s)))
  BY DEF FirstFew, Few
<1> QED BY <1>1, <1>2

(* A line that is read is read.                                               *)
LEMMA LineRead ==
  ASSUME NEW n, NEW a \in BOOLEAN, NEW b \in BOOLEAN, a <=> b
  PROVE  [note |-> n, read |-> a] = [note |-> n, read |-> b]
<1>1. a = b
  OBVIOUS
<1> QED BY <1>1, Zenon

LEMMA ListedIs ==
  ASSUME TableTyped
  PROVE  Listed = Shows(Len(table), {n \in DOMAIN table : table[n]})
<1> DEFINE All == [i \in 1..Len(table) |->
                    LET n == Len(table) + 1 - i IN [note |-> n, read |-> table[n]]]
           R == {n \in DOMAIN table : table[n]}
<1>1. DOMAIN table = 1..Len(table) /\ Len(table) \in Nat /\ \A n \in 1..Len(table) : table[n] \in BOOLEAN
  BY DEF TableTyped
<1>2. All \in Seq(Item) /\ Len(All) = Len(table)
  <2>1. \A i \in 1..Len(table) : All[i] \in Item
    BY FeedAssumption DEF TableTyped, Item, Note
  <2>2. All \in [1..Len(table) -> Item]
    BY <1>1, <2>1
  <2> HIDE DEF All
  <2> QED BY <1>1, <2>2, Sequence
<1>3. ASSUME NEW i \in 1..Len(table)
      PROVE  All[i] = [note |-> Len(table) + 1 - i, read |-> Len(table) + 1 - i \in R]
  <2> DEFINE n == Len(table) + 1 - i
  <2>1. n \in 1..Len(table)
    BY <1>1
  <2>2. All[i] = [note |-> n, read |-> table[n]]
    BY Zenon
  <2> HIDE DEF n
  <2>3. table[n] \in BOOLEAN /\ (n \in R) \in BOOLEAN /\ (table[n] <=> n \in R)
    BY <1>1, <2>1
  <2>4. [note |-> n, read |-> table[n]] = [note |-> n, read |-> n \in R]
    <3> HIDE DEF R
    <3> QED BY <2>3, LineRead, Zenon
  <2> HIDE DEF All, R
  <2> QED BY <2>2, <2>4, Zenon DEF n
<1>4. Listed = FirstFew(All)
  BY DEF Listed
<1> HIDE DEF All, R
<1>5. /\ DOMAIN FirstFew(All) = 1..Few(Len(table)) /\ Few(Len(table)) \in 0..Len(table)
      /\ FirstFew(All) = [i \in DOMAIN FirstFew(All) |-> FirstFew(All)[i]]
      /\ \A i \in 1..Few(Len(table)) : FirstFew(All)[i] = All[i]
  BY <1>1, <1>2, FirstFewIs, FewIs
<1>6. \A i \in 1..Few(Len(table)) :
        FirstFew(All)[i] = [note |-> Len(table) + 1 - i, read |-> Len(table) + 1 - i \in R]
  <2> SUFFICES ASSUME NEW i \in 1..Few(Len(table))
               PROVE  FirstFew(All)[i] = [note |-> Len(table) + 1 - i, read |-> Len(table) + 1 - i \in R]
    OBVIOUS
  <2>1. i \in 1..Len(table) /\ FirstFew(All)[i] = All[i]
    BY <1>1, <1>5
  <2> QED BY <1>3, <2>1, Zenon
<1>7. FirstFew(All) = Shows(Len(table), R)
  <2> DEFINE few == FirstFew(All)
             v == Len(table)
  <2>1. v \in Nat
    BY <1>1
  <2>2. DOMAIN few = 1..Few(v) /\ few = [i \in DOMAIN few |-> few[i]]
    BY <1>5, Zenon
  <2>3. \A i \in 1..Few(v) : few[i] = [note |-> v + 1 - i, read |-> v + 1 - i \in R]
    BY <1>6, Zenon
  <2> HIDE DEF few, v
  <2>4. few = Shows(v, R)
    BY <2>1, <2>2, <2>3, ShowsLines, Zenon
  <2> QED BY <2>4 DEF few, v
<1> QED BY <1>4, <1>7 DEF R

LEMMA ReadShows ==
  ASSUME NEW v \in Nat, NEW R, NEW S
  PROVE  Read(Shows(v, R), S) = Shows(v, R \cup S)
<1> DEFINE old == Shows(v, R)
           new == Read(old, S)
<1>1. DOMAIN new = 1..Few(v) /\ new = [i \in DOMAIN new |-> new[i]]
  BY ShowsIs DEF Read
<1>2. ASSUME NEW i \in 1..Few(v)
      PROVE  new[i] = [note |-> v + 1 - i, read |-> v + 1 - i \in R \cup S]
  <2> DEFINE n == v + 1 - i
             a == n \in R
             b == a \/ n \in S
  <2>1. old[i] = [note |-> n, read |-> a]
    BY ShowsIs, Zenon
  <2>2. new[i] = [old[i] EXCEPT !.read = old[i].read \/ old[i].note \in S]
    BY ShowsIs DEF Read
  <2>3. b \in BOOLEAN /\ (n \in R \cup S) \in BOOLEAN /\ (b <=> n \in R \cup S)
    OBVIOUS
  <2> HIDE DEF n, old, new
  <2>4. old[i].note = n /\ old[i].read = a
    <3> HIDE DEF a
    <3> QED BY <2>1
  <2>5. (old[i].read \/ old[i].note \in S) = b
    BY <2>4, Zenon
  <2>6. new[i] = [[note |-> n, read |-> a] EXCEPT !.read = b]
    BY <2>1, <2>2, <2>5, Zenon
  <2>7. new[i] = [note |-> n, read |-> b]
    BY <2>6
  <2>8. [note |-> n, read |-> b] = [note |-> n, read |-> n \in R \cup S]
    <3> HIDE DEF b
    <3> QED BY <2>3, LineRead, Zenon
  <2> HIDE DEF b
  <2> QED BY <2>7, <2>8, Zenon DEF n
<1> HIDE DEF new
<1>3. new = Shows(v, R \cup S)
  BY <1>1, <1>2, ShowsLines, Zenon
<1> QED BY <1>3 DEF new

LEMMA PushShows ==
  ASSUME NEW v \in Nat, NEW R, v + 1 \notin R, Shows(v, R) \in Seq(Item), v + 1 \in Note
  PROVE  FirstFew(<<[note |-> v + 1, read |-> FALSE]>> \o Shows(v, R)) = Shows(v + 1, R)
<1> DEFINE first == [note |-> v + 1, read |-> FALSE]
           long == <<first>> \o Shows(v, R)
           few == FirstFew(long)
<1>1. /\ Few(v) \in 0..v /\ Few(v + 1) \in 0..(v + 1) /\ v + 1 \in Nat
      /\ Few(v + 1) <= Few(v) + 1
      /\ Few(Few(v) + 1) = Few(v + 1)
  <2>1. Limit \in Nat \ {0}
    BY FeedAssumption
  <2>2. CASE v < Limit
    <3>1. Few(v) = v
      BY <2>2 DEF Few
    <3>2. Few(v + 1) = v + 1
      BY <2>1, <2>2 DEF Few
    <3> QED BY <3>1, <3>2
  <2>3. CASE ~(v < Limit)
    <3>1. Few(v) = Limit /\ Few(v + 1) = Limit /\ Few(Limit + 1) = Limit
      BY <2>1, <2>3 DEF Few
    <3> QED BY <2>1, <2>3, <3>1
  <2> QED BY <2>2, <2>3
<1>2. Shows(v, R) \in Seq(Item) /\ Len(Shows(v, R)) = Few(v) /\ DOMAIN Shows(v, R) = 1..Few(v)
  BY <1>1, ShowsIs
<1>3. first \in Item
  BY DEF Item
<1> HIDE DEF first
<1>4. /\ long \in Seq(Item) /\ Len(long) = Few(v) + 1 /\ long[1] = first
      /\ \A i \in 2..(Few(v) + 1) : long[i] = Shows(v, R)[i - 1]
  BY <1>1, <1>2, <1>3
<1> HIDE DEF long
<1>5. /\ DOMAIN few = 1..Few(v + 1) /\ few = [i \in DOMAIN few |-> few[i]]
      /\ \A i \in 1..Few(v + 1) : few[i] = long[i]
  BY <1>1, <1>4, FirstFewIs
<1> HIDE DEF few
<1>6. ASSUME NEW i \in 1..Few(v + 1)
      PROVE  few[i] = [note |-> v + 1 + 1 - i, read |-> v + 1 + 1 - i \in R]
  <2>1. CASE i = 1
    <3>1. v + 1 + 1 - i = v + 1 /\ few[i] = first
      BY <1>4, <1>5, <2>1
    <3>2. FALSE \in BOOLEAN /\ (v + 1 \in R) \in BOOLEAN /\ (FALSE <=> v + 1 \in R)
      OBVIOUS
    <3>3. [note |-> v + 1, read |-> FALSE] = [note |-> v + 1, read |-> v + 1 \in R]
      BY <3>2, LineRead, Zenon
    <3> QED BY <3>1, <3>3, Zenon DEF first
  <2>2. CASE i # 1
    <3>1. i - 1 \in 1..Few(v) /\ i \in 2..(Few(v) + 1) /\ v + 1 - (i - 1) = v + 1 + 1 - i
      BY <1>1, <2>2
    <3>2. few[i] = Shows(v, R)[i - 1]
      BY <1>4, <1>5, <3>1
    <3>3. Shows(v, R)[i - 1] = [note |-> v + 1 - (i - 1), read |-> v + 1 - (i - 1) \in R]
      BY <3>1, ShowsIs, Zenon
    <3> QED BY <3>1, <3>2, <3>3, Zenon
  <2> QED BY <2>1, <2>2
<1>7. few = Shows(v + 1, R)
  <2> DEFINE w == v + 1
  <2>1. w \in Nat
    BY <1>1
  <2>2. DOMAIN few = 1..Few(w) /\ few = [i \in DOMAIN few |-> few[i]]
    BY <1>5, Zenon
  <2>3. \A i \in 1..Few(w) : few[i] = [note |-> w + 1 - i, read |-> w + 1 - i \in R]
    BY <1>6, Zenon
  <2> HIDE DEF w
  <2>4. few = Shows(w, R)
    BY <2>1, <2>2, <2>3, ShowsLines, Zenon
  <2> QED BY <2>4 DEF w
<1> QED BY <1>7 DEF few, long, first

(* How many are unread.                                                       *)
LEMMA CountIs ==
  ASSUME NEW v \in Nat, NEW R, NEW n
  PROVE  /\ IsFiniteSet((1..v) \ R) /\ Cardinality((1..v) \ R) \in Nat
         /\ n \in (1..v) \ R => Cardinality((1..v) \ (R \cup {n})) = Cardinality((1..v) \ R) - 1
         /\ v + 1 \notin R => Cardinality((1..(v + 1)) \ R) = Cardinality((1..v) \ R) + 1
<1>1. IsFiniteSet((1..v) \ R) /\ Cardinality((1..v) \ R) \in Nat
  <2>1. IsFiniteSet(1..v)
    BY FS_Interval
  <2> QED BY <2>1, FS_Subset, FS_CardinalityType
<1>2. ASSUME n \in (1..v) \ R
      PROVE  Cardinality((1..v) \ (R \cup {n})) = Cardinality((1..v) \ R) - 1
  <2>1. (1..v) \ (R \cup {n}) = ((1..v) \ R) \ {n}
    OBVIOUS
  <2>2. Cardinality(((1..v) \ R) \ {n}) = Cardinality((1..v) \ R) - 1
    BY <1>1, <1>2, FS_RemoveElement
  <2> QED BY <2>1, <2>2
<1>3. ASSUME v + 1 \notin R
      PROVE  Cardinality((1..(v + 1)) \ R) = Cardinality((1..v) \ R) + 1
  <2>1. (1..(v + 1)) \ R = ((1..v) \ R) \cup {v + 1} /\ v + 1 \notin (1..v) \ R
    BY <1>3
  <2>2. Cardinality(((1..v) \ R) \cup {v + 1}) = Cardinality((1..v) \ R) + 1
    BY <1>1, <2>1, FS_AddElement
  <2> QED BY <2>1, <2>2
<1> QED BY <1>1, <1>2, <1>3

----------------------------------------------------------------------------
(* Steps that tell a tab nothing *)

LEMMA DisturbedClean ==
  ASSUME FetchTyped, NEW tabs, NEW q \in DOMAIN fetch,
         Disturbed(tabs)[q] # Done, Disturbed(tabs)[q].clean
  PROVE  Disturbed(tabs)[q] = fetch[q] /\ fetch[q] \in Request /\ fetch[q].tab \notin tabs
<1>1. fetch[q] \in Request \cup {Done}
  BY DEF FetchTyped
<1>2. Disturbed(tabs)[q] = IF fetch[q] # Done /\ fetch[q].tab \in tabs
                           THEN [fetch[q] EXCEPT !.clean = FALSE] ELSE fetch[q]
  BY DEF Disturbed
<1>3. CASE fetch[q] # Done /\ fetch[q].tab \in tabs
  <2>1. Disturbed(tabs)[q] = [fetch[q] EXCEPT !.clean = FALSE] /\ fetch[q] \in Request
    BY <1>1, <1>2, <1>3
  <2>2. ~[fetch[q] EXCEPT !.clean = FALSE].clean
    BY <2>1 DEF Request
  <2> QED BY <2>1, <2>2
<1>4. CASE ~(fetch[q] # Done /\ fetch[q].tab \in tabs)
  BY <1>1, <1>2, <1>4
<1> QED BY <1>3, <1>4

(* Every refresh is disturbed. *)
LEMMA AllDisturbed ==
  ASSUME FetchTyped, fetch' = Disturbed(Tab)
  PROVE  Refreshes'
<1> SUFFICES ASSUME NEW q \in DOMAIN fetch', fetch'[q] # Done, fetch'[q].clean
             PROVE  FALSE
  BY DEF Refreshes, Clean
<1>1. q \in DOMAIN fetch
  BY DEF Disturbed
<1>2. fetch[q] \in Request /\ fetch[q].tab \notin Tab
  BY <1>1, DisturbedClean
<1> QED BY <1>2 DEF Request

LEMMA CleanKept ==
  ASSUME NEW r, NEW tbl, NEW new, NEW tabs, NEW streams, NEW ms, Clean(r, tbl, new, tabs, streams, ms),
         NEW tabs2, NEW streams2, NEW ms2,
         Coming(tabs[r.tab], streams) = <<>> => Coming(tabs2[r.tab], streams2) = <<>>,
         \A m \in ms2 : m \in ms \/ m.tab # r.tab
  PROVE  Clean(r, tbl, new, tabs2, streams2, ms2)
BY DEF Clean

LEMMA FaithfulKept ==
  ASSUME NEW s, NEW r, NEW t, NEW tbl, NEW new, NEW coming, NEW ms,
         Faithful(s, t, tbl, new, coming, ms),
         r.exact => s.exact /\ r.items = s.items /\ r.count = s.count
  PROVE  Faithful(r, t, tbl, new, coming, ms)
BY DEF Faithful, Accurate

(* Streams come and go, but nothing changes about what is on its way to a tab  *)
(* that stays exact.                                                           *)
LEMMA QuietStep ==
  ASSUME IInv, FeedInv, UNCHANGED <<table, notifying, marks>>, Channels',
         \A t \in Tab :
           /\ tab'[t].exact =>
                /\ tab[t].exact /\ tab'[t].items = tab[t].items /\ tab'[t].count = tab[t].count
                /\ Coming(tab'[t], stream') = Coming(tab[t], stream)
           /\ Coming(tab[t], stream) = <<>> => Coming(tab'[t], stream') = <<>>,
         \A q \in DOMAIN fetch' :
           fetch'[q] # Done /\ fetch'[q].clean =>
             Clean(fetch'[q], table, notifying, tab, stream, marks) /\ fetch'[q].tab \in Tab
  PROVE  FeedInv'
<1>1. AskedInTime'
  BY DEF FeedInv, AskedInTime
<1>2. Screens'
  <2> SUFFICES ASSUME NEW t \in Tab
               PROVE  Faithful(tab'[t], t, table, notifying, Coming(tab'[t], stream'), marks)
    BY DEF Screens
  <2>1. Faithful(tab[t], t, table, notifying, Coming(tab[t], stream), marks)
    BY DEF FeedInv, Screens
  <2>2. Faithful(tab'[t], t, table, notifying, Coming(tab[t], stream), marks)
    BY <2>1, FaithfulKept
  <2>3. CASE tab'[t].exact
    <3>1. Coming(tab'[t], stream') = Coming(tab[t], stream)
      BY <2>3
    <3> QED BY <2>2, <3>1, Zenon
  <2>4. CASE ~tab'[t].exact
    BY <2>4 DEF Faithful
  <2> QED BY <2>3, <2>4
<1>3. Refreshes'
  <2> SUFFICES ASSUME NEW q \in DOMAIN fetch', fetch'[q] # Done, fetch'[q].clean
               PROVE  Clean(fetch'[q], table, notifying, tab', stream', marks)
    BY DEF Refreshes, Clean
  <2>1. Clean(fetch'[q], table, notifying, tab, stream, marks) /\ fetch'[q].tab \in Tab
    OBVIOUS
  <2>2. Coming(tab[fetch'[q].tab], stream) = <<>> => Coming(tab'[fetch'[q].tab], stream') = <<>>
    BY <2>1
  <2> QED BY <2>1, <2>2, CleanKept
<1> QED BY <1>1, <1>2, <1>3 DEF FeedInv

(* The refreshes that were there are what they were. *)
LEMMA SameRefreshes ==
  ASSUME IInv, FeedInv, UNCHANGED fetch \/ (\E t \in Tab : Refresh(t))
  PROVE  \A q \in DOMAIN fetch' :
           fetch'[q] # Done /\ fetch'[q].clean =>
             Clean(fetch'[q], table, notifying, tab, stream, marks) /\ fetch'[q].tab \in Tab
<1>1. \A q \in DOMAIN fetch : fetch[q] \in Request \cup {Done}
  BY DEF IInv, Typed, FetchTyped
<1>2. ASSUME NEW q \in DOMAIN fetch, fetch[q] # Done
      PROVE  Clean(fetch[q], table, notifying, tab, stream, marks) /\ fetch[q].tab \in Tab
  BY <1>1, <1>2 DEF FeedInv, Refreshes, Request
<1>3. CASE UNCHANGED fetch
  BY <1>2, <1>3
<1>4. CASE \E t \in Tab : Refresh(t)
  <2>1. PICK t \in Tab : fetch' = Append(fetch, [step |-> "list", tab |-> t, items |-> <<>>,
                                                 count |-> 0, clean |-> FALSE])
    BY <1>4 DEF Refresh
  <2>2. fetch \in Seq(Request \cup {Done})
    BY DEF IInv, Typed, FetchTyped
  <2>3. ASSUME NEW q \in DOMAIN fetch', fetch'[q] # Done, fetch'[q].clean
        PROVE  q \in DOMAIN fetch /\ fetch'[q] = fetch[q]
    <3> DEFINE r == [step |-> "list", tab |-> t, items |-> <<>>, count |-> 0, clean |-> FALSE]
    <3>1. ~r.clean
      OBVIOUS
    <3>0. r \in Request \cup {Done}
      <4>1. <<>> \in Seq(Item)
        OBVIOUS
      <4> QED BY <4>1 DEF Request
    <3>2. fetch' = Append(fetch, r)
      BY <2>1
    <3> HIDE DEF r
    <3>3. q \in 1..(Len(fetch) + 1) /\ Len(fetch) \in Nat /\ DOMAIN fetch = 1..Len(fetch)
      BY <2>2, <3>2
    <3>4. q = Len(fetch) + 1 => fetch'[q] = r
      BY <2>2, <3>2
    <3>5. q # Len(fetch) + 1 => q \in DOMAIN fetch /\ fetch'[q] = fetch[q]
      <4>1. /\ fetch' \in Seq(Request \cup {Done}) /\ Len(fetch') = Len(fetch) + 1
            /\ \A i \in 1..Len(fetch) : fetch'[i] = fetch[i]
        BY <2>2, <3>0, <3>2
      <4> QED BY <3>3, <4>1
    <3> QED BY <2>3, <3>1, <3>4, <3>5
  <2> QED BY <1>2, <2>3
<1> QED BY <1>3, <1>4

LEMMA InitFeed == Init => FeedInv
<1> SUFFICES ASSUME Init PROVE FeedInv
  OBVIOUS
<1>1. Channels /\ AskedInTime /\ Refreshes
  BY DEF Init, Channels, AskedInTime, Refreshes
<1>2. Screens
  <2>1. \A t \in Tab : ~tab[t].exact
    BY DEF Init, Blank
  <2> QED BY <2>1 DEF Screens, Faithful
<1> QED BY <1>1, <1>2 DEF FeedInv

LEMMA ConnectFeed ==
  ASSUME IInv, FeedInv, NEW t \in Tab, Connect(t)
  PROVE  FeedInv'
<1> DEFINE k == Len(stream) + 1
           s == [ticket |-> TRUE, tab |-> t, taken |-> 0, subscribed |-> FALSE, ended |-> FALSE,
                 events |-> <<>>]
<1>1. s.events = <<>> /\ ~s.ended
  OBVIOUS
<1>2. stream \in Seq(Stream) /\ DOMAIN stream = 1..Len(stream) /\ Len(stream) \in Nat
  BY StreamsAreStreams DEF IInv, Typed, StreamTyped
<1>3. /\ stream' = Append(stream, s) /\ k \in Nat \ {0} /\ tab[t].stream = NoStream
      /\ tab' = [tab EXCEPT ![t].stream = k] /\ UNCHANGED <<table, notifying, fetch, marks>>
  BY <1>2 DEF Connect, Ticket
<1> HIDE DEF s
<1>4. /\ DOMAIN stream' = DOMAIN stream \cup {k} /\ k \notin DOMAIN stream /\ stream'[k] = s
      /\ \A l \in DOMAIN stream : stream'[l] = stream[l]
  BY <1>2, <1>3
<1>5. tab \in [Tab -> Screen] /\ \A u \in Tab : tab[u].stream \in DOMAIN stream \cup {NoStream}
  BY DEF IInv, Typed, TabTyped
<1>6. /\ tab'[t].stream = k /\ tab'[t].exact = tab[t].exact /\ tab'[t].items = tab[t].items
      /\ tab'[t].count = tab[t].count /\ \A u \in Tab \ {t} : tab'[u] = tab[u]
  BY <1>3, <1>5 DEF Screen
<1>7. k # NoStream
  BY <1>3 DEF NoStream
<1> HIDE DEF k
<1>8. \A u \in Tab : Coming(tab'[u], stream') = Coming(tab[u], stream)
  BY <1>1, <1>3, <1>4, <1>5, <1>6, <1>7 DEF Coming
<1>9. Channels'
  BY <1>1, <1>4, <1>5, <1>6, <1>7 DEF FeedInv, Channels, NoStream
<1>10. \A u \in Tab : tab'[u].exact = tab[u].exact /\ tab'[u].items = tab[u].items
                      /\ tab'[u].count = tab[u].count
  BY <1>6
<1>11. \A q \in DOMAIN fetch' :
           fetch'[q] # Done /\ fetch'[q].clean =>
             Clean(fetch'[q], table, notifying, tab, stream, marks) /\ fetch'[q].tab \in Tab
  BY <1>3, SameRefreshes
<1> QED BY <1>3, <1>8, <1>9, <1>10, <1>11, QuietStep

LEMMA TicketExpiresFeed ==
  ASSUME IInv, FeedInv, NEW k \in DOMAIN stream, TicketExpires(k)
  PROVE  FeedInv'
<1>1. stream[k] \in Stream
  BY StreamsAreStreams DEF IInv
<1>2. stream' = [stream EXCEPT ![k].ticket = FALSE] /\ UNCHANGED <<table, notifying, tab, fetch, marks>>
  BY DEF TicketExpires
<1>3. DOMAIN stream' = DOMAIN stream
      /\ \A l \in DOMAIN stream : /\ stream'[l].events = stream[l].events
                                  /\ stream'[l].subscribed = stream[l].subscribed
                                  /\ stream'[l].ended = stream[l].ended
  BY <1>1, <1>2 DEF Stream
<1>4. \A u \in Tab : Coming(tab'[u], stream') = Coming(tab[u], stream)
  BY <1>2, <1>3 DEF Coming, IInv, Typed, TabTyped
<1>5. Channels'
  BY <1>2, <1>3 DEF FeedInv, Channels
<1> QED BY <1>2, <1>4, <1>5, SameRefreshes, QuietStep

LEMMA TakeStreamTicketFeed ==
  ASSUME IInv, FeedInv, NEW k \in DOMAIN stream, TakeStreamTicket(k)
  PROVE  FeedInv'
<1>1. stream[k] \in Stream /\ k # NoStream /\ stream[k].tab \in Tab
  BY StreamsAreStreams DEF IInv
<1>2. UNCHANGED <<table, notifying, fetch, marks>>
  BY DEF TakeStreamTicket
<1>3. CASE stream[k].ticket
  <2> DEFINE gone == (tab[stream[k].tab].stream # k)
  <2>1. /\ stream' = [stream EXCEPT ![k].ticket = FALSE, ![k].taken = @ + 1, ![k].subscribed = TRUE,
                                    ![k].ended = gone]
        /\ UNCHANGED tab
    BY <1>3 DEF TakeStreamTicket
  <2>2. gone => \A t \in Tab : tab[t].stream # k
    BY <1>1 DEF IInv, Hub, TabsHoldTheirOwn
  <2>3. gone \in BOOLEAN
    OBVIOUS
  <2> HIDE DEF gone
  <2>4. stream'[k] = [ticket |-> FALSE, tab |-> stream[k].tab, taken |-> stream[k].taken + 1,
                      subscribed |-> TRUE, ended |-> gone, events |-> stream[k].events]
    <3>1. stream'[k] = [stream[k] EXCEPT !.ticket = FALSE, !.taken = stream[k].taken + 1,
                                         !.subscribed = TRUE, !.ended = gone]
      BY <2>1
    <3>2. stream[k].taken + 1 \in Nat
      BY <1>1 DEF Stream
    <3> QED BY <1>1, <2>3, <3>1, <3>2, TakenStream, Zenon
  <2>5. /\ DOMAIN stream' = DOMAIN stream /\ stream'[k].events = stream[k].events
        /\ stream'[k].subscribed /\ \A l \in DOMAIN stream : l # k => stream'[l] = stream[l]
    BY <2>1, <2>4
  <2>6. stream'[k].ended = gone
    BY <2>3, <2>4
  <2>7. \A u \in Tab : Coming(tab'[u], stream') = Coming(tab[u], stream)
    BY <2>1, <2>5 DEF Coming, IInv, Typed, TabTyped
  <2>8. Channels'
    BY <2>1, <2>2, <2>5, <2>6 DEF FeedInv, Channels
  <2> QED BY <1>2, <2>1, <2>7, <2>8, SameRefreshes, QuietStep
<1>4. CASE ~stream[k].ticket
  <2>1. /\ stream' = [stream EXCEPT ![k].ticket = FALSE]
        /\ tab' = IF stream[k].taken > 0 THEN tab ELSE Closed(k)
    BY <1>4 DEF TakeStreamTicket
  <2>2. DOMAIN stream' = DOMAIN stream
        /\ \A l \in DOMAIN stream : /\ stream'[l].events = stream[l].events
                                    /\ stream'[l].subscribed = stream[l].subscribed
                                    /\ stream'[l].ended = stream[l].ended
    BY <1>1, <2>1 DEF Stream
  <2>3. ~(stream[k].taken > 0) => stream[k].events = <<>>
    BY DEF IInv, Hub, ChannelsAreHeld, FeedInv, Channels
  <2>4. tab \in [Tab -> Screen] /\ \A u \in Tab : tab[u].stream \in DOMAIN stream \cup {NoStream}
    BY DEF IInv, Typed, TabTyped
  <2>5. ASSUME NEW u \in Tab
        PROVE  /\ tab'[u].exact = tab[u].exact /\ tab'[u].items = tab[u].items
               /\ tab'[u].count = tab[u].count
               /\ tab'[u].stream = tab[u].stream
                  \/ (tab[u].stream = k /\ tab'[u].stream = NoStream /\ stream[k].events = <<>>)
    BY <2>1, <2>3, <2>4 DEF Closed, Screen
  <2>6. \A u \in Tab : Coming(tab'[u], stream') = Coming(tab[u], stream)
    BY <1>1, <2>2, <2>4, <2>5 DEF Coming
  <2>7. Channels'
    BY <1>1, <2>2, <2>5, StreamsAreStreams DEF FeedInv, Channels, IInv
  <2> QED BY <1>2, <2>5, <2>6, <2>7, SameRefreshes, QuietStep
<1> QED BY <1>3, <1>4

LEMMA EndedFeed ==
  ASSUME IInv, NEW k \in DOMAIN stream
  PROVE  /\ DOMAIN Ended(k) = DOMAIN stream /\ Ended(k)[k].ended
         /\ \A l \in DOMAIN stream : /\ Ended(k)[l].events = stream[l].events
                                     /\ Ended(k)[l].subscribed = stream[l].subscribed
                                     /\ l # k => Ended(k)[l].ended = stream[l].ended
<1>1. stream[k] \in Stream
  BY StreamsAreStreams DEF IInv
<1> QED BY <1>1 DEF Ended, Stream

LEMMA DisconnectFeed ==
  ASSUME IInv, FeedInv, NEW k \in DOMAIN stream, Disconnect(k)
  PROVE  FeedInv'
<1>1. stream' = Ended(k) /\ UNCHANGED <<table, notifying, fetch, marks>>
  BY DEF Disconnect
<1>2. tab \in [Tab -> Screen] /\ \A u \in Tab : tab[u].stream \in DOMAIN stream \cup {NoStream}
  BY DEF IInv, Typed, TabTyped
<1>3. k # NoStream
  BY StreamsAreStreams DEF IInv
<1>4. ASSUME NEW t \in Tab
      PROVE  /\ tab'[t].items = tab[t].items /\ tab'[t].count = tab[t].count
             /\ tab'[t].stream = IF tab[t].stream = k THEN NoStream ELSE tab[t].stream
             /\ tab'[t].exact => tab[t].exact /\ Told(t)
  <2> DEFINE c == Closed(k)[t]
             b == c.exact /\ Told(t)
  <2>1. c \in Screen /\ c.items = tab[t].items /\ c.count = tab[t].count /\ c.exact = tab[t].exact
        /\ c.stream = IF tab[t].stream = k THEN NoStream ELSE tab[t].stream
    BY <1>2 DEF Closed, Screen
  <2>2. tab'[t] = [c EXCEPT !.exact = b] /\ b \in BOOLEAN
    BY DEF Disconnect
  <2>3. b => tab[t].exact /\ Told(t)
    BY <2>1
  <2> HIDE DEF c, b
  <2>4. /\ tab'[t].exact = b /\ tab'[t].items = c.items /\ tab'[t].count = c.count
        /\ tab'[t].stream = c.stream
    BY <2>1, <2>2 DEF Screen
  <2> QED BY <2>1, <2>3, <2>4
<1>5. ASSUME NEW t \in Tab
      PROVE  /\ tab'[t].exact => Coming(tab'[t], stream') = Coming(tab[t], stream)
             /\ Coming(tab[t], stream) = <<>> => Coming(tab'[t], stream') = <<>>
  <2>1. CASE tab[t].stream = k
    <3>1. Coming(tab'[t], stream') = <<>>
      BY <1>4, <2>1 DEF Coming
    <3>2. tab'[t].exact => Coming(tab[t], stream) = <<>>
      BY <1>4, <2>1 DEF Told, Coming
    <3> QED BY <3>1, <3>2
  <2>2. CASE tab[t].stream # k
    <3>1. tab'[t].stream = tab[t].stream
      BY <1>4, <2>2
    <3>2. Coming(tab'[t], stream') = Coming(tab[t], stream)
      BY <1>1, <1>2, <3>1, EndedFeed DEF Coming
    <3> QED BY <3>2
  <2> QED BY <2>1, <2>2
<1>6. Channels'
  <2>1. \A t \in Tab : tab'[t].stream # k /\ tab'[t].stream \in {NoStream, tab[t].stream}
    BY <1>3, <1>4
  <2>2. \A l \in DOMAIN stream : l # NoStream
    BY StreamsAreStreams DEF IInv
  <2>3. /\ DOMAIN stream' = DOMAIN stream
        /\ \A l \in DOMAIN stream : /\ stream'[l].events = stream[l].events
                                    /\ stream'[l].subscribed = stream[l].subscribed
                                    /\ l # k => stream'[l].ended = stream[l].ended
    BY <1>1, EndedFeed
  <2>4. ASSUME NEW l \in DOMAIN stream, stream'[l].ended, NEW t \in Tab
        PROVE  tab'[t].stream # l
    <3>1. CASE l = k
      BY <2>1, <3>1
    <3>2. CASE l # k
      BY <2>1, <2>2, <2>3, <2>4, <3>2 DEF FeedInv, Channels
    <3> QED BY <3>1, <3>2
  <2> QED BY <2>3, <2>4 DEF FeedInv, Channels
<1> QED BY <1>1, <1>4, <1>5, <1>6, SameRefreshes, QuietStep

LEMMA UnsubscribeFeed ==
  ASSUME IInv, FeedInv, NEW k \in DOMAIN stream, Unsubscribe(k)
  PROVE  FeedInv'
<1>1. /\ stream' = [stream EXCEPT ![k].subscribed = FALSE, ![k].events = <<>>]
      /\ UNCHANGED <<table, notifying, tab, fetch, marks>> /\ stream[k].ended
  BY DEF Unsubscribe
<1>2. stream[k] \in Stream /\ \A t \in Tab : tab[t].stream # k
  BY <1>1, StreamsAreStreams DEF IInv, FeedInv, Channels
<1>3. DOMAIN stream' = DOMAIN stream /\ stream'[k].events = <<>> /\ stream'[k].ended
      /\ \A l \in DOMAIN stream : l # k => stream'[l] = stream[l]
  BY <1>1, <1>2 DEF Stream
<1>4. \A u \in Tab : Coming(tab'[u], stream') = Coming(tab[u], stream)
  BY <1>1, <1>2, <1>3 DEF Coming, IInv, Typed, TabTyped
<1>5. Channels'
  BY <1>1, <1>2, <1>3 DEF FeedInv, Channels
<1> QED BY <1>1, <1>4, <1>5, SameRefreshes, QuietStep

LEMMA SignInFeed ==
  ASSUME IInv, FeedInv, NEW t \in Tab, SignIn(t)
  PROVE  FeedInv'
<1>1. /\ tab' = [tab EXCEPT ![t].session = TRUE] /\ UNCHANGED <<table, notifying, stream, marks>>
      /\ Refresh(t) \/ UNCHANGED fetch
  BY DEF SignIn
<1>2. tab \in [Tab -> Screen]
  BY DEF IInv, Typed, TabTyped
<1>3. \A u \in Tab : /\ tab'[u].stream = tab[u].stream /\ tab'[u].exact = tab[u].exact
                     /\ tab'[u].items = tab[u].items /\ tab'[u].count = tab[u].count
  BY <1>1, <1>2 DEF Screen
<1>4. \A u \in Tab : Coming(tab'[u], stream') = Coming(tab[u], stream)
  BY <1>1, <1>3 DEF Coming
<1>5. Channels'
  BY <1>1, <1>3 DEF FeedInv, Channels
<1>6. UNCHANGED fetch \/ \E u \in Tab : Refresh(u)
  BY <1>1
<1> QED BY <1>1, <1>3, <1>4, <1>5, <1>6, SameRefreshes, QuietStep

LEMMA SignOutFeed ==
  ASSUME IInv, FeedInv, NEW t \in Tab, SignOut(t)
  PROVE  FeedInv'
<1> DEFINE k == tab[t].stream
<1>1. /\ tab' = [tab EXCEPT ![t] = Blank] /\ fetch' = Disturbed({t})
      /\ stream' = IF k = NoStream THEN stream ELSE Ended(k)
      /\ UNCHANGED <<table, notifying, marks>>
  BY DEF SignOut
<1>2. tab \in [Tab -> Screen] /\ \A u \in Tab : tab[u].stream \in DOMAIN stream \cup {NoStream}
  BY DEF IInv, Typed, TabTyped
<1>3. tab'[t] = Blank /\ \A u \in Tab \ {t} : tab'[u] = tab[u]
  BY <1>1, <1>2
<1>4. Blank.stream = NoStream /\ ~Blank.exact
  BY DEF Blank
<1>5. k # NoStream => k \in DOMAIN stream
  BY <1>2
<1>6. k # NoStream => \A u \in Tab \ {t} : tab[u].stream # k
  BY DEF IInv, Hub, TabsHoldTheirOwn
<1> HIDE DEF k
<1>7. /\ DOMAIN stream' = DOMAIN stream
      /\ \A l \in DOMAIN stream : /\ stream'[l].events = stream[l].events
                                  /\ stream'[l].subscribed = stream[l].subscribed
                                  /\ l # k => stream'[l].ended = stream[l].ended
  BY <1>1, <1>5, EndedFeed
<1>8. \A u \in Tab \ {t} : Coming(tab'[u], stream') = Coming(tab[u], stream)
  BY <1>2, <1>3, <1>7 DEF Coming
<1>9. Coming(tab'[t], stream') = <<>>
  BY <1>3, <1>4 DEF Coming
<1>10. Channels'
  <2> SUFFICES ASSUME NEW l \in DOMAIN stream
               PROVE  /\ stream'[l].events # <<>> => stream'[l].subscribed
                      /\ stream'[l].ended => \A u \in Tab : tab'[u].stream # l
    BY <1>7 DEF Channels
  <2>1. l # NoStream
    BY StreamsAreStreams DEF IInv
  <2>2. CASE l = k
    BY <1>3, <1>4, <1>6, <1>7, <2>1, <2>2 DEF FeedInv, Channels
  <2>3. CASE l # k
    BY <1>3, <1>4, <1>7, <2>1, <2>3 DEF FeedInv, Channels
  <2> QED BY <2>2, <2>3
<1>11. \A q \in DOMAIN fetch' :
         fetch'[q] # Done /\ fetch'[q].clean =>
           Clean(fetch'[q], table, notifying, tab, stream, marks) /\ fetch'[q].tab \in Tab
  <2> SUFFICES ASSUME NEW q \in DOMAIN fetch', fetch'[q] # Done, fetch'[q].clean
               PROVE  Clean(fetch'[q], table, notifying, tab, stream, marks) /\ fetch'[q].tab \in Tab
    OBVIOUS
  <2>1. q \in DOMAIN fetch
    BY <1>1 DEF Disturbed
  <2>2. fetch'[q] = fetch[q] /\ fetch[q] \in Request
    BY <1>1, <2>1, DisturbedClean DEF IInv, Typed
  <2> QED BY <2>1, <2>2 DEF FeedInv, Refreshes, Request
<1>12. \A u \in Tab :
         /\ tab'[u].exact =>
              /\ tab[u].exact /\ tab'[u].items = tab[u].items /\ tab'[u].count = tab[u].count
              /\ Coming(tab'[u], stream') = Coming(tab[u], stream)
         /\ Coming(tab[u], stream) = <<>> => Coming(tab'[u], stream') = <<>>
  <2> SUFFICES ASSUME NEW u \in Tab
               PROVE  /\ tab'[u].exact =>
                           /\ tab[u].exact /\ tab'[u].items = tab[u].items /\ tab'[u].count = tab[u].count
                           /\ Coming(tab'[u], stream') = Coming(tab[u], stream)
                      /\ Coming(tab[u], stream) = <<>> => Coming(tab'[u], stream') = <<>>
    OBVIOUS
  <2>1. CASE u = t
    BY <1>3, <1>4, <1>9, <2>1
  <2>2. CASE u # t
    BY <1>3, <1>8, <2>2
  <2> QED BY <2>1, <2>2
<1> QED BY <1>1, <1>10, <1>11, <1>12, QuietStep

LEMMA FocusFeed ==
  ASSUME IInv, FeedInv, NEW t \in Tab, Focus(t)
  PROVE  FeedInv'
<1>1. UNCHANGED <<table, notifying, stream, tab, marks>> /\ Refresh(t)
  BY DEF Focus
<1>2. Channels'
  BY <1>1 DEF FeedInv, Channels
<1> QED BY <1>1, <1>2, SameRefreshes, QuietStep

(* A step of one refresh that reads. *)
LEMMA ReadStep ==
  ASSUME IInv, FeedInv, UNCHANGED <<table, notifying, stream, tab, marks>>,
         NEW q \in DOMAIN fetch, NEW r \in Request, fetch' = [fetch EXCEPT ![q] = r],
         Clean(r, table, notifying, tab, stream, marks)
  PROVE  FeedInv'
<1>1. Channels'
  BY DEF FeedInv, Channels
<1>2. \A p \in DOMAIN fetch' :
        fetch'[p] # Done /\ fetch'[p].clean =>
          Clean(fetch'[p], table, notifying, tab, stream, marks) /\ fetch'[p].tab \in Tab
  <2> SUFFICES ASSUME NEW p \in DOMAIN fetch, fetch'[p] # Done
               PROVE  Clean(fetch'[p], table, notifying, tab, stream, marks) /\ fetch'[p].tab \in Tab
    OBVIOUS
  <2>1. CASE p = q
    BY <2>1 DEF Request
  <2>2. CASE p # q
    <3>1. fetch'[p] = fetch[p]
      BY <2>2
    <3>2. fetch[p] \in Request \cup {Done}
      BY DEF IInv, Typed, FetchTyped
    <3>3. fetch[p].tab \in Tab
      BY <3>1, <3>2 DEF Request
    <3> QED BY <3>1, <3>3 DEF FeedInv, Refreshes
  <2> QED BY <2>1, <2>2
<1> QED BY <1>1, <1>2, QuietStep

LEMMA ReadListFeed ==
  ASSUME IInv, FeedInv, NEW q \in DOMAIN fetch, ReadList(q)
  PROVE  FeedInv'
<1> DEFINE clean == (notifying = {} /\ marks = {} /\ Told(fetch[q].tab))
           r == [fetch[q] EXCEPT !.step = "count", !.items = Listed, !.clean = clean]
<1>1. fetch[q] \in Request
  BY RequestUnderWay DEF ReadList, IInv, Typed
<1>2. Listed \in Seq(Item) /\ clean \in BOOLEAN
  BY ListedTypes DEF IInv, Typed
<1>3. fetch' = [fetch EXCEPT ![q] = r] /\ UNCHANGED <<table, notifying, stream, tab, marks>>
  BY DEF ReadList
<1>4. clean => notifying = {} /\ marks = {} /\ Coming(tab[fetch[q].tab], stream) = <<>>
  BY DEF Told, Coming
<1> HIDE DEF clean
<1>5. r \in Request /\ r.items = Listed /\ r.step = "count" /\ r.tab = fetch[q].tab
  BY <1>1, <1>2 DEF Request
<1>6. r.clean => clean
  BY <1>1, <1>2 DEF Request
<1> HIDE DEF r
<1>7. Listed = Shows(Len(table), {n \in DOMAIN table : table[n]})
  BY ListedIs DEF IInv, Typed
<1>8. Clean(r, table, notifying, tab, stream, marks)
  BY <1>4, <1>5, <1>6, <1>7 DEF Clean
<1> QED BY <1>3, <1>5, <1>8, ReadStep

LEMMA ReadCountFeed ==
  ASSUME IInv, FeedInv, NEW q \in DOMAIN fetch, ReadCount(q)
  PROVE  FeedInv'
<1> DEFINE c == Cardinality(Unread)
           r == [fetch[q] EXCEPT !.step = "answer", !.count = c]
<1>1. fetch[q] \in Request
  BY RequestUnderWay DEF ReadCount, IInv, Typed
<1>2. c \in Nat
  <2>1. Unread \subseteq 1..Len(table) /\ Len(table) \in Nat
    BY DEF Unread, IInv, Typed, TableTyped
  <2>2. IsFiniteSet(1..Len(table))
    BY <2>1, FS_Interval
  <2> QED BY <2>1, <2>2, FS_Subset, FS_CardinalityType
<1>3. fetch' = [fetch EXCEPT ![q] = r] /\ UNCHANGED <<table, notifying, stream, tab, marks>>
  BY DEF ReadCount
<1>4. c = Cardinality({n \in DOMAIN table : ~table[n]})
  BY DEF Unread
<1> HIDE DEF c
<1>5. /\ r \in Request /\ r.items = fetch[q].items /\ r.step = "answer" /\ r.count = c
      /\ r.tab = fetch[q].tab /\ r.clean = fetch[q].clean
  BY <1>1, <1>2 DEF Request
<1> HIDE DEF r
<1>6. fetch[q] # Done
  BY <1>1 DEF Request, Done
<1>7. Clean(fetch[q], table, notifying, tab, stream, marks)
  BY DEF FeedInv, Refreshes
<1>8. Clean(r, table, notifying, tab, stream, marks)
  BY <1>4, <1>5, <1>6, <1>7 DEF Clean
<1> QED BY <1>3, <1>5, <1>8, ReadStep

----------------------------------------------------------------------------
(* Steps that tell a tab something *)

LEMMA ComingTypes ==
  ASSUME IInv, NEW t \in Tab
  PROVE  Coming(tab[t], stream) \in Seq(Note)
<1>1. CASE tab[t].stream = NoStream
  BY <1>1 DEF Coming
<1>2. CASE tab[t].stream # NoStream
  <2>1. tab[t].stream \in DOMAIN stream
    BY <1>2 DEF IInv, Typed, TabTyped
  <2>2. stream[tab[t].stream] \in Stream
    BY <2>1, StreamsAreStreams DEF IInv
  <2> QED BY <1>2, <2>2 DEF Coming, Stream
<1> QED BY <1>1, <1>2

LEMMA AskedIs ==
  ASSUME NEW n, NEW t, NEW ms, NEW m
  PROVE  /\ Asked(n, t, ms \cup {m}) <=>
              Asked(n, t, ms) \/ (m.tab = t /\ (m.note = n \/ (m.note = 0 /\ n <= m.upto)))
         /\ m \in ms => (Asked(n, t, ms) <=>
              Asked(n, t, ms \ {m}) \/ (m.tab = t /\ (m.note = n \/ (m.note = 0 /\ n <= m.upto))))
BY DEF Asked

LEMMA InsertFaithful ==
  ASSUME NEW s, NEW t, NEW tbl \in Seq(BOOLEAN), NEW new, NEW coming \in Seq(Note), NEW ms \in SUBSET Mark,
         \A m \in ms : m.upto <= Len(tbl), Faithful(s, t, tbl, new, coming, ms)
  PROVE  Faithful(s, t, Append(tbl, FALSE), new \cup {Len(tbl) + 1}, coming, ms)
<1> DEFINE tbl2 == Append(tbl, FALSE)
           new2 == new \cup {Len(tbl) + 1}
<1>1. /\ Len(tbl) \in Nat /\ DOMAIN tbl = 1..Len(tbl) /\ Len(tbl2) = Len(tbl) + 1
      /\ tbl2[Len(tbl) + 1] = FALSE /\ \A n \in 1..Len(tbl) : tbl2[n] = tbl[n]
      /\ Len(coming) \in Nat
  OBVIOUS
<1> HIDE DEF tbl2
<1> SUFFICES ASSUME s.exact, ~Doomed(t, ms, Len(tbl2))
             PROVE  \E v \in 0..Len(tbl2) : Accurate(v, s, t, tbl2, new2, coming, ms)
  BY DEF Faithful, tbl2
<1>2. \A m \in ms : m.tab = t /\ m.note # 0
  <2> SUFFICES ASSUME NEW m \in ms
               PROVE  m.tab = t /\ m.note # 0
    OBVIOUS
  <2>1. m.upto <= Len(tbl) /\ m.upto \in Nat
    BY FeedAssumption DEF Mark
  <2>2. m.upto # Len(tbl2)
    BY <1>1, <2>1
  <2> QED BY <2>2 DEF Doomed
<1>3. PICK v \in 0..Len(tbl) : Accurate(v, s, t, tbl, new, coming, ms)
  <2>1. ~Doomed(t, ms, Len(tbl))
    BY <1>2 DEF Doomed
  <2> QED BY <2>1 DEF Faithful
<1>4. /\ v \in Nat /\ v <= Len(tbl) /\ v + Len(coming) <= Len(tbl)
      /\ new = (v + Len(coming) + 1)..Len(tbl) /\ \A n \in (v + 1)..Len(tbl) : ~tbl[n]
  <2>1. v \in Nat /\ v <= Len(tbl)
    BY <1>1
  <2>2. /\ v + Len(coming) <= Len(tbl) /\ new = (v + Len(coming) + 1)..Len(tbl)
        /\ \A n \in (v + 1)..Len(tbl) : ~tbl[n]
    BY <1>3, Zenon DEF Accurate
  <2> QED BY <2>1, <2>2
<1>5. /\ v \in 0..Len(tbl2) /\ v + Len(coming) <= Len(tbl2)
      /\ new2 = (v + Len(coming) + 1)..Len(tbl2)
  BY <1>1, <1>4
<1>6. \A n \in (v + 1)..Len(tbl2) : ~tbl2[n]
  <2> SUFFICES ASSUME NEW n \in (v + 1)..Len(tbl2)
               PROVE  ~tbl2[n]
    OBVIOUS
  <2>1. CASE n = Len(tbl) + 1
    BY <1>1, <2>1
  <2>2. CASE n # Len(tbl) + 1
    <3>1. n \in (v + 1)..Len(tbl) /\ n \in 1..Len(tbl)
      BY <1>1, <1>4, <2>2
    <3> QED BY <1>1, <1>4, <3>1
  <2> QED BY <2>1, <2>2
<1>7. ReadBy(v, t, tbl2, ms) = ReadBy(v, t, tbl, ms)
  BY <1>1 DEF ReadBy
<1> HIDE DEF new2
<1>8. Accurate(v, s, t, tbl2, new2, coming, ms)
  BY <1>2, <1>3, <1>5, <1>6, <1>7 DEF Accurate
<1> QED BY <1>5, <1>8

LEMMA InsertNotificationFeed ==
  ASSUME IInv, FeedInv, NEW here \in BOOLEAN, InsertNotification(here)
  PROVE  FeedInv'
<1>1. /\ table' = Append(table, FALSE) /\ fetch' = Disturbed(Tab) /\ UNCHANGED <<stream, marks>>
      /\ notifying' = IF here THEN notifying \cup {Len(table) + 1} ELSE notifying
      /\ tab' = IF here THEN tab ELSE Inexact(Tab)
  BY DEF InsertNotification
<1>2. table \in Seq(BOOLEAN) /\ Len(table) \in Nat /\ Len(table') = Len(table) + 1 /\ marks \in SUBSET Mark
  BY <1>1 DEF IInv, Typed, TableTyped, MarksTyped
<1>3. \A t \in Tab : tab'[t].stream = tab[t].stream
  <2>1. tab \in [Tab -> Screen]
    BY DEF IInv, Typed, TabTyped
  <2> QED BY <1>1, <2>1, InexactTypes
<1>4. Channels'
  BY <1>1, <1>3 DEF FeedInv, Channels
<1>5. AskedInTime'
  <2> SUFFICES ASSUME NEW m \in marks
               PROVE  m.upto <= Len(table')
    BY <1>1 DEF AskedInTime
  <2>1. m.upto <= Len(table) /\ m.upto \in Nat
    BY <1>2, FeedAssumption DEF FeedInv, AskedInTime, Mark
  <2> QED BY <1>2, <2>1
<1>6. Refreshes'
  BY <1>1, AllDisturbed DEF IInv, Typed
<1>7. Screens'
  <2> SUFFICES ASSUME NEW t \in Tab
               PROVE  Faithful(tab'[t], t, table', notifying', Coming(tab'[t], stream'), marks')
    BY DEF Screens
  <2>1. CASE here
    <3> DEFINE coming == Coming(tab[t], stream)
    <3>1. coming \in Seq(Note) /\ Faithful(tab[t], t, table, notifying, coming, marks)
      BY ComingTypes DEF FeedInv, Screens
    <3>2. \A m \in marks : m.upto <= Len(table)
      BY DEF FeedInv, AskedInTime
    <3> HIDE DEF coming
    <3>3. Faithful(tab[t], t, Append(table, FALSE), notifying \cup {Len(table) + 1}, coming, marks)
      BY <1>2, <3>1, <3>2, InsertFaithful
    <3> QED BY <1>1, <2>1, <3>3, Zenon DEF coming
  <2>2. CASE ~here
    <3>1. ~tab'[t].exact
      BY <1>1, <2>2 DEF Inexact, IInv, Typed, TabTyped, Screen
    <3> QED BY <3>1 DEF Faithful
  <2> QED BY <2>1, <2>2
<1> QED BY <1>4, <1>5, <1>6, <1>7 DEF FeedInv

LEMMA BroadcastFaithful ==
  ASSUME NEW s, NEW t, NEW tbl \in Seq(BOOLEAN), NEW new, NEW coming \in Seq(Note), NEW ms,
         NEW n \in new, n \in Note, \A m \in new : ~(m < n), Faithful(s, t, tbl, new, coming, ms)
  PROVE  Faithful(s, t, tbl, new \ {n}, Append(coming, n), ms)
<1> SUFFICES ASSUME s.exact, ~Doomed(t, ms, Len(tbl))
             PROVE  \E v \in 0..Len(tbl) : Accurate(v, s, t, tbl, new \ {n}, Append(coming, n), ms)
  BY DEF Faithful
<1>1. PICK v \in 0..Len(tbl) : Accurate(v, s, t, tbl, new, coming, ms)
  BY DEF Faithful
<1> DEFINE more == Append(coming, n)
           L == Len(coming)
<1>2. /\ Len(tbl) \in Nat /\ L \in Nat /\ Len(more) = L + 1 /\ more[L + 1] = n
      /\ \A i \in 1..L : more[i] = coming[i]
  OBVIOUS
<1>3. new = (v + L + 1)..Len(tbl) /\ v \in Nat /\ n \in Nat
  BY <1>1, <1>2 DEF Accurate, Note
<1>4. n = v + L + 1
  <2>1. n >= v + L + 1 /\ v + L + 1 \in new
    BY <1>2, <1>3
  <2> QED BY <1>2, <1>3, <2>1
<1> HIDE DEF more
<1>5. v + Len(more) <= Len(tbl)
  BY <1>2, <1>3, <1>4
<1>6. \A i \in 1..Len(more) : more[i] = v + i
  <2> SUFFICES ASSUME NEW i \in 1..Len(more)
               PROVE  more[i] = v + i
    OBVIOUS
  <2>1. CASE i = L + 1
    BY <1>2, <1>3, <1>4, <2>1
  <2>2. CASE i # L + 1
    BY <1>1, <1>2, <2>2 DEF Accurate
  <2> QED BY <2>1, <2>2
<1>7. new \ {n} = (v + Len(more) + 1)..Len(tbl)
  BY <1>2, <1>3, <1>4
<1>8. Accurate(v, s, t, tbl, new \ {n}, more, ms)
  BY <1>1, <1>5, <1>6, <1>7 DEF Accurate
<1> QED BY <1>8 DEF more

LEMMA BroadcastFeed ==
  ASSUME IInv, FeedInv, NEW n \in notifying, Broadcast(n)
  PROVE  FeedInv'
<1>1. /\ notifying' = notifying \ {n} /\ UNCHANGED <<table, fetch, marks>>
      /\ stream' = [k \in DOMAIN stream |->
                      IF stream[k].subscribed /\ HasRoom(k)
                      THEN [stream[k] EXCEPT !.events = Append(@, n)] ELSE stream[k]]
      /\ tab' = Inexact({t \in Tab : ~Listening(t) \/ ~HasRoom(tab[t].stream)
                                       \/ \E m \in notifying : m < n})
  BY DEF Broadcast
<1>2. n \in Note /\ table \in Seq(BOOLEAN)
  BY FeedAssumption DEF IInv, Typed, TableTyped, Note
<1>3. ASSUME NEW k \in DOMAIN stream
      PROVE  /\ stream'[k].subscribed = stream[k].subscribed /\ stream'[k].ended = stream[k].ended
             /\ stream[k].subscribed /\ HasRoom(k) => stream'[k].events = Append(stream[k].events, n)
             /\ ~stream[k].subscribed => stream'[k].events = stream[k].events
  <2>1. stream[k] \in Stream
    BY StreamsAreStreams DEF IInv
  <2>2. stream[k].events \in Seq(Note) /\ Append(stream[k].events, n) \in Seq(Note)
    BY <1>2, <2>1 DEF Stream
  <2>3. CASE stream[k].subscribed /\ HasRoom(k)
    <3> DEFINE e == Append(stream[k].events, n)
    <3>1. stream'[k] = [stream[k] EXCEPT !.events = e]
      BY <1>1, <2>3
    <3> HIDE DEF e
    <3>2. stream'[k].events = e /\ stream'[k].subscribed = stream[k].subscribed
          /\ stream'[k].ended = stream[k].ended
      BY <2>1, <3>1 DEF Stream
    <3> QED BY <2>3, <3>2 DEF e
  <2>4. CASE ~(stream[k].subscribed /\ HasRoom(k))
    BY <1>1, <2>4
  <2> QED BY <2>3, <2>4
<1>4. DOMAIN stream' = DOMAIN stream
  BY <1>1
<1>5. \A t \in Tab : tab'[t].stream = tab[t].stream /\ tab'[t].items = tab[t].items
                     /\ tab'[t].count = tab[t].count
  BY <1>1 DEF Inexact, IInv, Typed, TabTyped, Screen
<1>6. ASSUME NEW t \in Tab, tab'[t].exact
      PROVE  /\ tab[t].exact /\ Listening(t) /\ HasRoom(tab[t].stream)
             /\ \A m \in notifying : ~(m < n)
  <2> DEFINE out == {u \in Tab : ~Listening(u) \/ ~HasRoom(tab[u].stream) \/ \E m \in notifying : m < n}
             b == tab[t].exact /\ t \notin out
  <2>1. tab'[t] = [tab[t] EXCEPT !.exact = b] /\ b \in BOOLEAN
    BY <1>1 DEF Inexact
  <2>2. tab[t] \in Screen
    BY DEF IInv, Typed, TabTyped
  <2>3. b => /\ tab[t].exact /\ Listening(t) /\ HasRoom(tab[t].stream)
             /\ \A m \in notifying : ~(m < n)
    OBVIOUS
  <2> HIDE DEF b
  <2>4. b
    BY <1>6, <2>1, <2>2 DEF Screen
  <2> QED BY <2>3, <2>4
<1>7. Channels'
  BY <1>3, <1>4, <1>5 DEF FeedInv, Channels
<1>8. AskedInTime'
  BY <1>1 DEF FeedInv, AskedInTime
<1>9. Refreshes'
  <2>1. notifying # {}
    OBVIOUS
  <2>2. \A q \in DOMAIN fetch : ~(fetch[q] # Done /\ fetch[q].clean)
    BY <2>1 DEF FeedInv, Refreshes, Clean
  <2> QED BY <1>1, <2>2 DEF Refreshes, Clean
<1>10. Screens'
  <2> SUFFICES ASSUME NEW t \in Tab, tab'[t].exact
               PROVE  Faithful(tab'[t], t, table, notifying', Coming(tab'[t], stream'), marks)
    BY <1>1 DEF Screens, Faithful
  <2> DEFINE coming == Coming(tab[t], stream)
             more == Coming(tab'[t], stream')
  <2>1. coming \in Seq(Note) /\ Faithful(tab[t], t, table, notifying, coming, marks)
    BY ComingTypes DEF FeedInv, Screens
  <2>2. more = Append(coming, n)
    <3>1. tab[t].stream # NoStream /\ tab[t].stream \in DOMAIN stream /\ stream[tab[t].stream].subscribed
      BY <1>6 DEF Listening, IInv, Typed, TabTyped
    <3> QED BY <1>3, <1>5, <1>6, <3>1 DEF Coming
  <2>3. tab[t].exact /\ \A m \in notifying : ~(m < n)
    BY <1>6
  <2> HIDE DEF coming, more
  <2>4. Faithful(tab[t], t, table, notifying \ {n}, Append(coming, n), marks)
    BY <1>2, <2>1, <2>3, BroadcastFaithful
  <2>5. Faithful(tab'[t], t, table, notifying \ {n}, Append(coming, n), marks)
    BY <1>5, <2>3, <2>4, FaithfulKept
  <2> QED BY <1>1, <2>2, <2>5, Zenon DEF more
<1> QED BY <1>7, <1>8, <1>9, <1>10 DEF FeedInv

LEMMA PushFaithful ==
  ASSUME NEW s \in Screen, NEW r, NEW t, NEW tbl \in Seq(BOOLEAN), NEW new, NEW coming \in Seq(Note),
         NEW ms \in SUBSET Mark, coming # <<>>, Faithful(s, t, tbl, new, coming, ms),
         r.exact => s.exact,
         r.items = FirstFew(<<[note |-> Head(coming), read |-> FALSE]>> \o s.items),
         r.count = s.count + 1
  PROVE  Faithful(r, t, tbl, new, Tail(coming), ms)
<1> SUFFICES ASSUME r.exact, ~Doomed(t, ms, Len(tbl))
             PROVE  \E v \in 0..Len(tbl) : Accurate(v, r, t, tbl, new, Tail(coming), ms)
  BY DEF Faithful
<1>1. PICK v \in 0..Len(tbl) : Accurate(v, s, t, tbl, new, coming, ms)
  BY DEF Faithful
<1> DEFINE rest == Tail(coming)
           L == Len(coming)
           w == v + 1
           R == ReadBy(v, t, tbl, ms)
<1>2. /\ Len(tbl) \in Nat /\ v \in Nat /\ L \in Nat \ {0} /\ Len(rest) = L - 1
      /\ \A i \in 1..(L - 1) : rest[i] = coming[i + 1]
      /\ Head(coming) = coming[1] /\ coming[1] \in Note
  OBVIOUS
<1>3. /\ v + L <= Len(tbl) /\ \A i \in 1..L : coming[i] = v + i
      /\ new = (v + L + 1)..Len(tbl) /\ \A n \in (v + 1)..Len(tbl) : ~tbl[n]
      /\ \A m \in ms : m.tab = t => m.note <= v /\ (m.note = 0 => v = Len(tbl))
      /\ s.items = Shows(v, R) /\ s.count = Cardinality((1..v) \ R)
  BY <1>1, Zenon DEF Accurate
<1> HIDE DEF rest, L, R
<1>4. Head(coming) = w /\ w \in Note /\ w \in 1..Len(tbl) /\ w \in (v + 1)..Len(tbl)
  BY <1>2, <1>3
<1>5. \A m \in ms : m.tab = t => m.note # 0 /\ m.note # w
  <2> SUFFICES ASSUME NEW m \in ms, m.tab = t
               PROVE  m.note # 0 /\ m.note # w
    OBVIOUS
  <2>1. m.note <= v /\ (m.note = 0 => v = Len(tbl))
    BY <1>3
  <2>2. m.note \in Nat
    BY FeedAssumption DEF Mark, Note
  <2> QED BY <1>2, <1>4, <2>1, <2>2
<1>6. w \notin R
  BY <1>2 DEF R, ReadBy
<1>7. ReadBy(w, t, tbl, ms) = R
  <2>1. ~tbl[w] /\ ~Asked(w, t, ms)
    BY <1>3, <1>4, <1>5 DEF Asked
  <2>2. 1..w = (1..v) \cup {w}
    BY <1>2
  <2> QED BY <2>1, <2>2 DEF R, ReadBy
<1>8. r.items = Shows(w, R)
  <2>1. Shows(v, R) \in Seq(Item)
    BY <1>3 DEF Screen
  <2>2. FirstFew(<<[note |-> w, read |-> FALSE]>> \o Shows(v, R)) = Shows(w, R)
    BY <1>2, <1>4, <1>6, <2>1, PushShows
  <2> QED BY <1>3, <1>4, <2>2
<1>9. r.count = Cardinality((1..w) \ R)
  <2>1. v + 1 \notin R => Cardinality((1..(v + 1)) \ R) = Cardinality((1..v) \ R) + 1
    BY <1>2, CountIs
  <2>2. Cardinality((1..(v + 1)) \ R) = Cardinality((1..v) \ R) + 1
    BY <1>6, <2>1
  <2> QED BY <1>3, <2>2
<1>10. /\ w + Len(rest) <= Len(tbl) /\ new = (w + Len(rest) + 1)..Len(tbl)
       /\ \A n \in (w + 1)..Len(tbl) : ~tbl[n]
  <2>1. w + Len(rest) = v + L
    BY <1>2
  <2>2. \A n \in (w + 1)..Len(tbl) : n \in (v + 1)..Len(tbl)
    BY <1>2
  <2> QED BY <1>3, <2>1, <2>2
<1>11. \A i \in 1..Len(rest) : rest[i] = w + i
  <2> SUFFICES ASSUME NEW i \in 1..Len(rest)
               PROVE  rest[i] = w + i
    OBVIOUS
  <2>1. i \in 1..(L - 1) /\ i + 1 \in 1..L /\ v + (i + 1) = w + i
    BY <1>2
  <2> QED BY <1>2, <1>3, <2>1
<1>12. \A m \in ms : m.tab = t => m.note <= w /\ (m.note = 0 => w = Len(tbl))
  <2> SUFFICES ASSUME NEW m \in ms, m.tab = t
               PROVE  m.note <= w /\ (m.note = 0 => w = Len(tbl))
    OBVIOUS
  <2>1. m.note <= v /\ m.note # 0
    BY <1>3, <1>5
  <2>2. m.note \in Nat
    BY FeedAssumption DEF Mark, Note
  <2> QED BY <1>2, <2>1, <2>2
<1>13. w \in 0..Len(tbl)
  BY <1>4
<1> HIDE DEF w
<1>14. Accurate(w, r, t, tbl, new, rest, ms)
  BY <1>7, <1>8, <1>9, <1>10, <1>11, <1>12, Zenon DEF Accurate
<1> QED BY <1>13, <1>14 DEF rest

LEMMA PushFeed ==
  ASSUME IInv, FeedInv, NEW k \in DOMAIN stream, Push(k)
  PROVE  FeedInv'
<1> DEFINE n == Head(stream[k].events)
<1>1. /\ stream[k].events # <<>> /\ UNCHANGED <<table, notifying, fetch, marks>>
      /\ stream' = [stream EXCEPT ![k].events = Tail(@)]
      /\ tab' = [t \in Tab |->
                   IF tab[t].stream = k
                   THEN [tab[t] EXCEPT !.items = FirstFew(<<[note |-> n, read |-> FALSE]>> \o @),
                                       !.count = @ + 1]
                   ELSE tab[t]]
  BY DEF Push
<1>2. stream[k] \in Stream /\ k # NoStream
  BY StreamsAreStreams DEF IInv
<1>3. tab \in [Tab -> Screen] /\ \A u \in Tab : tab[u].stream \in DOMAIN stream \cup {NoStream}
  BY DEF IInv, Typed, TabTyped
<1>4. table \in Seq(BOOLEAN) /\ marks \in SUBSET Mark
  BY DEF IInv, Typed, TableTyped, MarksTyped
<1>5. /\ DOMAIN stream' = DOMAIN stream /\ stream'[k].events = Tail(stream[k].events)
      /\ stream'[k].subscribed = stream[k].subscribed /\ stream'[k].ended = stream[k].ended
      /\ \A l \in DOMAIN stream : l # k => stream'[l] = stream[l]
  BY <1>1, <1>2 DEF Stream
<1>6. ASSUME NEW t \in Tab
      PROVE  /\ tab'[t].stream = tab[t].stream /\ tab'[t].exact = tab[t].exact
             /\ tab[t].stream = k =>
                  /\ tab'[t].items = FirstFew(<<[note |-> n, read |-> FALSE]>> \o tab[t].items)
                  /\ tab'[t].count = tab[t].count + 1
             /\ tab[t].stream # k => tab'[t] = tab[t]
  <2> DEFINE f == FirstFew(<<[note |-> n, read |-> FALSE]>> \o tab[t].items)
             c == tab[t].count + 1
  <2>1. tab[t].stream = k => tab'[t] = [tab[t] EXCEPT !.items = f, !.count = c]
    BY <1>1
  <2>2. tab[t].stream # k => tab'[t] = tab[t]
    BY <1>1
  <2> HIDE DEF f, c
  <2>3. tab[t] \in Screen
    BY <1>3
  <2>4. tab[t].stream = k => /\ tab'[t].items = f /\ tab'[t].count = c
                             /\ tab'[t].stream = tab[t].stream /\ tab'[t].exact = tab[t].exact
    BY <2>1, <2>3 DEF Screen
  <2> QED BY <2>2, <2>4 DEF f, c
<1> HIDE DEF n
<1>7. ASSUME NEW t \in Tab
      PROVE  /\ tab[t].stream = k => /\ Coming(tab[t], stream) = stream[k].events
                                     /\ Coming(tab'[t], stream') = Tail(stream[k].events)
             /\ tab[t].stream # k => Coming(tab'[t], stream') = Coming(tab[t], stream)
  BY <1>2, <1>3, <1>5, <1>6 DEF Coming
<1>8. Channels'
  <2>1. \A l \in DOMAIN stream : /\ stream'[l].events # <<>> => stream[l].events # <<>>
                                 /\ stream'[l].subscribed = stream[l].subscribed
                                 /\ stream'[l].ended = stream[l].ended
    BY <1>1, <1>5
  <2>2. \A t \in Tab : tab'[t].stream = tab[t].stream
    BY <1>6
  <2> QED BY <1>5, <2>1, <2>2 DEF FeedInv, Channels
<1>9. AskedInTime'
  BY <1>1 DEF FeedInv, AskedInTime
<1>10. Refreshes'
  <2> SUFFICES ASSUME NEW q \in DOMAIN fetch, fetch[q] # Done, fetch[q].clean
               PROVE  Clean(fetch[q], table, notifying, tab', stream', marks)
    BY <1>1 DEF Refreshes, Clean
  <2>1. Clean(fetch[q], table, notifying, tab, stream, marks)
    BY DEF FeedInv, Refreshes
  <2>2. fetch[q].tab \in Tab
    <3>1. fetch[q] \in Request \cup {Done}
      BY DEF IInv, Typed, FetchTyped
    <3> QED BY <3>1 DEF Request
  <2>3. Coming(tab[fetch[q].tab], stream) = <<>> => Coming(tab'[fetch[q].tab], stream') = <<>>
    BY <1>1, <1>7, <2>2
  <2> QED BY <2>1, <2>3, CleanKept
<1>11. Screens'
  <2> SUFFICES ASSUME NEW t \in Tab
               PROVE  Faithful(tab'[t], t, table, notifying, Coming(tab'[t], stream'), marks)
    BY <1>1 DEF Screens
  <2> DEFINE coming == Coming(tab[t], stream)
             rest == Coming(tab'[t], stream')
  <2>1. coming \in Seq(Note) /\ Faithful(tab[t], t, table, notifying, coming, marks)
    BY ComingTypes DEF FeedInv, Screens
  <2>2. CASE tab[t].stream = k
    <3>1. coming # <<>> /\ rest = Tail(coming) /\ n = Head(coming)
      BY <1>1, <1>7, <2>2 DEF n
    <3>2. tab[t] \in Screen
      BY <1>3
    <3>3. /\ tab'[t].exact = tab[t].exact /\ tab'[t].count = tab[t].count + 1
          /\ tab'[t].items = FirstFew(<<[note |-> Head(coming), read |-> FALSE]>> \o tab[t].items)
      BY <1>6, <2>2, <3>1
    <3> HIDE DEF coming, rest
    <3>4. Faithful(tab'[t], t, table, notifying, Tail(coming), marks)
      BY <1>4, <2>1, <3>1, <3>2, <3>3, PushFaithful
    <3> QED BY <3>1, <3>4, Zenon DEF rest
  <2>3. CASE tab[t].stream # k
    <3>1. rest = coming /\ tab'[t] = tab[t]
      BY <1>6, <1>7, <2>3
    <3> QED BY <2>1, <3>1, Zenon
  <2> QED BY <2>2, <2>3
<1> QED BY <1>8, <1>9, <1>10, <1>11 DEF FeedInv

LEMMA AnswerFeed ==
  ASSUME IInv, FeedInv, NEW q \in DOMAIN fetch, Answer(q)
  PROVE  FeedInv'
<1> DEFINE a == fetch[q]
           u == a.tab
           r == [tab[u] EXCEPT !.items = a.items, !.count = a.count, !.exact = a.clean]
<1>1. a \in Request /\ a # Done /\ a.step = "answer"
  BY RequestUnderWay DEF Answer, IInv, Typed, Request, Done
<1>2. /\ tab' = [tab EXCEPT ![u] = r] /\ fetch' = [fetch EXCEPT ![q] = Done]
      /\ UNCHANGED <<table, notifying, stream, marks>>
  BY DEF Answer
<1>3. tab \in [Tab -> Screen] /\ u \in Tab
  BY <1>1 DEF IInv, Typed, TabTyped, Request
<1>4. Clean(a, table, notifying, tab, stream, marks)
  BY DEF FeedInv, Refreshes
<1> HIDE DEF a
<1>5. r.items = a.items /\ r.count = a.count /\ r.exact = a.clean /\ r.stream = tab[u].stream
  BY <1>3 DEF Screen
<1>6. tab'[u] = r /\ \A t \in Tab \ {u} : tab'[t] = tab[t]
  BY <1>2, <1>3
<1>7. a.tab = u
  OBVIOUS
<1> HIDE DEF r, u
<1>8. \A t \in Tab : tab'[t].stream = tab[t].stream
  BY <1>5, <1>6
<1>9. \A t \in Tab : Coming(tab'[t], stream') = Coming(tab[t], stream)
  BY <1>2, <1>8 DEF Coming
<1>10. Channels'
  BY <1>2, <1>8 DEF FeedInv, Channels
<1>11. AskedInTime'
  BY <1>2 DEF FeedInv, AskedInTime
<1>12. Refreshes'
  <2> SUFFICES ASSUME NEW p \in DOMAIN fetch, fetch'[p] # Done
               PROVE  Clean(fetch'[p], table, notifying, tab', stream', marks)
    BY <1>2 DEF Refreshes, Clean
  <2>1. p # q /\ fetch'[p] = fetch[p]
    BY <1>2
  <2>2. Clean(fetch[p], table, notifying, tab, stream, marks)
    BY DEF FeedInv, Refreshes
  <2>3. fetch[p].tab \in Tab
    <3>1. fetch[p] \in Request \cup {Done}
      BY DEF IInv, Typed, FetchTyped
    <3> QED BY <2>1, <3>1 DEF Request
  <2>4. Coming(tab[fetch[p].tab], stream) = <<>> => Coming(tab'[fetch[p].tab], stream') = <<>>
    BY <1>9, <2>3
  <2> QED BY <2>1, <2>2, <2>4, CleanKept
<1>13. Faithful(r, u, table, notifying, Coming(tab[u], stream), marks)
  <2> SUFFICES ASSUME a.clean
               PROVE  \E v \in 0..Len(table) :
                        Accurate(v, r, u, table, notifying, Coming(tab[u], stream), marks)
    BY <1>5 DEF Faithful
  <2> DEFINE v == Len(table)
             R == {n \in DOMAIN table : table[n]}
  <2>1. v \in Nat /\ DOMAIN table = 1..v
    BY DEF IInv, Typed, TableTyped
  <2>2. /\ notifying = {} /\ Coming(tab[u], stream) = <<>> /\ \A m \in marks : m.tab # u
        /\ a.items = Shows(v, R) /\ a.count = Cardinality({n \in DOMAIN table : ~table[n]})
    BY <1>1, <1>4, <1>7 DEF Clean
  <2>3. ReadBy(v, u, table, marks) = R
    BY <2>1, <2>2 DEF ReadBy, Asked
  <2>4. {n \in DOMAIN table : ~table[n]} = (1..v) \ R
    BY <2>1
  <2> HIDE DEF v, R
  <2>5. /\ v + Len(<<>>) <= v /\ (v + Len(<<>>) + 1)..v = {} /\ (v + 1)..v = {}
        /\ v \in 0..v /\ Len(<<>>) = 0 /\ 1..Len(<<>>) = {}
    BY <2>1
  <2>6. v = Len(table)
    BY DEF v
  <2>7. Accurate(v, r, u, table, {}, <<>>, marks)
    BY <1>5, <2>2, <2>3, <2>4, <2>5, <2>6 DEF Accurate
  <2> QED BY <2>2, <2>5, <2>6, <2>7
<1>14. Screens'
  <2> SUFFICES ASSUME NEW t \in Tab
               PROVE  Faithful(tab'[t], t, table, notifying, Coming(tab'[t], stream'), marks)
    BY <1>2 DEF Screens
  <2>1. Faithful(tab'[t], t, table, notifying, Coming(tab[t], stream), marks)
    <3>1. CASE t = u
      BY <1>6, <1>13, <3>1
    <3>2. CASE t # u
      BY <1>6, <3>2 DEF FeedInv, Screens
    <3> QED BY <3>1, <3>2
  <2>2. Coming(tab'[t], stream') = Coming(tab[t], stream)
    BY <1>9
  <2> QED BY <2>1, <2>2, Zenon
<1> QED BY <1>10, <1>11, <1>12, <1>14 DEF FeedInv

(* A mark of tab t: its own feed is Faithful again, the others are doomed.     *)
LEMMA MarkStep ==
  ASSUME IInv, FeedInv, NEW t \in Tab, NEW m, m.tab = t, m.upto <= Len(table),
         marks' = marks \cup {m}, fetch' = Disturbed({t}),
         UNCHANGED <<table, notifying, stream>>,
         NEW r, r.stream = tab[t].stream, tab' = [tab EXCEPT ![t] = r],
         Faithful(r, t, table, notifying, Coming(tab[t], stream), marks')
  PROVE  FeedInv'
<1>1. tab \in [Tab -> Screen]
  BY DEF IInv, Typed, TabTyped
<1>2. tab'[t] = r /\ \A u \in Tab \ {t} : tab'[u] = tab[u]
  BY <1>1
<1>3. \A u \in Tab : tab'[u].stream = tab[u].stream
  BY <1>2
<1>4. \A u \in Tab : Coming(tab'[u], stream') = Coming(tab[u], stream)
  BY <1>3 DEF Coming
<1>5. Channels'
  BY <1>3 DEF FeedInv, Channels
<1>6. AskedInTime'
  BY DEF FeedInv, AskedInTime
<1>7. Refreshes'
  <2> SUFFICES ASSUME NEW q \in DOMAIN fetch', fetch'[q] # Done, fetch'[q].clean
               PROVE  Clean(fetch'[q], table, notifying, tab', stream', marks')
    BY DEF Refreshes, Clean
  <2>1. q \in DOMAIN fetch
    BY DEF Disturbed
  <2>2. fetch'[q] = fetch[q] /\ fetch[q] \in Request /\ fetch[q].tab # t
    BY <2>1, DisturbedClean DEF IInv, Typed
  <2>3. Clean(fetch[q], table, notifying, tab, stream, marks) /\ fetch[q].tab \in Tab
    BY <2>1, <2>2 DEF FeedInv, Refreshes, Request
  <2>4. Coming(tab[fetch[q].tab], stream) = <<>> => Coming(tab'[fetch[q].tab], stream') = <<>>
    BY <1>4, <2>3
  <2>5. \A l \in marks' : l \in marks \/ l.tab # fetch[q].tab
    BY <2>2
  <2> DEFINE x == fetch[q]
             tabs == tab'
             streams == stream'
             ms == marks'
  <2>6. /\ Clean(x, table, notifying, tab, stream, marks)
        /\ Coming(tab[x.tab], stream) = <<>> => Coming(tabs[x.tab], streams) = <<>>
        /\ \A l \in ms : l \in marks \/ l.tab # x.tab
    BY <2>3, <2>4, <2>5
  <2> HIDE DEF x, tabs, streams, ms
  <2>7. Clean(x, table, notifying, tabs, streams, ms)
    BY <2>6, CleanKept
  <2> QED BY <2>2, <2>7, Zenon DEF x, tabs, streams, ms
<1>8. Screens'
  <2> SUFFICES ASSUME NEW u \in Tab
               PROVE  Faithful(tab'[u], u, table, notifying, Coming(tab'[u], stream'), marks')
    BY DEF Screens
  <2>1. Faithful(tab'[u], u, table, notifying, Coming(tab[u], stream), marks')
    <3>1. CASE u = t
      BY <1>2, <3>1
    <3>2. CASE u # t
      BY <3>2 DEF Faithful, Doomed
    <3> QED BY <3>1, <3>2
  <2>2. Coming(tab'[u], stream') = Coming(tab[u], stream)
    BY <1>4
  <2> QED BY <2>1, <2>2, Zenon
<1> QED BY <1>5, <1>6, <1>7, <1>8 DEF FeedInv

LEMMA MarkReadFaithful ==
  ASSUME NEW s \in Screen, NEW r, NEW t, NEW tbl \in Seq(BOOLEAN), NEW new, NEW coming,
         NEW ms, NEW m, NEW i \in DOMAIN s.items, Faithful(s, t, tbl, new, coming, ms),
         ~s.items[i].read, m.tab = t, m.note = s.items[i].note,
         r.exact => s.exact, r.items = Read(s.items, {m.note}),
         r.count = IF s.count = 0 THEN 0 ELSE s.count - 1
  PROVE  Faithful(r, t, tbl, new, coming, ms \cup {m})
<1> SUFFICES ASSUME r.exact, ~Doomed(t, ms \cup {m}, Len(tbl))
             PROVE  \E v \in 0..Len(tbl) : Accurate(v, r, t, tbl, new, coming, ms \cup {m})
  BY DEF Faithful
<1>1. PICK v \in 0..Len(tbl) : Accurate(v, s, t, tbl, new, coming, ms)
  BY DEF Faithful, Doomed
<1> DEFINE R == ReadBy(v, t, tbl, ms)
           n == m.note
<1>2. /\ v + Len(coming) <= Len(tbl) /\ \A j \in 1..Len(coming) : coming[j] = v + j
      /\ new = (v + Len(coming) + 1)..Len(tbl) /\ \A l \in (v + 1)..Len(tbl) : ~tbl[l]
      /\ \A l \in ms : l.tab = t => l.note <= v /\ (l.note = 0 => v = Len(tbl))
      /\ s.items = Shows(v, R) /\ s.count = Cardinality((1..v) \ R)
  BY <1>1, Zenon DEF Accurate
<1>3. v \in Nat
  OBVIOUS
<1> HIDE DEF R
<1>4. n \in (1..v) \ R
  <2>1. i \in 1..Few(v) /\ s.items[i] = [note |-> v + 1 - i, read |-> v + 1 - i \in R]
        /\ v + 1 - i \in 1..v
    <3>1. DOMAIN s.items = 1..Few(v)
      BY <1>2, <1>3, ShowsIs
    <3>2. i \in 1..Few(v) /\ s.items[i] = Shows(v, R)[i]
      BY <1>2, <3>1
    <3> QED BY <1>3, <3>2, ShowsIs, Zenon
  <2> DEFINE w == v + 1 - i
             b == w \in R
  <2>2. s.items[i] = [note |-> w, read |-> b] /\ w \in 1..v
    BY <2>1, Zenon
  <2> HIDE DEF w, b
  <2>3. s.items[i].note = w /\ s.items[i].read = b
    BY <2>2
  <2>4. ~b
    BY <2>3
  <2> QED BY <2>2, <2>3, <2>4 DEF b
<1>5. ReadBy(v, t, tbl, ms \cup {m}) = R \cup {n}
  <2>1. \A l \in 1..v : l # 0
    OBVIOUS
  <2>2. \A l \in 1..v : Asked(l, t, ms \cup {m}) <=> Asked(l, t, ms) \/ l = n
    <3>1. n # 0
      BY <1>4, <2>1
    <3> QED BY <3>1, AskedIs
  <2> QED BY <1>4, <2>2 DEF ReadBy, R
<1>6. r.items = Shows(v, R \cup {n})
  BY <1>2, <1>3, ReadShows
<1>7. r.count = Cardinality((1..v) \ (R \cup {n}))
  <2>1. Cardinality((1..v) \ (R \cup {n})) = Cardinality((1..v) \ R) - 1
    BY <1>3, <1>4, CountIs
  <2>2. Cardinality((1..v) \ (R \cup {n})) \in Nat /\ Cardinality((1..v) \ R) \in Nat
    BY <1>3, CountIs
  <2>3. Cardinality((1..v) \ R) # 0
    BY <2>1, <2>2
  <2> QED BY <1>2, <2>1, <2>3
<1>8. \A l \in ms \cup {m} : l.tab = t => l.note <= v /\ (l.note = 0 => v = Len(tbl))
  <2>1. n <= v /\ n # 0
    BY <1>3, <1>4
  <2> QED BY <1>2, <2>1
<1> HIDE DEF n
<1>9. Accurate(v, r, t, tbl, new, coming, ms \cup {m})
  BY <1>2, <1>5, <1>6, <1>7, <1>8, Zenon DEF Accurate
<1> QED BY <1>9

LEMMA MarkReadFeed ==
  ASSUME IInv, FeedInv, NEW t \in Tab, NEW i \in DOMAIN tab[t].items, MarkRead(t, i)
  PROVE  FeedInv'
<1> DEFINE n == tab[t].items[i].note
           m == [tab |-> t, note |-> n, upto |-> 0]
           read == Read(tab[t].items, {n})
           c == IF tab[t].count = 0 THEN 0 ELSE tab[t].count - 1
           r == [tab[t] EXCEPT !.items = read, !.count = c]
<1>1. /\ marks' = marks \cup {m} /\ fetch' = Disturbed({t})
      /\ UNCHANGED <<table, notifying, stream>> /\ ~tab[t].items[i].read
  BY DEF MarkRead
<1>2. tab' = [tab EXCEPT ![t] = r]
  BY DEF MarkRead
<1>3. tab[t] \in Screen /\ table \in Seq(BOOLEAN) /\ Len(table) \in Nat
  BY DEF IInv, Typed, TabTyped, TableTyped
<1>4. m.tab = t /\ m.note = n /\ m.upto = 0
  OBVIOUS
<1> HIDE DEF c, read
<1>5. /\ r.exact = tab[t].exact /\ r.items = read /\ r.count = c /\ r.stream = tab[t].stream
  BY <1>3 DEF Screen
<1>6. m.upto <= Len(table)
  BY <1>3, <1>4
<1>7. Faithful(tab[t], t, table, notifying, Coming(tab[t], stream), marks)
  BY DEF FeedInv, Screens
<1>8. read = Read(tab[t].items, {m.note}) /\ c = IF tab[t].count = 0 THEN 0 ELSE tab[t].count - 1
  BY DEF read, c
<1>9. m.note = tab[t].items[i].note
  OBVIOUS
<1> HIDE DEF m, r, n
<1>10. Faithful(r, t, table, notifying, Coming(tab[t], stream), marks \cup {m})
  BY <1>1, <1>3, <1>4, <1>5, <1>7, <1>8, <1>9, MarkReadFaithful
<1>11. Faithful(r, t, table, notifying, Coming(tab[t], stream), marks')
  BY <1>1, <1>10, Zenon
<1> QED BY <1>1, <1>2, <1>4, <1>5, <1>6, <1>11, MarkStep

LEMMA MarkAllFaithful ==
  ASSUME NEW s \in Screen, NEW r, NEW t, NEW tbl \in Seq(BOOLEAN), NEW new, NEW coming \in Seq(Note),
         NEW ms, NEW m, Faithful(s, t, tbl, new, coming, ms), s.count > 0, Len(tbl) <= MaxNotes,
         m.tab = t, m.note = 0, m.upto = IF new = {} /\ coming = <<>> THEN Len(tbl) ELSE 0,
         r.exact => s.exact, r.items = Read(s.items, Note), r.count = 0
  PROVE  Faithful(r, t, tbl, new, coming, ms \cup {m})
<1> SUFFICES ASSUME r.exact, ~Doomed(t, ms \cup {m}, Len(tbl))
             PROVE  \E v \in 0..Len(tbl) : Accurate(v, r, t, tbl, new, coming, ms \cup {m})
  BY DEF Faithful
<1>1. PICK v \in 0..Len(tbl) : Accurate(v, s, t, tbl, new, coming, ms)
  BY DEF Faithful, Doomed
<1> DEFINE R == ReadBy(v, t, tbl, ms)
           S == ReadBy(v, t, tbl, ms \cup {m})
<1>2. /\ v + Len(coming) <= Len(tbl) /\ \A j \in 1..Len(coming) : coming[j] = v + j
      /\ new = (v + Len(coming) + 1)..Len(tbl) /\ \A l \in (v + 1)..Len(tbl) : ~tbl[l]
      /\ \A l \in ms : l.tab = t => l.note <= v /\ (l.note = 0 => v = Len(tbl))
      /\ s.items = Shows(v, R) /\ s.count = Cardinality((1..v) \ R)
  BY <1>1, Zenon DEF Accurate
<1>3. v \in Nat /\ Len(tbl) \in Nat /\ Len(coming) \in Nat /\ v <= Len(tbl)
  OBVIOUS
<1> HIDE DEF R
<1>4. v # 0
  <2> SUFFICES ASSUME v = 0 PROVE FALSE
    OBVIOUS
  <2>1. (1..v) \ R = {}
    OBVIOUS
  <2>2. s.count = 0
    BY <1>2, <2>1, FS_EmptySet
  <2> QED BY <2>2
<1>5. m.upto = Len(tbl)
  BY DEF Doomed
<1>6. new = {} /\ coming = <<>>
  BY <1>3, <1>4, <1>5
<1>7. v = Len(tbl)
  <2>1. Len(coming) = 0
    BY <1>6
  <2>2. (v + 1)..Len(tbl) = {}
    BY <1>2, <1>3, <1>6, <2>1
  <2>3. v # Len(tbl) => Len(tbl) \in (v + 1)..Len(tbl)
    BY <1>3
  <2> QED BY <2>2, <2>3
<1>8. \A n \in 1..v : n \in S
  <2> SUFFICES ASSUME NEW n \in 1..v PROVE Asked(n, t, ms \cup {m})
    BY DEF ReadBy
  <2>1. n <= m.upto
    BY <1>3, <1>5, <1>7
  <2> QED BY <2>1, AskedIs
<1>9. r.items = Shows(v, S)
  <2>1. r.items = Shows(v, R \cup Note)
    BY <1>2, <1>3, ReadShows
  <2>2. \A n \in 1..v : n \in R \cup Note
    BY <1>3, FeedAssumption DEF Note
  <2> HIDE DEF S
  <2>3. Shows(v, R \cup Note) = Shows(v, S)
    BY <1>3, <1>8, <2>2, SameReads
  <2> QED BY <2>1, <2>3
<1>10. r.count = Cardinality((1..v) \ S)
  <2>1. (1..v) \ S = {}
    BY <1>8
  <2> QED BY <2>1, FS_EmptySet
<1>11. \A l \in ms \cup {m} : l.tab = t => l.note <= v /\ (l.note = 0 => v = Len(tbl))
  BY <1>2, <1>3, <1>7
<1>12. Accurate(v, r, t, tbl, new, coming, ms \cup {m})
  BY <1>2, <1>9, <1>10, <1>11, Zenon DEF Accurate, S
<1> QED BY <1>12

LEMMA MarkAllReadFeed ==
  ASSUME IInv, FeedInv, NEW t \in Tab, MarkAllRead(t)
  PROVE  FeedInv'
<1> DEFINE coming == Coming(tab[t], stream)
           upto == IF notifying = {} /\ Told(t) THEN Len(table) ELSE 0
           m == [tab |-> t, note |-> 0, upto |-> upto]
           read == Read(tab[t].items, Note)
           r == [tab[t] EXCEPT !.items = read, !.count = 0]
<1>1. /\ marks' = marks \cup {m} /\ fetch' = Disturbed({t})
      /\ UNCHANGED <<table, notifying, stream>> /\ tab[t].count > 0
  BY DEF MarkAllRead
<1>2. tab' = [tab EXCEPT ![t] = r]
  BY DEF MarkAllRead
<1>3. tab[t] \in Screen /\ table \in Seq(BOOLEAN) /\ Len(table) \in Nat /\ Len(table) <= MaxNotes
  BY DEF IInv, Typed, TabTyped, TableTyped
<1>4. m.tab = t /\ m.note = 0 /\ m.upto = upto
  OBVIOUS
<1>5. Told(t) <=> coming = <<>>
  BY DEF Told, Coming
<1> HIDE DEF read, coming
<1>6. upto = (IF notifying = {} /\ coming = <<>> THEN Len(table) ELSE 0) /\ upto <= Len(table)
  BY <1>3, <1>5
<1> HIDE DEF upto
<1>7. /\ r.exact = tab[t].exact /\ r.items = read /\ r.count = 0 /\ r.stream = tab[t].stream
  BY <1>3 DEF Screen
<1>8. coming \in Seq(Note) /\ Faithful(tab[t], t, table, notifying, coming, marks)
  BY ComingTypes DEF FeedInv, Screens, coming
<1>9. read = Read(tab[t].items, Note)
  BY DEF read
<1> HIDE DEF m, r
<1>10. m.upto = IF notifying = {} /\ coming = <<>> THEN Len(table) ELSE 0
  BY <1>4, <1>6
<1>11. Faithful(r, t, table, notifying, coming, marks \cup {m})
  BY <1>1, <1>3, <1>4, <1>7, <1>8, <1>9, <1>10, MarkAllFaithful
<1>12. Faithful(r, t, table, notifying, Coming(tab[t], stream), marks')
  BY <1>1, <1>11, Zenon DEF coming
<1>13. m.upto <= Len(table)
  BY <1>4, <1>6
<1> QED BY <1>1, <1>2, <1>4, <1>7, <1>12, <1>13, MarkStep

LEMMA Bounds ==
  ASSUME NEW v \in Nat, NEW N \in Nat, v <= N
  PROVE  /\ \A n \in 1..v : n \in 1..N /\ n <= N /\ n # 0
         /\ v # N => N \in (v + 1)..N
OBVIOUS

LEMMA ApplyFaithful ==
  ASSUME NEW s, NEW r, NEW t, NEW tbl \in Seq(BOOLEAN), NEW tbl2, NEW new, NEW coming,
         NEW ms \in SUBSET Mark, NEW m \in ms, Faithful(s, t, tbl, new, coming, ms),
         tbl2 = [n \in DOMAIN tbl |-> tbl[n] \/ m.note \in {0, n}],
         r.exact => /\ s.exact /\ m.tab = t /\ (m.note = 0 => m.upto = Len(tbl))
                    /\ r.items = s.items /\ r.count = s.count
  PROVE  Faithful(r, t, tbl2, new, coming, ms \ {m})
<1>1. /\ Len(tbl) \in Nat /\ DOMAIN tbl = 1..Len(tbl) /\ DOMAIN tbl2 = 1..Len(tbl)
      /\ \A n \in 1..Len(tbl) : tbl2[n] <=> tbl[n] \/ m.note \in {0, n}
  <2>1. Len(tbl) \in Nat /\ DOMAIN tbl = 1..Len(tbl)
    OBVIOUS
  <2>2. DOMAIN tbl2 = DOMAIN tbl /\ \A n \in DOMAIN tbl : tbl2[n] = (tbl[n] \/ m.note \in {0, n})
    BY Zenon
  <2> QED BY <2>1, <2>2
<1>2. Len(tbl2) = Len(tbl)
  BY <1>1
<1> SUFFICES ASSUME r.exact, ~Doomed(t, ms \ {m}, Len(tbl))
             PROVE  \E v \in 0..Len(tbl) : Accurate(v, r, t, tbl2, new, coming, ms \ {m})
  BY <1>2 DEF Faithful
<1>3. ~Doomed(t, ms, Len(tbl))
  BY DEF Doomed
<1>4. PICK v \in 0..Len(tbl) : Accurate(v, s, t, tbl, new, coming, ms)
  BY <1>3 DEF Faithful
<1>5. /\ v + Len(coming) <= Len(tbl) /\ \A j \in 1..Len(coming) : coming[j] = v + j
      /\ new = (v + Len(coming) + 1)..Len(tbl) /\ \A l \in (v + 1)..Len(tbl) : ~tbl[l]
      /\ \A l \in ms : l.tab = t => l.note <= v /\ (l.note = 0 => v = Len(tbl))
      /\ s.items = Shows(v, ReadBy(v, t, tbl, ms))
      /\ s.count = Cardinality((1..v) \ ReadBy(v, t, tbl, ms))
  BY <1>4, Zenon DEF Accurate
<1>6. /\ v \in Nat /\ v <= Len(tbl) /\ m.note \in Nat /\ m.note <= v /\ m.tab = t
      /\ (m.note = 0 => v = Len(tbl) /\ m.upto = Len(tbl))
  <2>1. m.note \in Nat
    BY FeedAssumption DEF Mark, Note
  <2>2. v \in Nat /\ v <= Len(tbl)
    BY <1>1
  <2>3. m.tab = t /\ (m.note = 0 => m.upto = Len(tbl))
    OBVIOUS
  <2>4. m.note <= v /\ (m.note = 0 => v = Len(tbl))
    BY <1>5, <2>3
  <2> QED BY <2>1, <2>2, <2>3, <2>4
<1>7. \A n \in (v + 1)..Len(tbl) : ~tbl2[n]
  <2> SUFFICES ASSUME NEW n \in (v + 1)..Len(tbl) PROVE ~tbl2[n]
    OBVIOUS
  <2>1. n \in 1..Len(tbl) /\ n # m.note /\ m.note # 0
    BY <1>1, <1>6
  <2> QED BY <1>1, <1>5, <2>1
<1>8. ReadBy(v, t, tbl2, ms \ {m}) = ReadBy(v, t, tbl, ms)
  <2> SUFFICES ASSUME NEW n \in 1..v
               PROVE  tbl2[n] \/ Asked(n, t, ms \ {m}) <=> tbl[n] \/ Asked(n, t, ms)
    BY DEF ReadBy
  <2>1. n \in 1..Len(tbl) /\ n <= Len(tbl) /\ n # 0
    BY <1>1, <1>6, Bounds
  <2>2. tbl2[n] <=> tbl[n] \/ m.note = 0 \/ m.note = n
    BY <1>1, <2>1
  <2>3. Asked(n, t, ms) <=> Asked(n, t, ms \ {m}) \/ m.note = n \/ m.note = 0
    BY <1>6, <2>1, AskedIs
  <2> QED BY <2>2, <2>3
<1>9. \A l \in ms \ {m} : l.tab = t => l.note <= v /\ (l.note = 0 => v = Len(tbl))
  BY <1>5
<1>10. r.items = s.items /\ r.count = s.count
  OBVIOUS
<1>11. Accurate(v, r, t, tbl2, new, coming, ms \ {m})
  BY <1>2, <1>5, <1>7, <1>8, <1>9, <1>10, Zenon DEF Accurate
<1> QED BY <1>11

LEMMA InexactIs ==
  ASSUME tab \in [Tab -> Screen], NEW tabs, NEW t \in Tab, Inexact(tabs)[t].exact
  PROVE  tab[t].exact /\ t \notin tabs
<1> DEFINE b == tab[t].exact /\ t \notin tabs
<1>1. Inexact(tabs)[t] = [tab[t] EXCEPT !.exact = b] /\ b \in BOOLEAN
  BY DEF Inexact
<1>2. tab[t] \in Screen
  OBVIOUS
<1> HIDE DEF b
<1>3. Inexact(tabs)[t].exact = b
  BY <1>1, <1>2 DEF Screen
<1> QED BY <1>3 DEF b

LEMMA InexactSame ==
  ASSUME tab \in [Tab -> Screen], NEW tabs, NEW t \in Tab
  PROVE  /\ Inexact(tabs)[t].items = tab[t].items /\ Inexact(tabs)[t].count = tab[t].count
         /\ Inexact(tabs)[t].stream = tab[t].stream
  BY DEF Inexact, Screen

LEMMA ApplyMarkFeed ==
  ASSUME IInv, FeedInv, NEW m \in marks, ApplyMark(m)
  PROVE  FeedInv'
<1> DEFINE tabs == IF m.note = 0 /\ m.upto # Len(table) THEN Tab ELSE Tab \ {m.tab}
           tbl2 == [n \in DOMAIN table |-> table[n] \/ m.note \in {0, n}]
<1>1. /\ marks' = marks \ {m} /\ table' = tbl2 /\ tab' = Inexact(tabs) /\ fetch' = Disturbed(Tab)
      /\ UNCHANGED <<notifying, stream>>
  BY DEF ApplyMark
<1>2. table \in Seq(BOOLEAN) /\ marks \in SUBSET Mark /\ tab \in [Tab -> Screen]
  BY DEF IInv, Typed, TableTyped, MarksTyped, TabTyped
<1>3. Len(table') = Len(table)
  BY <1>1, <1>2
<1>4. tbl2 = [n \in DOMAIN table |-> table[n] \/ m.note \in {0, n}]
  OBVIOUS
<1>5. \A t \in Tab \ tabs : m.tab = t /\ (m.note = 0 => m.upto = Len(table))
  OBVIOUS
<1> HIDE DEF tbl2, tabs
<1>6. \A t \in Tab : /\ tab'[t].stream = tab[t].stream /\ tab'[t].items = tab[t].items
                     /\ tab'[t].count = tab[t].count
                     /\ tab'[t].exact => tab[t].exact /\ t \notin tabs
  BY <1>1, <1>2, InexactIs, InexactSame
<1>7. Channels'
  BY <1>1, <1>6 DEF FeedInv, Channels
<1>8. AskedInTime'
  BY <1>1, <1>3 DEF FeedInv, AskedInTime
<1>9. Refreshes'
  BY <1>1, AllDisturbed DEF IInv, Typed
<1>10. Screens'
  <2> SUFFICES ASSUME NEW t \in Tab
               PROVE  Faithful(tab'[t], t, table', notifying', Coming(tab'[t], stream'), marks')
    BY DEF Screens
  <2> DEFINE coming == Coming(tab[t], stream)
             r == tab'[t]
  <2>1. Faithful(tab[t], t, table, notifying, coming, marks)
    BY DEF FeedInv, Screens
  <2>2. Coming(tab'[t], stream') = coming
    BY <1>1, <1>6 DEF Coming
  <2>3. r.exact => /\ tab[t].exact /\ m.tab = t /\ (m.note = 0 => m.upto = Len(table))
                   /\ r.items = tab[t].items /\ r.count = tab[t].count
    BY <1>5, <1>6
  <2> HIDE DEF coming, r
  <2>4. Faithful(r, t, tbl2, notifying, coming, marks \ {m})
    BY <1>2, <1>4, <2>1, <2>3, ApplyFaithful
  <2> QED BY <1>1, <2>2, <2>4, Zenon DEF r
<1> QED BY <1>7, <1>8, <1>9, <1>10 DEF FeedInv

LEMMA MarkElsewhereFeed ==
  ASSUME IInv, FeedInv, NEW n \in DOMAIN table, MarkElsewhere(n)
  PROVE  FeedInv'
<1>1. /\ table' = [table EXCEPT ![n] = TRUE] /\ tab' = Inexact(Tab) /\ fetch' = Disturbed(Tab)
      /\ UNCHANGED <<notifying, stream, marks>>
  BY DEF MarkElsewhere
<1>2. table \in Seq(BOOLEAN) /\ tab \in [Tab -> Screen]
  BY DEF IInv, Typed, TableTyped, TabTyped
<1>3. Len(table') = Len(table)
  BY <1>1, <1>2
<1>4. \A t \in Tab : tab'[t].stream = tab[t].stream /\ ~tab'[t].exact
  BY <1>1, <1>2, InexactIs, InexactSame
<1>5. Channels'
  BY <1>1, <1>4 DEF FeedInv, Channels
<1>6. AskedInTime'
  BY <1>1, <1>3 DEF FeedInv, AskedInTime
<1>7. Refreshes'
  BY <1>1, AllDisturbed DEF IInv, Typed
<1>8. Screens'
  BY <1>4 DEF Screens, Faithful
<1> QED BY <1>5, <1>6, <1>7, <1>8 DEF FeedInv

LEMMA NextFeed == IInv /\ FeedInv /\ [Next]_vars => FeedInv'
<1> SUFFICES ASSUME IInv, FeedInv, [Next]_vars PROVE FeedInv'
  OBVIOUS
<1>1. ASSUME NEW here \in BOOLEAN, InsertNotification(here) PROVE FeedInv'
  BY <1>1, InsertNotificationFeed
<1>2. ASSUME NEW n \in notifying, Broadcast(n) PROVE FeedInv'
  BY <1>2, BroadcastFeed
<1>3. ASSUME NEW t \in Tab, Connect(t) \/ SignIn(t) \/ SignOut(t) \/ Focus(t) \/ MarkAllRead(t)
      PROVE  FeedInv'
  BY <1>3, ConnectFeed, SignInFeed, SignOutFeed, FocusFeed, MarkAllReadFeed
<1>4. ASSUME NEW t \in Tab, NEW i \in DOMAIN tab[t].items, MarkRead(t, i) PROVE FeedInv'
  BY <1>4, MarkReadFeed
<1>5. ASSUME NEW k \in DOMAIN stream,
             TicketExpires(k) \/ TakeStreamTicket(k) \/ Push(k) \/ Disconnect(k) \/ Unsubscribe(k)
      PROVE  FeedInv'
  BY <1>5, TicketExpiresFeed, TakeStreamTicketFeed, PushFeed, DisconnectFeed, UnsubscribeFeed
<1>6. ASSUME NEW q \in DOMAIN fetch, ReadList(q) \/ ReadCount(q) \/ Answer(q) PROVE FeedInv'
  BY <1>6, ReadListFeed, ReadCountFeed, AnswerFeed
<1>7. ASSUME NEW m \in marks, ApplyMark(m) PROVE FeedInv'
  BY <1>7, ApplyMarkFeed
<1>8. ASSUME NEW n \in DOMAIN table, MarkElsewhere(n) PROVE FeedInv'
  BY <1>8, MarkElsewhereFeed
<1>9. CASE UNCHANGED vars
  BY <1>9 DEF vars, FeedInv, Channels, AskedInTime, Screens, Refreshes
<1> QED BY <1>1, <1>2, <1>3, <1>4, <1>5, <1>6, <1>7, <1>8, <1>9 DEF Next

LEMMA FeedInvariance == Spec => [](IInv /\ FeedInv)
  BY InitIInv, NextIInv, InitFeed, NextFeed, PTL DEF Spec

(* Once nothing is on its way, a tab that nothing known to be harmful happened  *)
(* to shows the newest of the table and counts all that is unread, for any      *)
(* number of tabs, notifications, streams and refreshes, and lists and channels *)
(* of any length: two queries that see different tables, an answer that         *)
(* overwrites what the stream added, a mark shown before it is stored and the   *)
(* cut of the list never add up to a wrong line or a wrong count.               *)
THEOREM FeedMatches == Spec => []FeedMatchesTable
<1>1. IInv /\ FeedInv => FeedMatchesTable
  <2> SUFFICES ASSUME IInv, FeedInv, notifying = {}, marks = {}, NEW t \in Tab, tab[t].exact, Told(t)
               PROVE  tab[t].items = Listed /\ tab[t].count = Cardinality(Unread)
    BY DEF FeedMatchesTable
  <2> DEFINE R == {n \in DOMAIN table : table[n]}
             N == Len(table)
             coming == Coming(tab[t], stream)
  <2>1. coming = <<>> /\ Len(coming) = 0
    BY DEF Told, Coming
  <2>2. N \in Nat /\ DOMAIN table = 1..N
    BY DEF IInv, Typed, TableTyped
  <2>3. Faithful(tab[t], t, table, {}, coming, {})
    BY DEF FeedInv, Screens
  <2>4. ~Doomed(t, {}, Len(table))
    BY DEF Doomed
  <2>5. PICK v \in 0..N : Accurate(v, tab[t], t, table, {}, coming, {})
    BY <2>3, <2>4 DEF Faithful
  <2>6. v = N
    <3>1. {} = (v + Len(coming) + 1)..N
      BY <2>5, Zenon DEF Accurate
    <3>2. v + Len(coming) + 1 = v + 1
      BY <2>1
    <3>3. v # N => N \in (v + 1)..N
      <4>1. v \in Nat /\ v <= N
        BY <2>2
      <4> QED BY <2>2, <4>1, Bounds
    <3> QED BY <3>1, <3>2, <3>3
  <2>7. ReadBy(v, t, table, {}) = R
    BY <2>2, <2>6 DEF ReadBy, Asked
  <2>8. tab[t].items = Shows(v, R) /\ tab[t].count = Cardinality((1..v) \ R)
    BY <2>5, <2>7, Zenon DEF Accurate
  <2>9. Listed = Shows(N, R)
    BY ListedIs DEF IInv, Typed
  <2>10. Unread = (1..N) \ R
    BY <2>2 DEF Unread
  <2> QED BY <2>6, <2>8, <2>9, <2>10, Zenon
<1> QED BY <1>1, FeedInvariance, PTL
===============================================================================
