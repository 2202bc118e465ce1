---------------------------- MODULE Maintenance ----------------------------
(***************************************************************************)
(* Maintenance windows: when one is active (internal/domain/maintenance.go)*)
(* and suppresses pages (internal/store/sqlite/maintenance.go), and the    *)
(* two writers of the events that tell subscribers so: the handlers        *)
(* (internal/api/handlers/maintenance.go) and the ticker behind them       *)
(* (internal/maintenance/ticker.go).                                       *)
(*                                                                         *)
(* Time is counted in slots, DayLen to a day; a week and a month have      *)
(* WeekLen and MonthLen days.                                              *)
(***************************************************************************)
EXTENDS Integers, FiniteSets

CONSTANTS
  Windows,     \* ids
  Monitors,
  EveryMonitor,\* the empty monitor id of a window for the whole organisation
  Initial,     \* the windows there may be at the start
  Bodies,      \* what requests set a window to, once validated, and the offset
               \* from UTC, in slots, that its times are written in
  Clients,
  NoWindow, Never,
  DayLen, WeekLen, MonthLen,
  MaxTime,     \* bound
  MaxRequests, \* bound
  MaxUpsets    \* bound: failed emissions and restarts

Times == 0..MaxTime

Window ==
  [start : Times, end : Times, rec : {"", "none", "daily", "weekly", "monthly"},
   until : Times \cup {Never}, days : SUBSET (0..(WeekLen - 1)), dom : 1..MonthLen,
   monitor : Monitors \cup {EveryMonitor}, suppress : BOOLEAN]

MaintenanceAssumption ==
  /\ {DayLen, WeekLen, MonthLen} \subseteq Nat \ {0}
  /\ {MaxTime, MaxRequests, MaxUpsets} \subseteq Nat
  /\ Initial \subseteq Window /\ Bodies \subseteq [win : Window, offset : Nat]
  /\ NoWindow \notin Window /\ Never \notin Times
  /\ Windows # {}

VARIABLES
  now,
  row,      \* the table
  request,
  known,    \* the ticker's map: "no" entry, last seen "active" or "inactive"
  list,     \* the rows that the poll in progress has read, and when
  told,     \* the last event that subscribers have of each window
  current,  \* whether the last poll saw the rows and the time as they are
  unsure,   \* history: windows of which an event was lost, late or never due
  sent, upsets

vars == <<now, row, request, known, list, told, current, unsure, sent, upsets>>

NoList == [at |-> Never, row |-> [w \in Windows |-> NoWindow]]

\* The handler and the store put "none" for a recurrence that is left out.  The
\* times of a row are in UTC.
Stored(win) == [win EXCEPT !.rec = IF @ = "" THEN "none" ELSE @]

Row == {win \in Window : win.rec # ""} \cup {NoWindow}
Idle == [pc |-> "idle", w |-> CHOOSE w \in Windows : TRUE, pre |-> NoWindow,
         new |-> NoWindow, offset |-> 0, at |-> Never]

\* pre: the row before; new: the window after, offset: that of its start, in
\* the handler's copy; at: the time the handler goes by, once it has read it.
TypeOK ==
  /\ now \in Times
  /\ row \in [Windows -> Row]
  /\ request \in [Clients -> [pc : {"idle", "insert", "update", "delete", "emit"},
                              w : Windows, pre : Row, new : Row, offset : Nat,
                              at : Times \cup {Never}]]
  /\ \A c \in Clients : request[c].pc \in {"update", "delete"} => request[c].pre # NoWindow
  /\ known \in [Windows -> {"no", "active", "inactive"}]
  /\ list \in [at : Times \cup {Never}, row : [Windows -> Row]]
  /\ told \in [Windows -> {"none", "started", "ended"}]
  /\ current \in BOOLEAN /\ unsure \subseteq Windows
  /\ sent \in 0..MaxRequests /\ upsets \in 0..MaxUpsets

---------------------------------------------------------------------------
(***************************************************************************)
(* IsActiveAt.                                                             *)
(***************************************************************************)
Day(t) == t \div DayLen
Midnight(t) == Day(t) * DayLen
Weekday(t) == Day(t) % WeekLen
DayOfMonth(t) == (Day(t) % MonthLen) + 1

\* Only the occurrence that starts on the day of t is looked at.  The day is
\* that of t, in UTC; the time of day is that of StartAt in its own offset.
TodayStart(win, offset, t) == Midnight(t) + ((win.start + offset) % DayLen)
InToday(win, offset, t) ==
  LET first == TodayStart(win, offset, t) IN t \in first..(first + win.end - win.start)

OnItsDay(win, t) ==
  CASE win.rec = "daily"   -> TRUE
    [] win.rec = "weekly"  -> Weekday(t) \in win.days
    [] win.rec = "monthly" -> DayOfMonth(t) = win.dom

ActiveFrom(win, offset, t) ==
  IF win.rec = "none" THEN t \in win.start..win.end
  ELSE /\ win.until = Never \/ t <= win.until
       /\ t >= win.start
       /\ OnItsDay(win, t) /\ InToday(win, offset, t)

\* Of a row.
IsActiveAt(win, t) == ActiveFrom(win, 0, t)

Active(w, t) == row[w] # NoWindow /\ IsActiveAt(row[w], t)

\* ListActiveByMonitor: the WHERE clause, then IsActiveAt.
BugSelected(win, t) == win.start <= t /\ win.end >= t
Selected(win, t) ==
  \/ win.rec = "none" /\ win.start <= t /\ win.end >= t
  \/ win.rec # "none" /\ win.start <= t /\ (win.until = Never \/ win.until >= t)

\* notifyStep pages nobody about a monitor with such a window.
Suppressing(m) ==
  {w \in Windows : /\ row[w] # NoWindow
                   /\ row[w].monitor = m /\ row[w].suppress
                   /\ Selected(row[w], now) /\ IsActiveAt(row[w], now)}

---------------------------------------------------------------------------
\* The rows there are when the process starts; nothing has been emitted yet.
Init ==
  /\ now = 0
  /\ row \in [Windows -> {Stored(win) : win \in Initial} \cup {NoWindow}]
  /\ request = [c \in Clients |-> Idle]
  /\ known = [w \in Windows |-> "no"]
  /\ list = NoList
  /\ told = [w \in Windows |-> "none"]
  /\ current = FALSE /\ unsure = {}
  /\ sent = 0 /\ upsets = 0

ticker == <<known, list>>
GoTo(c, state) == request' = [request EXCEPT ![c] = state]

\* Two writers of one window at a time may emit in the wrong order.
Others(c, w) == {d \in Clients \ {c} : request[d].pc # "idle" /\ request[d].w = w}
Doubt(c, w) == unsure' = IF Others(c, w) = {} THEN unsure ELSE unsure \cup {w}

Write(w, win) == row' = [row EXCEPT ![w] = win] /\ current' = FALSE

---------------------------------------------------------------------------
(***************************************************************************)
(* Handlers.                                                               *)
(***************************************************************************)
Send == sent < MaxRequests /\ sent' = sent + 1

\* Create: the time is read before the row is inserted.  Ids are new: w has had
\* no row, no event and no entry in the ticker's map.
Create(c, w, body) ==
  /\ Send /\ request[c].pc = "idle"
  /\ row[w] = NoWindow /\ told[w] = "none" /\ known[w] = "no" /\ Others(c, w) = {}
  /\ GoTo(c, [Idle EXCEPT !.pc = "insert", !.w = w, !.new = Stored(body.win),
                          !.offset = body.offset, !.at = now])
  /\ UNCHANGED <<now, row, current, ticker, told, unsure, upsets>>

\* GetByID; the body sets what is to become of the window.
ReadWindow(c, w, body) ==
  /\ Send /\ request[c].pc = "idle" /\ row[w] # NoWindow
  /\ GoTo(c, [Idle EXCEPT !.pc = "update", !.w = w, !.pre = row[w],
                          !.new = Stored(body.win), !.offset = body.offset])
  /\ Doubt(c, w)
  /\ UNCHANGED <<now, row, current, ticker, told, upsets>>

ReadToDelete(c, w) ==
  /\ Send /\ request[c].pc = "idle" /\ row[w] # NoWindow
  /\ GoTo(c, [Idle EXCEPT !.pc = "delete", !.w = w, !.pre = row[w]])
  /\ Doubt(c, w)
  /\ UNCHANGED <<now, row, current, ticker, told, upsets>>

\* Delete reads the time before its statement, Update after it.
ReadClock(c) ==
  /\ request[c].pc \in {"delete", "emit"} /\ request[c].at = Never
  /\ GoTo(c, [request[c] EXCEPT !.at = now])
  /\ UNCHANGED <<now, row, current, ticker, told, unsure, sent, upsets>>

\* UPDATE and DELETE fail when the row is gone.
Statement(c) ==
  LET r == request[c] IN
  /\ r.pc \in {"insert", "update", "delete"}
  /\ r.pc = "delete" => r.at # Never
  /\ IF row[r.w] = NoWindow /\ r.pc # "insert"
     THEN GoTo(c, Idle) /\ UNCHANGED <<row, current>>
     ELSE Write(r.w, r.new) /\ GoTo(c, [r EXCEPT !.pc = "emit"])
  /\ UNCHANGED <<now, ticker, told, unsure, sent, upsets>>

\* What the handler tells: a change of activity at the time it goes by, from
\* the row before to its own copy of the window.
Was(r) == r.pre # NoWindow /\ IsActiveAt(r.pre, r.at)
Is(r) == r.new # NoWindow /\ ActiveFrom(r.new, r.offset, r.at)
Event(r) ==
  CASE ~Was(r) /\ Is(r) -> "started"
    [] Was(r) /\ ~Is(r) -> "ended"
    [] Was(r) = Is(r)   -> "none"

Tell(w, ev) == IF ev = "none" THEN told ELSE [told EXCEPT ![w] = ev]

\* The last event is one that the ticker does not know of, and it finds w at t
\* as it saw it last: it will say nothing.
Unnoticed(last, w, t) ==
  (last = "started") # (known[w] = "active") /\ Active(w, t) = (known[w] = "active")

\* In the client's offset a recurring window is active when its row is not, or
\* the other way round.
Misled(r) == r.new # NoWindow /\ Is(r) # IsActiveAt(r.new, r.at)

\* Publishing may fail; the error is dropped.
Emit(c) ==
  LET r == request[c] IN
  /\ r.pc = "emit" /\ r.at # Never
  /\ GoTo(c, Idle)
  /\ \/ /\ told' = Tell(r.w, Event(r))
        /\ unsure' = unsure \cup
             {w \in {r.w} : Misled(r) /\ Unnoticed(told'[w], w, now)}
        /\ UNCHANGED upsets
     \/ /\ Event(r) # "none" /\ upsets < MaxUpsets
        /\ upsets' = upsets + 1
        /\ unsure' = unsure \cup {r.w}
        /\ UNCHANGED told
  /\ UNCHANGED <<now, row, current, ticker, sent>>

---------------------------------------------------------------------------
(***************************************************************************)
(* The ticker.                                                             *)
(***************************************************************************)
\* The time is that at which the ticker fired, before the rows are read.
PollList ==
  /\ list = NoList
  /\ \E t \in 0..now : list' = [at |-> t, row |-> row]
  /\ UNCHANGED <<now, row, request, known, told, current, unsure, sent, upsets>>

Listed(w) == list.row[w] # NoWindow
SeenActive(w) == Listed(w) /\ IsActiveAt(list.row[w], list.at)

BugTickerEvent(w) ==
  CASE Listed(w) /\ known[w] # "active" /\ SeenActive(w)  -> "started"
    [] Listed(w) /\ known[w] = "active" /\ ~SeenActive(w) -> "ended"
    [] OTHER -> "none"
TickerEvent(w) ==
  CASE known[w] # "active" /\ SeenActive(w)  -> "started"
    [] known[w] = "active" /\ ~SeenActive(w) -> "ended"
    [] OTHER -> "none"

\* A poll that overlaps a request tells of rows or of a time gone by; an event
\* that cannot be published is logged and dropped.
PollApply ==
  /\ list # NoList
  /\ \E lost \in SUBSET {w \in Windows : TickerEvent(w) # "none"} :
       /\ IF lost = {} THEN UNCHANGED upsets ELSE upsets < MaxUpsets /\ upsets' = upsets + 1
       /\ told' = [w \in Windows |-> IF TickerEvent(w) = "none" \/ w \in lost THEN told[w]
                                     ELSE TickerEvent(w)]
       /\ unsure' = unsure \cup lost \cup
            {w \in Windows : \/ \E c \in Clients : request[c].pc # "idle" /\ request[c].w = w
                             \/ list.row[w] # row[w]}
  /\ known' = [w \in Windows |-> IF ~Listed(w) THEN "no"
                                 ELSE IF SeenActive(w) THEN "active" ELSE "inactive"]
  /\ current' = (list = [at |-> now, row |-> row])
  /\ list' = NoList
  /\ UNCHANGED <<now, row, request, sent>>

---------------------------------------------------------------------------
\* What a handler has told and the ticker has not seen yet, and time undoes.
Undone(w) == Unnoticed(told[w], w, now + 1)

\* Also a request in progress then goes by a time that is not now.
InProgress == {request[c].w : c \in {d \in Clients : request[d].pc # "idle"}}

Tick ==
  /\ now < MaxTime
  /\ now' = now + 1
  /\ current' = FALSE
  /\ unsure' = unsure \cup {w \in Windows : Undone(w)} \cup InProgress
  /\ UNCHANGED <<row, request, ticker, told, sent, upsets>>

\* The ticker's map and the requests are lost.
Restart ==
  /\ upsets < MaxUpsets
  /\ upsets' = upsets + 1
  /\ known' = [w \in Windows |-> "no"] /\ list' = NoList
  /\ request' = [c \in Clients |-> Idle]
  /\ unsure' = unsure \cup {w \in Windows : told[w] = "started"} \cup InProgress
  /\ current' = FALSE
  /\ UNCHANGED <<now, row, told, sent>>

Next ==
  \/ \E c \in Clients :
       \/ \E w \in Windows :
            \/ \E body \in Bodies : Create(c, w, body) \/ ReadWindow(c, w, body)
            \/ ReadToDelete(c, w)
       \/ ReadClock(c) \/ Statement(c) \/ Emit(c)
  \/ PollList \/ PollApply \/ Tick \/ Restart

Spec == Init /\ [][Next]_vars

---------------------------------------------------------------------------
\* The occurrences of a recurring window that have started by the day of t.
Occurrences(win, t) ==
  {d * DayLen + (win.start - Midnight(win.start)) :
     d \in {e \in Day(win.start)..Day(t) :
             \/ win.rec = "daily"
             \/ win.rec = "weekly" /\ e % WeekLen \in win.days
             \/ win.rec = "monthly" /\ (e % MonthLen) + 1 = win.dom}}

\* A window is active in its occurrences, whatever the recurrence, and at no
\* other time; in the part of an occurrence after midnight it is not.
ActiveInOccurrences ==
  \A w \in Windows : row[w] # NoWindow /\ row[w].rec # "none" =>
    LET win == row[w]
        dur == win.end - win.start
        In(o) == now \in o..(o + dur)
    IN  IsActiveAt(win, now) <=>
          /\ win.until = Never \/ now <= win.until
          /\ \E o \in Occurrences(win, now) : In(o) /\ Day(o) = Day(now)

\* Pages are suppressed exactly while a window of the monitor itself that asks
\* for it is active; one for the whole organisation suppresses none.
SuppressedWhileActive ==
  \A m \in Monitors :
    Suppressing(m) # {} <=>
      \E w \in Windows : Active(w, now) /\ row[w].monitor = m /\ row[w].suppress

\* "so downstream subscribers aren't left thinking it's still ongoing": once
\* the ticker has seen how things are and no request is at work, the last
\* event of a window says whether it is active.  The exceptions, of which the
\* ticker says nothing more: overlapping requests and polls, lost events,
\* restarts, a window that a request has started or ended, and time has ended
\* or started again before the ticker looked, and one whose times are written
\* in an offset from UTC and by whose time of day, in that offset, a request
\* has told of a change that the row does not show.
EventsFollowWindows ==
  current /\ InProgress = {} =>
    \A w \in Windows \ unsure : told[w] = "started" <=> Active(w, now)
=============================================================================
