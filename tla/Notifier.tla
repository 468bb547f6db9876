------------------------------- MODULE Notifier -------------------------------
(***************************************************************************)
(* WWW/egzamin, second task: zad2-server.py changes a value and tells the     *)
(* pages that listen; a page (ts/zad2.ts) fetches the value, opens a socket   *)
(* and follows the changes.  The server is one thread: others run where a     *)
(* coroutine awaits, also in the middle of telling the listeners.             *)
(***************************************************************************)
EXTENDS Integers, Sequences, SequencesExt, FiniteSetsExt

CONSTANTS
  Pages,
  MaxUpdates, MaxCloses      \* bounds

VARIABLES pc, shared
\* pc[0]: the background task; pc[c]: page c.  shared: current (how often it has been
\* multiplied), the sockets that listen, each <<page, number>>, and the pages' values.

vars == <<pc, shared>>

Init ==
  /\ pc = [p \in {0} \cup Pages |-> IF p = 0 THEN "sleep" ELSE "load"]
  /\ shared = [current |-> 0, listeners |-> <<>>, next |-> 1, change |-> 0, updates |-> 0, closes |-> 0,
               closed |-> {}, socket |-> [c \in Pages |-> 0], inbox |-> [c \in Pages |-> <<>>],
               value |-> [c \in Pages |-> 0], error |-> {}, missed |-> {}]

Goes(p, place) == pc' = [pc EXCEPT ![p] = place]
Socket(c) == <<c, shared.socket[c]>>
-----------------------------------------------------------------------------
(* zad2-server.py *)

\* my_background_task.  missed are the pages whose value may differ from now on: those
\* that have fetched and do not listen yet.
Update ==
  /\ pc[0] = "sleep" /\ shared.updates < MaxUpdates
  /\ \E change \in {1, -1} :
       shared' = [shared EXCEPT !.current = @ + change, !.change = change, !.next = 1, !.updates = @ + 1,
                                !.missed = @ \cup {c \in Pages : pc[c] \in {"fetched", "opening"}}]
  /\ Goes(0, "notify")

\* notify_listeners: the place in the list goes on by one whatever happens to the list
\* meanwhile.  To send on a closed socket may raise an error, which ends the task.
Notify ==
  /\ pc[0] = "notify"
  /\ IF shared.next > Len(shared.listeners) THEN Goes(0, "sleep") /\ UNCHANGED shared
     ELSE LET listener == shared.listeners[shared.next]
              told == [shared EXCEPT !.next = @ + 1]
          IN IF listener \in shared.closed
             THEN \/ Goes(0, "ended") /\ UNCHANGED shared
                  \/ shared' = told /\ UNCHANGED pc
             ELSE shared' = [told EXCEPT !.inbox[listener[1]] = Append(@, shared.change)] /\ UNCHANGED pc

\* Fault: the newest listener is told first.
JoinedFront(listeners, socket) == <<socket>> \o listeners

Joined(listeners, socket) == Append(listeners, socket)

\* websocket_endpoint: who comes while the others are told may be told of a change that
\* its value has already.
Endpoint(c) ==
  /\ pc[c] = "opening"
  /\ shared' = [shared EXCEPT !.listeners = Joined(@, Socket(c)),
                              !.missed = IF pc[0] = "notify" THEN @ \cup {c} ELSE @]
  /\ Goes(c, "listening")

\* The endpoint of a closed socket takes it off the list: the next one moves up, and is
\* skipped if the list is being gone through.
RemoveListener(socket) ==
  LET at == CHOOSE i \in DOMAIN shared.listeners : shared.listeners[i] = socket
      skipped == {shared.listeners[i][1] : i \in {i \in DOMAIN shared.listeners : i = shared.next}}
  IN /\ shared' = [shared EXCEPT !.listeners = RemoveAt(@, at), !.closed = @ \ {socket},
                      !.missed = IF pc[0] = "notify" /\ at < shared.next THEN @ \cup skipped ELSE @]
     /\ UNCHANGED pc
-----------------------------------------------------------------------------
(* zad2.ts *)

\* reloadConn: the value is read, /current on the server.  Pages are alike: they come
\* in the order of their numbers.
Fetch(c) ==
  /\ pc[c] = "load" /\ \A d \in Pages : d < c => pc[d] # "load" \/ shared.socket[d] > 0
  /\ shared' = [shared EXCEPT !.value[c] = shared.current, !.missed = @ \ {c}, !.error = @ \ {c}]
  /\ Goes(c, "fetched")

\* The answer has come: the value is shown, and a socket is asked for.
setup_ws(c) ==
  /\ pc[c] = "fetched"
  /\ shared' = [shared EXCEPT !.socket[c] = @ + 1, !.inbox[c] = <<>>]
  /\ Goes(c, "opening")

\* onmessage, handle_notification.
onmessage(c) ==
  /\ pc[c] = "listening" /\ shared.inbox[c] # <<>>
  /\ shared' = [shared EXCEPT !.value[c] = @ + Head(shared.inbox[c]), !.inbox[c] = Tail(@)]
  /\ UNCHANGED pc

\* The connection is lost: the page says so and has a button to load again.
onclose(c) ==
  /\ pc[c] = "listening" /\ shared.closes < MaxCloses
  /\ shared' = [shared EXCEPT !.closes = @ + 1, !.closed = @ \cup {Socket(c)}, !.inbox[c] = <<>>,
                              !.error = @ \cup {c}]
  /\ Goes(c, "closed")

Reload(c) == pc[c] = "closed" /\ Goes(c, "load") /\ UNCHANGED shared

Page(c) == Endpoint(c) \/ Fetch(c) \/ setup_ws(c) \/ onmessage(c) \/ Reload(c)

Step(p) ==
  \/ p = 0 /\ (Update \/ Notify)
  \/ p \in Pages /\ (Page(p) \/ \E socket \in shared.closed : socket[1] = p /\ RemoveListener(socket))

Next == (\E p \in DOMAIN pc : Step(p)) \/ (\E c \in Pages : onclose(c))

\* All changes have been told, or the task has ended with an error.
Done ==
  /\ pc[0] = "ended" \/ (pc[0] = "sleep" /\ shared.updates = MaxUpdates)
  /\ shared.closed = {}
  /\ \A c \in Pages : pc[c] = "listening" /\ shared.inbox[c] = <<>>
-----------------------------------------------------------------------------
\* A page that shows no error and for which no change came between fetching and
\* listening, and that was not passed over, shows the server's value once it has read
\* what it was sent: each change is told once.  It shows no error while it listens.
NotifiedRight ==
  \A c \in Pages : pc[c] = "listening" =>
    /\ pc[0] = "sleep" /\ c \notin shared.missed =>
         shared.value[c] + FoldLeft(LAMBDA sum, change : sum + change, 0, shared.inbox[c]) = shared.current
    /\ Contains(shared.listeners, Socket(c)) /\ Socket(c) \notin shared.closed /\ c \notin shared.error
=============================================================================
