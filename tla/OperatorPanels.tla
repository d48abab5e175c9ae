---------------------------- MODULE OperatorPanels --------------------------
(***************************************************************************)
(* The two web servers an operator looks at: demo/ui_server.py (one event  *)
(* loop: an endpoint per page, the broadcaster of events, the poller of    *)
(* the database) and dashboard/dashboard_node.py (ROS timers that hand     *)
(* every page's copy of the state to the web server's loop).  They share   *)
(* the database only: a behaviour has one of them, `server'.               *)
(*                                                                         *)
(* A step is what a coroutine or a callback does between two awaits.  A    *)
(* page is one connection; a browser that comes back is another page,      *)
(* which may have the name of one that is forgotten.  Contents are left    *)
(* out but for the database: `world' is the version a query made now would *)
(* return, Nothing what a query that failed returns.                       *)
(***************************************************************************)
EXTENDS Integers, Sequences, FiniteSets

CONSTANTS
  Pages,
  MaxChanges,   \* bounds the model: changes of the database
  MaxFailures,  \* bounds the model: queries that fail
  MaxQueue,     \* bounds the model: events waiting (no bound in the code)
  MaxSends      \* bounds the model: copies on their way to a page

ASSUME ConstantsAssumption ==
  /\ MaxChanges \in Nat /\ MaxFailures \in Nat
  /\ MaxQueue \in Nat \ {0} /\ MaxSends \in Nat \ {0}

VARIABLES
  server,    \* "demo" or "dashboard"
  world,     \* the version of the database
  failures,  \* how many queries have failed
  page,      \* per page: where its endpoint is, and what the browser shows
  clients,   \* _ws_clients
  events,    \* demo: the length of _event_queue
  caster,    \* demo: _event_broadcaster: the pages it has still to send to, and the dead
  poller,    \* demo: _db_poller
  status,    \* dashboard: _state["tool_status"]
  sends      \* dashboard: per page, the copies handed to the loop

panelsVars == <<server, world, failures, page, clients, events, caster, poller, status, sends>>

Nothing  == -1
Answers  == {Nothing} \cup 0..MaxChanges

\* at: away, joined (accepted and a client), asked (its first query answered),
\* open (receiving), over (the endpoint has ended); here: the browser has not left.
Page == [at : {"away", "joined", "asked", "open", "over"}, here : BOOLEAN,
         first : Answers, shows : Answers]

WorldOK ==
  /\ server \in {"demo", "dashboard"}
  /\ world \in 0..MaxChanges /\ failures \in 0..MaxFailures
PagesOK == page \in [Pages -> Page] /\ clients \subseteq Pages
CasterOK ==
  /\ events \in 0..MaxQueue
  /\ caster \in [busy : BOOLEAN, todo : SUBSET Pages, dead : SUBSET Pages]
  /\ caster.todo \cap caster.dead = {} /\ (caster.busy \/ caster.todo \cup caster.dead = {})
PollerOK == poller \in [at : {"sleep", "read", "send"}, data : Answers, todo : SUBSET Pages]
StatusOK ==
  /\ status \in Answers
  /\ sends \in [Pages -> Seq(Answers)] /\ \A b \in Pages : Len(sends[b]) <= MaxSends

PanelsTypeOK == WorldOK /\ PagesOK /\ CasterOK /\ PollerOK /\ StatusOK

Away   == [at |-> "away", here |-> FALSE, first |-> Nothing, shows |-> Nothing]
Silent == [busy |-> FALSE, todo |-> {}, dead |-> {}]

PanelsInit ==
  /\ server \in {"demo", "dashboard"}
  /\ world = 0 /\ failures = 0
  /\ page = [b \in Pages |-> Away]
  /\ clients = {} /\ events = 0
  /\ caster = Silent
  /\ poller = [at |-> "sleep", data |-> Nothing, todo |-> {}]
  /\ status = Nothing /\ sends = [b \in Pages |-> <<>>]

----------------------------------------------------------------------------
(* The world outside: the store, and the people *)

Change ==
  /\ world < MaxChanges /\ world' = world + 1
  /\ UNCHANGED <<server, failures, page, clients, events, caster, poller, status, sends>>

Leave(b) ==
  /\ page[b].at \in {"joined", "asked", "open"} /\ page[b].here
  /\ page' = [page EXCEPT ![b].here = FALSE, ![b].shows = Nothing]
  /\ UNCHANGED <<server, world, failures, clients, events, caster, poller, status, sends>>

\* Another browser.
Forgotten(b) ==
  /\ page[b].at = "over" /\ b \notin clients \cup caster.todo \cup caster.dead \cup poller.todo
  /\ sends[b] = <<>>
  /\ page' = [page EXCEPT ![b] = Away]
  /\ UNCHANGED <<server, world, failures, clients, events, caster, poller, status, sends>>

\* _query_db, _poll_db: what is in the store, or a failure.
Query(answer) ==
  \/ answer = world /\ UNCHANGED failures
  \/ answer = Nothing /\ failures < MaxFailures /\ failures' = failures + 1

\* A send to a page that has left may go nowhere, or raise; it raises once its
\* endpoint has ended.
Delivered(b) == page[b].at # "over"
Raised(b)    == ~page[b].here

\* What the browsers show once a page was sent an answer.
Receive(b, answer) ==
  IF page[b].here THEN [page EXCEPT ![b].shows = answer] ELSE page

----------------------------------------------------------------------------
(* ws_endpoint *)

\* The dashboard's page is open at once; that of the demo UI asks the database
\* first, in another thread.
Connect(b) ==
  /\ page[b].at = "away"
  /\ page' = [page EXCEPT ![b].here = TRUE,
                          ![b].at = IF server = "demo" THEN "joined" ELSE "open"]
  /\ clients' = clients \cup {b}
  /\ UNCHANGED <<server, world, failures, events, caster, poller, status, sends>>

FirstQuery(b) ==
  /\ page[b].at = "joined"
  /\ \E answer \in Answers :
       Query(answer) /\ page' = [page EXCEPT ![b].at = "asked", ![b].first = answer]
  /\ UNCHANGED <<server, world, clients, events, caster, poller, status, sends>>

\* The first answer; an exception here is outside the try, so that the page
\* stays a client.
Greet(b) ==
  /\ page[b].at = "asked"
  /\ \/ page' = [Receive(b, page[b].first) EXCEPT ![b].at = "open", ![b].first = Nothing]
     \/ Raised(b) /\ page' = [page EXCEPT ![b].at = "over", ![b].first = Nothing]
  /\ UNCHANGED <<server, world, failures, clients, events, caster, poller, status, sends>>

EndpointEnds(b) ==
  /\ page[b].at = "open" /\ ~page[b].here
  /\ page' = [page EXCEPT ![b].at = "over"]
  /\ clients' = clients \ {b}
  /\ UNCHANGED <<server, world, failures, events, caster, poller, status, sends>>

----------------------------------------------------------------------------
(* demo: _emit, _event_broadcaster *)

Emit ==
  /\ server = "demo"
  /\ events < MaxQueue /\ events' = events + 1
  /\ UNCHANGED <<server, world, failures, page, clients, caster, poller, status, sends>>

CastStarts ==
  /\ ~caster.busy /\ events > 0
  /\ events' = events - 1
  /\ caster' = [busy |-> TRUE, todo |-> clients, dead |-> {}]
  /\ UNCHANGED <<server, world, failures, page, clients, poller, status, sends>>

\* Mutant: a page that raises is not remembered.
CastsQuietly(b) ==
  /\ b \in caster.todo
  /\ caster' = [caster EXCEPT !.todo = @ \ {b}]
  /\ UNCHANGED <<server, world, failures, page, clients, events, poller, status, sends>>

Casts(b) ==
  /\ b \in caster.todo
  /\ \/ Delivered(b) /\ caster' = [caster EXCEPT !.todo = @ \ {b}]
     \/ Raised(b) /\ caster' = [caster EXCEPT !.todo = @ \ {b}, !.dead = @ \cup {b}]
  /\ UNCHANGED <<server, world, failures, page, clients, events, poller, status, sends>>

\* The dead are taken from the clients there are now, not from those it began with.
CastEnds ==
  /\ caster.busy /\ caster.todo = {}
  /\ clients' = clients \ caster.dead
  /\ caster' = Silent
  /\ UNCHANGED <<server, world, failures, page, events, poller, status, sends>>

----------------------------------------------------------------------------
(* demo: _db_poller *)

PollQueries ==
  /\ server = "demo" /\ poller.at = "sleep"
  /\ \E answer \in Answers :
       Query(answer) /\ poller' = [poller EXCEPT !.at = "read", !.data = answer]
  /\ UNCHANGED <<server, world, page, clients, events, caster, status, sends>>

\* Mutant: only the pages that are not shown anything yet.
NewcomersOnly == {b \in clients : page[b].shows = Nothing}

\* Whom the answer goes to.
Audience == clients

PollAnswered ==
  /\ poller.at = "read"
  /\ poller' = [poller EXCEPT !.at = "send", !.todo = Audience]
  /\ UNCHANGED <<server, world, failures, page, clients, events, caster, status, sends>>

\* An exception is passed over.
PollSends(b) ==
  /\ b \in poller.todo
  /\ poller' = [poller EXCEPT !.todo = @ \ {b}]
  /\ \/ Delivered(b) /\ page' = Receive(b, poller.data)
     \/ Raised(b) /\ UNCHANGED page
  /\ UNCHANGED <<server, world, failures, clients, events, caster, status, sends>>

PollEnds ==
  /\ poller.at = "send" /\ poller.todo = {}
  /\ poller' = [poller EXCEPT !.at = "sleep", !.data = Nothing]
  /\ UNCHANGED <<server, world, failures, page, clients, events, caster, status, sends>>

----------------------------------------------------------------------------
(* dashboard: _poll_db, _broadcast_state and the web server's loop *)

\* A failure leaves the status as it was (the health mark is left out).
PollDb ==
  /\ server = "dashboard"
  /\ \E answer \in Answers :
       Query(answer) /\ status' = IF answer = Nothing THEN status ELSE answer
  /\ UNCHANGED <<server, world, page, clients, events, caster, poller, sends>>

BroadcastState ==
  /\ server = "dashboard" /\ clients # {}
  /\ \A b \in clients : Len(sends[b]) < MaxSends
  /\ sends' = [b \in Pages |-> IF b \in clients THEN Append(sends[b], status) ELSE sends[b]]
  /\ UNCHANGED <<server, world, failures, page, clients, events, caster, poller, status>>

\* Mutant: _on_done without its default argument drops whatever page the loop ended with.
DropsTheLast(b) == clients \ {CHOOSE c \in clients \cup {b} : TRUE}

\* The page that _on_done drops after a send that raised.
WithoutTheDead(b) == clients \ {b}

\* send_text, and _on_done.
SendDone(b) ==
  /\ sends[b] # <<>>
  /\ sends' = [sends EXCEPT ![b] = Tail(@)]
  /\ \/ Delivered(b) /\ page' = Receive(b, Head(sends[b])) /\ UNCHANGED clients
     \/ Raised(b) /\ clients' = WithoutTheDead(b) /\ UNCHANGED page
  /\ UNCHANGED <<server, world, failures, events, caster, poller, status>>

----------------------------------------------------------------------------
Endpoint(b) == FirstQuery(b) \/ Greet(b) \/ EndpointEnds(b)
Broadcaster == CastStarts \/ CastEnds \/ \E b \in Pages : Casts(b)
Poller == PollQueries \/ PollAnswered \/ PollEnds \/ \E b \in Pages : PollSends(b)

PanelsNext ==
  \/ Change
  \/ \E b \in Pages : Leave(b) \/ Forgotten(b) \/ Connect(b) \/ Endpoint(b)
  \/ Emit \/ Broadcaster \/ Poller
  \/ PollDb \/ BroadcastState \/ \E b \in Pages : SendDone(b)

PanelsSpec == PanelsInit /\ [][PanelsNext]_panelsVars

\* The loops and the timers run; the gripper's state, 10 times a second, is an
\* event; a send ends, well or not.
Fairness ==
  /\ WF_panelsVars(Emit) /\ WF_panelsVars(Broadcaster) /\ WF_panelsVars(Poller)
  /\ WF_panelsVars(PollDb) /\ WF_panelsVars(BroadcastState)
  /\ \A b \in Pages : WF_panelsVars(Endpoint(b)) /\ WF_panelsVars(SendDone(b))

PanelsFairSpec == PanelsSpec /\ Fairness

----------------------------------------------------------------------------
Served(b) == page[b].at = "open" /\ page[b].here

\* A page somebody looks at is never dropped from the clients, whatever other
\* pages come, go or raise while a message is on its way to each in turn, or
\* which of two sends ends first (demo/ui_server.py:303, dashboard_node.py:262).
OpenPagesAreServed == \A b \in Pages : Served(b) => b \in clients

\* A page that is left does not stay a client, not even the one whose first
\* answer could not be sent (demo/ui_server.py:329).
GhostsGo == \A b \in Pages : page[b].at = "over" ~> b \notin clients

\* A page that stays open comes to show what the database says, though its own
\* first query and the poller's may be answered in either order, and some
\* query may fail (demo/ui_server.py:328, dashboard_node.py:229).
PageCatchesUp ==
  \A b \in Pages : Served(b) ~> (page[b].shows = world \/ ~Served(b))
=============================================================================
