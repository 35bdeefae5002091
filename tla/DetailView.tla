------------------------------ MODULE DetailView ------------------------------
(***************************************************************************)
(* The detail view of a container (static/app.js): its tabs, the request   *)
(* each tab sends and repeats, and the log streams, whose sockets outlive  *)
(* the viewer they were opened for.                                        *)
(*                                                                         *)
(* A step is one callback.  What the browser paints is abstracted to whose *)
(* data it is; an element that was replaced lives on in the closures that  *)
(* hold it, so a request knows whether its pane is still the one shown.    *)
(* Bounds: Req requests in flight, Viewer log viewers whose stream is not  *)
(* over.                                                                   *)
(***************************************************************************)
EXTENDS Naturals

CONSTANTS
  Container,
  Viewer,         \* log viewers, each with its stream
  Req,            \* slots for requests in flight
  MaxReconnects,  \* MAX_LOG_RECONNECTS
  NoContainer, NoViewer, NoReq, NoStream

ASSUME ReconnectAssumption == MaxReconnects \in Nat \ {0}
ASSUME SentinelAssumption == NoViewer \notin Viewer /\ NoContainer \notin Container

VARIABLES
  shown,    \* what #main displays
  content,  \* whose data the tab's pane displays
  viewer,   \* the #log-output on the screen
  stream,   \* stream[v]: the socket of viewer v, or the timer that will reopen it
  lines,    \* lines[v]: the containers whose lines viewer v holds
  mainWs,   \* the viewer whose socket is main._ws
  asked,    \* the requests in flight
  poll      \* the tab that repeats its request every three seconds

logVars == <<viewer, stream, lines, mainWs>>
vars == <<shown, content, logVars, asked, poll>>

Tab == {"logs", "terminal", "inspect", "stats", "processes", "files"}
Polled == {"stats", "processes"}

On(c, t) == [of |-> c, tab |-> t]
Off(what) == On(NoContainer, what)
Detail == [of : Container, tab : Tab]
InDetail == shown.tab \in Tab

\* "login" is the form after sessionCleanup, "refused" the one a 401 puts up.
Elsewhere == {Off("page"), Off("login"), Off("refused")}

\* A pane shows nothing yet, or the data of a container painted by a tab.
Blank == Off("blank")
NoPoll == Off("none")

Request == [kind : {"inspect", "stats", "processes", "files", "save", "touch"},
            of : Container, mine : BOOLEAN]
Stream == [of : Container, at : {"connecting", "open", "closing", "timer"},
           tries : 0..MaxReconnects]

TypeOK ==
  /\ shown \in Detail \union Elsewhere
  /\ content \in Detail \union {Blank}
  /\ viewer \in Viewer \union {NoViewer}
  /\ stream \in [Viewer -> Stream \union {NoStream}]
  /\ lines \in [Viewer -> SUBSET Container]
  /\ mainWs \in Viewer \union {NoViewer}
  /\ asked \in [Req -> Request \union {NoReq}]
  /\ poll \in [of : Container, tab : Polled] \union {NoPoll}

-----------------------------------------------------------------------------
(* Streams *)

Is(v, state) == stream[v] # NoStream /\ stream[v].at = state
Live(v) == Is(v, "connecting") \/ Is(v, "open")

\* ws.close(): the close event comes later, with the code of the peer.
Closing(v) ==
  IF Live(v) THEN [stream[v] EXCEPT !.at = "closing"] ELSE stream[v]

\* closeDetailWS and the start of showDetail close the one socket main._ws names.
StreamsAfterLeaving ==
  [v \in Viewer |-> IF v = mainWs THEN Closing(v) ELSE stream[v]]

\* closeAllWS closes every socket that is registered.
StreamsAfterCloseAll == [v \in Viewer |-> Closing(v)]

Connect(v, c, tries) == [of |-> c, at |-> "connecting", tries |-> tries]

-----------------------------------------------------------------------------
(* showDetail *)

Detached == [r \in Req |->
  IF asked[r] = NoReq THEN NoReq ELSE [asked[r] EXCEPT !.mine = FALSE]]

\* The pane of tab t sends its request, if a slot is left; r is free by now.
Sent(a, r, k, c) == [a EXCEPT ![r] = [kind |-> k, of |-> c, mine |-> TRUE]]

\* The log tab opens a new viewer with a new socket.
OpenLogs(c) ==
  \E v \in Viewer :
    /\ stream[v] = NoStream
    /\ v # viewer
    /\ viewer' = v
    /\ stream' = [StreamsAfterLeaving EXCEPT ![v] = Connect(v, c, 0)]
    /\ lines' = [lines EXCEPT ![v] = {}]
    /\ mainWs' = v

OpenOther ==
  /\ viewer' = NoViewer
  /\ stream' = StreamsAfterLeaving
  /\ mainWs' = NoViewer
  /\ UNCHANGED lines

\* Mutant: the intervals of the tab that is left are not cleared.
OpenOverPoll(c, t, r) ==
  /\ shown' = On(c, t)
  /\ content' = Blank
  /\ poll' = IF t \in Polled THEN On(c, t) ELSE poll
  /\ IF t = "logs" THEN OpenLogs(c) ELSE OpenOther
  /\ asked' = IF t \in {"logs", "terminal"}
                THEN [Detached EXCEPT ![r] = NoReq]
                ELSE Sent(Detached, r, t, c)

\* Every interval dies, the current socket is closed, #main is built anew, and
\* the tab's content starts.
OpenDetail(c, t, r) ==
  /\ shown' = On(c, t)
  /\ content' = Blank
  /\ poll' = IF t \in Polled THEN On(c, t) ELSE NoPoll
  /\ IF t = "logs" THEN OpenLogs(c) ELSE OpenOther
  /\ asked' = IF t \in {"logs", "terminal"}
                THEN [Detached EXCEPT ![r] = NoReq]
                ELSE Sent(Detached, r, t, c)

\* A row's button on the list, or another tab of the same container.
ShowDetail(c, t, r) ==
  /\ shown = Off("page") \/ (InDetail /\ shown.of = c)
  /\ asked[r] = NoReq
  /\ OpenDetail(c, t, r)

\* showPage, from the view or from anywhere else.
ShowPage ==
  /\ shown' = Off("page")
  /\ content' = Blank
  /\ poll' = NoPoll
  /\ OpenOther
  /\ asked' = Detached

\* #main is written without a word to the view: streams and interval live on.
WriteMain(what) ==
  /\ shown' = what
  /\ content' = Blank
  /\ viewer' = NoViewer
  /\ UNCHANGED <<lines, mainWs, poll>>

\* The late failure of a page that was left (see Pages).
Overwritten ==
  /\ InDetail
  /\ WriteMain(Off("page"))
  /\ asked' = Detached
  /\ UNCHANGED stream

-----------------------------------------------------------------------------
(* Log streams *)

StreamOpens(v) ==
  /\ Is(v, "connecting")
  /\ stream' = [stream EXCEPT ![v].at = "open"]
  /\ UNCHANGED <<shown, content, viewer, lines, mainWs, asked, poll>>

\* Mutant: the line goes to the viewer found by its id, as the answers of the
\* processes tab do.
LineToShown(v) ==
  /\ Is(v, "open")
  /\ viewer # NoViewer
  /\ lines' = [lines EXCEPT ![viewer] = @ \union {stream[v].of}]
  /\ UNCHANGED <<shown, content, viewer, stream, mainWs, asked, poll>>

LineArrives(v) ==
  /\ Is(v, "open")
  /\ lines' = [lines EXCEPT ![v] = @ \union {stream[v].of}]
  /\ UNCHANGED <<shown, content, viewer, stream, mainWs, asked, poll>>

\* 1000 and 4003 end the stream.  Any other code, that of a close() without a code
\* included, arms the timer if a log viewer, this one or another, is shown.
StreamCloses(v) ==
  /\ Live(v) \/ Is(v, "closing")
  /\ \/ stream' = [stream EXCEPT ![v] = NoStream]
     \/ viewer # NoViewer /\ stream' = [stream EXCEPT ![v].at = "timer"]
  /\ UNCHANGED <<shown, content, viewer, lines, mainWs, asked, poll>>

\* Mutant: the timer does not look for a log viewer.
ReconnectAlways(v) ==
  /\ Is(v, "timer")
  /\ LET tries == stream[v].tries + 1 IN
       IF tries >= MaxReconnects
         THEN /\ stream' = [stream EXCEPT ![v] = NoStream]
              /\ UNCHANGED mainWs
         ELSE /\ stream' = [stream EXCEPT ![v] = Connect(v, stream[v].of, tries)]
              /\ mainWs' = v
  /\ UNCHANGED <<shown, content, viewer, lines, asked, poll>>

\* connectLogsWS from the timer: nothing if no log viewer is shown, a last line
\* after MAX_LOG_RECONNECTS, else a new socket, which becomes main._ws.
Reconnect(v) ==
  /\ Is(v, "timer")
  /\ LET tries == stream[v].tries + 1 IN
       IF viewer = NoViewer \/ tries >= MaxReconnects
         THEN /\ stream' = [stream EXCEPT ![v] = NoStream]
              /\ UNCHANGED mainWs
         ELSE /\ stream' = [stream EXCEPT ![v] = Connect(v, stream[v].of, tries)]
              /\ mainWs' = v
  /\ UNCHANGED <<shown, content, viewer, lines, asked, poll>>

-----------------------------------------------------------------------------
(* Requests of the other tabs *)

Waiting(r, k) == asked[r] # NoReq /\ asked[r].kind = k
Answered(r) == asked' = [asked EXCEPT ![r] = NoReq]

\* The processes of a container are written over whatever tab is open.
Covered == content.tab = "processes" /\ shown.tab # "processes"

\* The pane was captured before the await.  An error is painted without data.
InspectAnswered(r) ==
  /\ Waiting(r, "inspect")
  /\ Answered(r)
  /\ \E painted \in {On(asked[r].of, "inspect"), Blank} :
       content' = IF asked[r].mine THEN painted ELSE content
  /\ UNCHANGED <<shown, logVars, poll>>

\* Mutant: the pane is looked up after the await.
FilesIntoShown(r) ==
  /\ Waiting(r, "files")
  /\ Answered(r)
  /\ content' = IF InDetail THEN On(asked[r].of, "files") ELSE content
  /\ UNCHANGED <<shown, logVars, poll>>

\* _renderFileBrowser and _renderDiff fill the panel they were given.
FilesAnswered(r) ==
  /\ Waiting(r, "files")
  /\ Answered(r)
  /\ content' = IF asked[r].mine /\ ~Covered THEN On(asked[r].of, "files") ELSE content
  /\ UNCHANGED <<shown, logVars, poll>>

\* Another directory, Refresh, or the docker diff.
Browse(r) ==
  /\ content = On(shown.of, "files")
  /\ asked[r] = NoReq
  /\ asked' = Sent(asked, r, "files", shown.of)
  /\ content' = Blank
  /\ UNCHANGED <<shown, logVars, poll>>

\* Upload or Delete.
TouchFiles(r) ==
  /\ content = On(shown.of, "files")
  /\ asked[r] = NoReq
  /\ asked' = Sent(asked, r, "touch", shown.of)
  /\ UNCHANGED <<shown, content, logVars, poll>>

\* _renderFileBrowser lists the panel's container again, though it may be off the
\* screen; a failure is told in a toast.
TouchAnswered(r) ==
  /\ Waiting(r, "touch")
  /\ \/ /\ asked' = [asked EXCEPT ![r].kind = "files"]
        /\ content' = IF asked[r].mine /\ ~Covered THEN Blank ELSE content
     \/ Answered(r) /\ UNCHANGED content
  /\ UNCHANGED <<shown, logVars, poll>>

\* The grid is looked up by its id after the await.
StatsAnswered(r) ==
  /\ Waiting(r, "stats")
  /\ Answered(r)
  /\ content' = IF InDetail /\ shown.tab = "stats" /\ ~Covered
                  THEN On(asked[r].of, "stats")
                  ELSE content
  /\ UNCHANGED <<shown, logVars, poll>>

\* So is the pane, of whatever tab: a log viewer in it is gone.
ProcessesAnswered(r) ==
  /\ Waiting(r, "processes")
  /\ Answered(r)
  /\ IF InDetail
       THEN /\ content' = On(asked[r].of, "processes")
            /\ viewer' = NoViewer
       ELSE UNCHANGED <<content, viewer>>
  /\ UNCHANGED <<shown, stream, lines, mainWs, poll>>

\* Rename, or Save in the resources section.
Save(r) ==
  /\ InDetail
  /\ content = On(shown.of, "inspect")
  /\ asked[r] = NoReq
  /\ asked' = Sent(asked, r, "save", shown.of)
  /\ UNCHANGED <<shown, content, logVars, poll>>

\* The view of that container opens again, wherever the user is by now; a failure
\* is told in a toast.
SaveAnswered(r) ==
  /\ Waiting(r, "save")
  /\ \/ OpenDetail(asked[r].of, "inspect", r)
     \/ Answered(r) /\ UNCHANGED <<shown, content, logVars, poll>>

\* The interval ends itself when the pane is gone, and waits for the answer to
\* its last request.
PollTick(r) ==
  /\ poll # NoPoll
  /\ IF InDetail
       THEN /\ asked[r] = NoReq
            /\ \A q \in Req : ~(Waiting(q, poll.tab) /\ asked[q].mine)
            /\ asked' = Sent(asked, r, poll.tab, poll.of)
            /\ UNCHANGED poll
       ELSE poll' = NoPoll /\ UNCHANGED asked
  /\ UNCHANGED <<shown, content, logVars>>

-----------------------------------------------------------------------------
(* The rest of the browser's page *)

\* A request of the view, or of the page, is answered 503: every registered
\* socket is closed.
EngineUnreachable ==
  /\ stream' = StreamsAfterCloseAll
  /\ UNCHANGED <<shown, content, viewer, lines, mainWs, asked, poll>>

\* A 401 writes the login form and stops nothing.
Unauthorized(r) ==
  /\ asked[r] # NoReq
  /\ asked' = [Detached EXCEPT ![r] = NoReq]
  /\ WriteMain(Off("refused"))
  /\ UNCHANGED stream

\* The session's end: sessionCleanup and the login form.
SessionCleanup ==
  /\ shown' = Off("login")
  /\ content' = Blank
  /\ poll' = NoPoll
  /\ viewer' = NoViewer
  /\ stream' = StreamsAfterCloseAll
  /\ mainWs' = NoViewer
  /\ asked' = Detached
  /\ UNCHANGED lines

\* The tab is hidden.
HideTab ==
  /\ poll' = NoPoll
  /\ UNCHANGED <<shown, content, logVars, asked>>

-----------------------------------------------------------------------------

Init ==
  /\ shown = Off("page")
  /\ content = Blank
  /\ viewer = NoViewer
  /\ stream = [v \in Viewer |-> NoStream]
  /\ lines = [v \in Viewer |-> {}]
  /\ mainWs = NoViewer
  /\ asked = [r \in Req |-> NoReq]
  /\ poll = NoPoll

StreamStep(v) == StreamOpens(v) \/ LineArrives(v) \/ StreamCloses(v) \/ Reconnect(v)

Answer(r) ==
  \/ InspectAnswered(r) \/ FilesAnswered(r) \/ StatsAnswered(r)
  \/ TouchAnswered(r) \/ ProcessesAnswered(r) \/ SaveAnswered(r) \/ Unauthorized(r)

Next ==
  \/ \E v \in Viewer : StreamStep(v)
  \/ \E r \in Req :
       \/ Answer(r) \/ PollTick(r) \/ Save(r) \/ Browse(r) \/ TouchFiles(r)
       \/ \E c \in Container, t \in Tab : ShowDetail(c, t, r)
  \/ ShowPage \/ Overwritten \/ EngineUnreachable \/ SessionCleanup \/ HideTab

Spec == Init /\ [][Next]_vars

-----------------------------------------------------------------------------
(* Properties *)

\* The viewer on the screen holds lines of the container in the header only,
\* though streams of viewers that were left may still be delivering.
LinesAreOwn == viewer # NoViewer /\ InDetail => lines[viewer] \subseteq {shown.of}

\* What the inspect and the files tab paint is the container in the header, in
\* its own tab: a late answer never lands in the pane of another.
ContentIsOwn ==
  content.tab \in {"inspect", "files"} => content = shown

\* No interval outlives its tab in the view, where it would paint over the next.
PollIsOwn == poll # NoPoll /\ InDetail => poll = shown

\* Behind the login form of a session that was closed no log socket is open or
\* being opened, whatever timers were armed when it ended.
SignedOutSilent == shown = Off("login") => \A v \in Viewer : ~Live(v)
=============================================================================
