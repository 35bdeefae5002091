----------------------------- MODULE Browser_proofs -----------------------------
(***************************************************************************)
(* The browser's detail view, for any number of containers, log viewers    *)
(* and requests, and its setup wizard, for any number of tokens and        *)
(* submissions: the types, and the invariants the runs check.              *)
(***************************************************************************)
EXTENDS DetailView, WizardPromises, TLAPS

--------------------------------------------------------------------------------
(* The detail view: types *)

\* What a request or the header names is a pane of a container, never a pane that
\* is elsewhere or blank.
LEMMA PaneFacts ==
  /\ \A c \in Container, t \in Tab : On(c, t) \in Detail /\ On(c, t).of = c /\ On(c, t).tab = t
  /\ \A d \in Detail : d.of \in Container /\ d.tab \in Tab /\ d = On(d.of, d.tab)
  /\ \A w : Off(w).tab = w
  /\ {"inspect", "files", "stats", "processes", "logs", "terminal"} = Tab
  /\ \A w \in {"page", "login", "refused", "blank", "none"} : w \notin Tab
BY DEF On, Off, Detail, Tab

\* A socket that is told to close is a stream of the same container, no longer live.
LEMMA ClosingFacts ==
  ASSUME TypeOK, NEW v \in Viewer
  PROVE  /\ Closing(v) \in Stream \union {NoStream}
         /\ Closing(v) # NoStream => stream[v] # NoStream /\ Closing(v).of = stream[v].of
         /\ Closing(v) # NoStream => Closing(v).at \notin {"connecting", "open"}
BY DEF TypeOK, Closing, Live, Is, Stream

\* What a request becomes when its pane is left, and a request that is sent.
LEMMA RequestFacts ==
  ASSUME TypeOK
  PROVE  /\ Detached \in [Req -> Request \union {NoReq}]
         /\ \A r \in Req : [Detached EXCEPT ![r] = NoReq] \in [Req -> Request \union {NoReq}]
         /\ \A r \in Req : [asked EXCEPT ![r] = NoReq] \in [Req -> Request \union {NoReq}]
         /\ \A r \in Req, c \in Container,
               k \in {"inspect", "stats", "processes", "files", "save", "touch"} :
              /\ Sent(asked, r, k, c) \in [Req -> Request \union {NoReq}]
              /\ Sent(Detached, r, k, c) \in [Req -> Request \union {NoReq}]
BY DEF TypeOK, Detached, Sent, Request

\* The streams after the view was left, and after everything was closed.
LEMMA StreamsTyped ==
  ASSUME TypeOK
  PROVE  /\ StreamsAfterLeaving \in [Viewer -> Stream \union {NoStream}]
         /\ StreamsAfterCloseAll \in [Viewer -> Stream \union {NoStream}]
BY ClosingFacts DEF TypeOK, StreamsAfterLeaving, StreamsAfterCloseAll

\* Opening a tab keeps the types.
LEMMA OpenTyped ==
  ASSUME TypeOK, NEW c \in Container, NEW t \in Tab, NEW r \in Req, OpenDetail(c, t, r)
  PROVE  TypeOK'
<1>1. shown' \in Detail /\ content' = Blank
  BY PaneFacts DEF OpenDetail
<1>3. poll' \in [of : Container, tab : Polled] \union {NoPoll}
  BY DEF OpenDetail, On
<1>2. asked' \in [Req -> Request \union {NoReq}]
  BY RequestFacts DEF OpenDetail, Tab
<1>4. CASE t = "logs"
  <2>1. PICK v \in Viewer :
          /\ viewer' = v /\ mainWs' = v
          /\ stream' = [StreamsAfterLeaving EXCEPT ![v] = Connect(v, c, 0)]
          /\ lines' = [lines EXCEPT ![v] = {}]
    BY <1>4 DEF OpenDetail, OpenLogs
  <2>2. Connect(v, c, 0) \in Stream
    BY ReconnectAssumption DEF Connect, Stream
  <2>3. stream' \in [Viewer -> Stream \union {NoStream}]
    BY <2>1, <2>2, StreamsTyped
  <2> QED BY <1>1, <1>2, <1>3, <2>1, <2>3 DEF TypeOK
<1>5. CASE t # "logs"
  BY <1>1, <1>2, <1>3, <1>5, StreamsTyped DEF TypeOK, OpenDetail, OpenOther
<1> QED BY <1>4, <1>5

\* So do the streams.
LEMMA StreamTyped ==
  ASSUME TypeOK, NEW v \in Viewer, StreamStep(v) PROVE TypeOK'
<1> USE DEF TypeOK, Stream
<1>1. CASE StreamOpens(v) BY <1>1 DEF StreamOpens, Is
<1>2. CASE LineArrives(v) BY <1>2 DEF LineArrives, Is
<1>3. CASE StreamCloses(v) BY <1>3 DEF StreamCloses, Live, Is
<1>4. CASE Reconnect(v)
  <2>1. stream[v] \in Stream /\ stream[v].tries \in Nat BY <1>4 DEF Reconnect, Is
  <2> QED BY <1>4, <2>1, ReconnectAssumption DEF Reconnect, Connect
<1> QED BY <1>1, <1>2, <1>3, <1>4 DEF StreamStep

\* And the answers.
LEMMA AnswerTyped ==
  ASSUME TypeOK, NEW r \in Req, Answer(r) PROVE TypeOK'
<1> USE PaneFacts, RequestFacts DEF TypeOK, Waiting, Answered, logVars
<1>0. asked[r] # NoReq => asked[r] \in Request /\ asked[r].of \in Container
  BY DEF Request
<1>1. CASE InspectAnswered(r) BY <1>0, <1>1 DEF InspectAnswered
<1>2. CASE FilesAnswered(r) BY <1>0, <1>2 DEF FilesAnswered
<1>3. CASE StatsAnswered(r) BY <1>0, <1>3 DEF StatsAnswered
<1>4. CASE TouchAnswered(r)
  <2>1. [asked EXCEPT ![r].kind = "files"] \in [Req -> Request \union {NoReq}]
    BY <1>0, <1>4 DEF TouchAnswered, Request
  <2> QED BY <1>4, <2>1 DEF TouchAnswered
<1>5. CASE ProcessesAnswered(r) BY <1>0, <1>5 DEF ProcessesAnswered
<1>6. CASE SaveAnswered(r)
  <2>1. CASE OpenDetail(asked[r].of, "inspect", r)
    <3>1. asked[r].of \in Container /\ "inspect" \in Tab BY <1>0, <1>6 DEF SaveAnswered
    <3> QED BY <2>1, <3>1, OpenTyped
  <2>2. CASE Answered(r) /\ UNCHANGED <<shown, content, logVars, poll>> BY <2>2
  <2> QED BY <1>6, <2>1, <2>2 DEF SaveAnswered
<1>7. CASE Unauthorized(r)
  <2>1. asked' \in [Req -> Request \union {NoReq}] BY <1>7 DEF Unauthorized
  <2>2. shown' \in Elsewhere BY <1>7 DEF Unauthorized, WriteMain, Elsewhere
  <2> QED BY <1>7, <2>1, <2>2 DEF Unauthorized, WriteMain
<1> QED BY <1>1, <1>2, <1>3, <1>4, <1>5, <1>6, <1>7 DEF Answer

LEMMA NextTyped == TypeOK /\ [Next]_vars => TypeOK'
<1> SUFFICES ASSUME TypeOK, [Next]_vars PROVE TypeOK'
  OBVIOUS
<1>1. ASSUME NEW v \in Viewer, StreamStep(v) PROVE TypeOK' BY <1>1, StreamTyped
<1>2. ASSUME NEW r \in Req, Answer(r) PROVE TypeOK' BY <1>2, AnswerTyped
<1>3. ASSUME NEW r \in Req, NEW c \in Container, NEW t \in Tab, ShowDetail(c, t, r) PROVE TypeOK'
  BY <1>3, OpenTyped DEF ShowDetail
<1> USE PaneFacts, RequestFacts, StreamsTyped DEF TypeOK, logVars, Elsewhere, InDetail
<1>4. ASSUME NEW r \in Req, PollTick(r) PROVE TypeOK'
  <2>1. CASE InDetail
    <3>1. poll.of \in Container /\ poll.tab \in Polled BY <1>4 DEF PollTick
    <3>2. asked' = Sent(asked, r, poll.tab, poll.of) BY <1>4, <2>1 DEF PollTick
    <3>3. asked' \in [Req -> Request \union {NoReq}] BY <3>1, <3>2 DEF Polled
    <3> QED BY <1>4, <2>1, <3>3 DEF PollTick
  <2>2. CASE ~InDetail BY <1>4, <2>2 DEF PollTick
  <2> QED BY <2>1, <2>2
<1>5. ASSUME NEW r \in Req, Save(r) \/ Browse(r) \/ TouchFiles(r) PROVE TypeOK'
  <2>1. shown.of \in Container
    BY <1>5 DEF Save, Browse, TouchFiles, On, Off, Blank, Detail
  <2>2. asked' \in [Req -> Request \union {NoReq}]
    BY <1>5, <2>1 DEF Save, Browse, TouchFiles
  <2> QED BY <1>5, <2>2 DEF Save, Browse, TouchFiles
<1>6. CASE ShowPage BY <1>6 DEF ShowPage, OpenOther
<1>7. CASE Overwritten BY <1>7 DEF Overwritten, WriteMain
<1>8. CASE EngineUnreachable BY <1>8 DEF EngineUnreachable
<1>9. CASE SessionCleanup BY <1>9 DEF SessionCleanup
<1>10. CASE HideTab BY <1>10 DEF HideTab
<1>11. CASE UNCHANGED vars BY <1>11 DEF vars
<1> QED BY <1>1, <1>2, <1>3, <1>4, <1>5, <1>6, <1>7, <1>8, <1>9, <1>10, <1>11 DEF Next

\* The detail view keeps its types.
THEOREM DetailTypeCorrect == Spec => []TypeOK
<1>1. Init => TypeOK BY DEF Init, TypeOK, Elsewhere
<1> QED BY <1>1, NextTyped, PTL DEF Spec

--------------------------------------------------------------------------------
(* The detail view: log streams *)

\* A log viewer is only shown in the view; its own stream is of the container in
\* the header, whatever has reconnected in the meantime, and so is what it holds.
LogInv ==
  viewer # NoViewer =>
    /\ InDetail
    /\ stream[viewer] # NoStream => stream[viewer].of = shown.of
    /\ lines[viewer] \subseteq {shown.of}

\* A tab that opens has a viewer of its own, or none.
LEMMA OpenLog ==
  ASSUME TypeOK, NEW c \in Container, NEW t \in Tab, NEW r \in Req, OpenDetail(c, t, r)
  PROVE  LogInv'
<1>1. CASE t = "logs"
  <2>1. PICK v \in Viewer :
          /\ viewer' = v
          /\ stream' = [StreamsAfterLeaving EXCEPT ![v] = Connect(v, c, 0)]
          /\ lines' = [lines EXCEPT ![v] = {}]
    BY <1>1 DEF OpenDetail, OpenLogs
  <2>2. stream'[v].of = c /\ lines'[v] = {}
    BY <2>1, StreamsTyped DEF TypeOK, Connect
  <2>3. shown'.of = c /\ shown'.tab \in Tab
    BY PaneFacts DEF OpenDetail
  <2> QED BY <2>1, <2>2, <2>3 DEF LogInv, InDetail
<1>2. CASE t # "logs" BY <1>2 DEF OpenDetail, OpenOther, LogInv
<1> QED BY <1>1, <1>2

LEMMA NextLog == TypeOK /\ LogInv /\ [Next]_vars => LogInv'
<1> SUFFICES ASSUME TypeOK, LogInv, [Next]_vars PROVE LogInv'
  OBVIOUS
<1> USE DEF LogInv, InDetail, logVars
<1>1. ASSUME NEW v \in Viewer, StreamStep(v) PROVE LogInv'
  <2> USE DEF TypeOK, Stream
  <2>1. CASE StreamOpens(v) BY <1>1, <2>1 DEF StreamOpens, Is
  <2>2. CASE LineArrives(v)
    <3>1. \A w \in Viewer : lines'[w] \subseteq lines[w] \union {stream[v].of}
      BY <2>2 DEF LineArrives
    <3>2. \A w \in Viewer : w # v => lines'[w] = lines[w]
      BY <2>2 DEF LineArrives
    <3>3. stream[v] # NoStream /\ UNCHANGED <<viewer, stream, shown>>
      BY <2>2 DEF LineArrives, Is
    <3> QED BY <3>1, <3>2, <3>3
  <2>3. CASE StreamCloses(v) BY <2>3 DEF StreamCloses, Live, Is
  <2>4. CASE Reconnect(v) BY <2>4 DEF Reconnect, Connect, Is
  <2> QED BY <1>1, <2>1, <2>2, <2>3, <2>4 DEF StreamStep
<1>2. ASSUME NEW r \in Req, Answer(r) PROVE LogInv'
  <2>1. CASE SaveAnswered(r)
    <3>1. CASE OpenDetail(asked[r].of, "inspect", r)
      BY <3>1 DEF OpenDetail, OpenOther
    <3>2. CASE UNCHANGED <<shown, content, logVars, poll>> BY <3>2
    <3> QED BY <2>1, <3>1, <3>2 DEF SaveAnswered
  <2>2. CASE ProcessesAnswered(r) BY <2>2 DEF ProcessesAnswered
  <2>3. CASE Unauthorized(r) BY <2>3 DEF Unauthorized, WriteMain
  <2>4. CASE InspectAnswered(r) \/ FilesAnswered(r) \/ StatsAnswered(r) \/ TouchAnswered(r)
    BY <2>4 DEF InspectAnswered, FilesAnswered, StatsAnswered, TouchAnswered
  <2> QED BY <1>2, <2>1, <2>2, <2>3, <2>4 DEF Answer
<1>3. ASSUME NEW r \in Req, NEW c \in Container, NEW t \in Tab, ShowDetail(c, t, r) PROVE LogInv'
  BY <1>3, OpenLog DEF ShowDetail
<1>4. ASSUME NEW r \in Req, PollTick(r) \/ Save(r) \/ Browse(r) \/ TouchFiles(r) PROVE LogInv'
  BY <1>4 DEF PollTick, Save, Browse, TouchFiles
<1>5. CASE ShowPage BY <1>5 DEF ShowPage, OpenOther
<1>6. CASE Overwritten BY <1>6 DEF Overwritten, WriteMain
<1>7. CASE EngineUnreachable
  <2>1. viewer # NoViewer => stream'[viewer] = Closing(viewer)
    BY <1>7 DEF EngineUnreachable, StreamsAfterCloseAll, TypeOK
  <2> QED BY <1>7, <2>1, ClosingFacts DEF EngineUnreachable, TypeOK
<1>8. CASE SessionCleanup BY <1>8 DEF SessionCleanup
<1>9. CASE HideTab BY <1>9 DEF HideTab
<1>10. CASE UNCHANGED vars BY <1>10 DEF vars
<1> QED BY <1>1, <1>2, <1>3, <1>4, <1>5, <1>6, <1>7, <1>8, <1>9, <1>10 DEF Next

LEMMA LogHolds == Spec => []LogInv
<1>1. Init => LogInv BY DEF Init, LogInv
<1> QED BY <1>1, NextLog, DetailTypeCorrect, PTL DEF Spec

\* However streams end and come back, the viewer on the screen holds lines of the
\* container in the header only.
THEOREM LinesStayOwn == Spec => []LinesAreOwn
<1>1. LogInv => LinesAreOwn BY DEF LogInv, LinesAreOwn
<1> QED BY <1>1, LogHolds, PTL

LEMMA NextSilent == TypeOK /\ LogInv /\ SignedOutSilent /\ [Next]_vars => SignedOutSilent'
<1> SUFFICES ASSUME TypeOK, LogInv, SignedOutSilent, [Next]_vars, shown' = Off("login"),
                    NEW v \in Viewer
             PROVE  ~Live(v)'
  BY DEF SignedOutSilent
<1> USE DEF SignedOutSilent, Live, Is, logVars
<1>1. shown'.tab \notin Tab BY PaneFacts
<1>2. shown = Off("login") => viewer = NoViewer
  BY PaneFacts DEF LogInv, InDetail
<1>3. ASSUME NEW w \in Viewer, StreamStep(w) PROVE ~Live(v)'
  <2>1. shown = Off("login")
    BY <1>3 DEF StreamStep, StreamOpens, LineArrives, StreamCloses, Reconnect
  <2> USE <1>2, <2>1 DEF TypeOK
  <2>2. CASE StreamOpens(w) BY <2>2 DEF StreamOpens
  <2>3. CASE LineArrives(w) BY <2>3 DEF LineArrives
  <2>4. CASE StreamCloses(w) BY <2>4 DEF StreamCloses
  <2>5. CASE Reconnect(w) BY <2>5 DEF Reconnect
  <2> QED BY <1>3, <2>2, <2>3, <2>4, <2>5 DEF StreamStep
<1>4. ASSUME NEW r \in Req, Answer(r) PROVE ~Live(v)'
  <2>1. CASE SaveAnswered(r)
    <3>1. CASE OpenDetail(asked[r].of, "inspect", r)
      BY <1>1, <3>1, PaneFacts DEF OpenDetail, On
    <3>2. CASE UNCHANGED <<shown, content, logVars, poll>> BY <3>2
    <3> QED BY <2>1, <3>1, <3>2 DEF SaveAnswered
  <2>2. CASE Unauthorized(r) BY <2>2, PaneFacts DEF Unauthorized, WriteMain
  <2>3. CASE InspectAnswered(r) \/ FilesAnswered(r) \/ StatsAnswered(r) \/ TouchAnswered(r)
             \/ ProcessesAnswered(r)
    BY <2>3 DEF InspectAnswered, FilesAnswered, StatsAnswered, TouchAnswered, ProcessesAnswered
  <2> QED BY <1>4, <2>1, <2>2, <2>3 DEF Answer
<1>5. ASSUME NEW r \in Req, NEW c \in Container, NEW t \in Tab, ShowDetail(c, t, r) PROVE FALSE
  BY <1>1, <1>5, PaneFacts DEF ShowDetail, OpenDetail
<1>6. ASSUME NEW r \in Req, PollTick(r) \/ Save(r) \/ Browse(r) \/ TouchFiles(r) PROVE ~Live(v)'
  BY <1>6 DEF PollTick, Save, Browse, TouchFiles
<1>7. CASE ShowPage BY <1>7, PaneFacts DEF ShowPage
<1>8. CASE Overwritten BY <1>8, PaneFacts DEF Overwritten, WriteMain
<1>9. CASE EngineUnreachable \/ SessionCleanup
  <2>1. stream'[v] = Closing(v)
    BY <1>9 DEF EngineUnreachable, SessionCleanup, StreamsAfterCloseAll
  <2> QED BY <2>1, ClosingFacts
<1>10. CASE HideTab BY <1>10 DEF HideTab
<1>11. CASE UNCHANGED vars BY <1>11 DEF vars
<1> QED BY <1>3, <1>4, <1>5, <1>6, <1>7, <1>8, <1>9, <1>10, <1>11 DEF Next

\* After the session's end no log socket is open or being opened, whichever timers
\* were armed.
THEOREM SignedOutStaysSilent == Spec => []SignedOutSilent
<1>1. Init => SignedOutSilent BY DEF Init, SignedOutSilent, Live, Is
<1> QED BY <1>1, NextSilent, DetailTypeCorrect, LogHolds, PTL DEF Spec

--------------------------------------------------------------------------------
(* The detail view: the interval and the pane *)

LEMMA NextPoll == TypeOK /\ PollIsOwn /\ [Next]_vars => PollIsOwn'
<1> SUFFICES ASSUME TypeOK, PollIsOwn, [Next]_vars PROVE PollIsOwn'
  OBVIOUS
<1> USE DEF PollIsOwn, InDetail, logVars
<1>1. ASSUME NEW c \in Container, NEW t \in Tab, NEW r \in Req, OpenDetail(c, t, r)
      PROVE  PollIsOwn'
  BY <1>1 DEF OpenDetail
<1>2. ASSUME NEW v \in Viewer, StreamStep(v) PROVE PollIsOwn'
  BY <1>2 DEF StreamStep, StreamOpens, LineArrives, StreamCloses, Reconnect
<1>3. ASSUME NEW r \in Req, Answer(r) PROVE PollIsOwn'
  <2>1. CASE SaveAnswered(r)
    <3>1. asked[r].of \in Container /\ "inspect" \in Tab
      BY <2>1 DEF SaveAnswered, Waiting, TypeOK, Request, Tab
    <3>2. CASE OpenDetail(asked[r].of, "inspect", r) BY <1>1, <3>1, <3>2
    <3>3. CASE UNCHANGED <<shown, content, logVars, poll>> BY <3>3
    <3> QED BY <2>1, <3>2, <3>3 DEF SaveAnswered
  <2>2. CASE Unauthorized(r) BY <2>2, PaneFacts DEF Unauthorized, WriteMain
  <2>3. CASE InspectAnswered(r) \/ FilesAnswered(r) \/ StatsAnswered(r) \/ TouchAnswered(r)
             \/ ProcessesAnswered(r)
    BY <2>3 DEF InspectAnswered, FilesAnswered, StatsAnswered, TouchAnswered, ProcessesAnswered
  <2> QED BY <1>3, <2>1, <2>2, <2>3 DEF Answer
<1>4. ASSUME NEW r \in Req, NEW c \in Container, NEW t \in Tab, ShowDetail(c, t, r)
      PROVE  PollIsOwn'
  BY <1>1, <1>4 DEF ShowDetail
<1>5. ASSUME NEW r \in Req, PollTick(r) \/ Save(r) \/ Browse(r) \/ TouchFiles(r)
      PROVE  PollIsOwn'
  BY <1>5 DEF PollTick, Save, Browse, TouchFiles
<1>6. CASE ShowPage \/ SessionCleanup \/ HideTab BY <1>6 DEF ShowPage, SessionCleanup, HideTab
<1>7. CASE Overwritten BY <1>7, PaneFacts DEF Overwritten, WriteMain
<1>8. CASE EngineUnreachable BY <1>8 DEF EngineUnreachable
<1>9. CASE UNCHANGED vars BY <1>9 DEF vars
<1> QED BY <1>2, <1>3, <1>4, <1>5, <1>6, <1>7, <1>8, <1>9 DEF Next

\* However a view is left, for another tab, another container, a page or a login
\* form, no interval repeats a request over the tab that is open.
THEOREM PollStaysOwn == Spec => []PollIsOwn
<1>1. Init => PollIsOwn BY DEF Init, PollIsOwn
<1> QED BY <1>1, NextPoll, DetailTypeCorrect, PTL DEF Spec

\* The tab a request paints when it is answered.
Painted(r) == On(asked[r].of, IF asked[r].kind = "touch" THEN "files" ELSE asked[r].kind)

\* A request that still knows its pane to be on the screen is for the container
\* and the tab that are shown.
PaneInv ==
  /\ ContentIsOwn
  /\ \A r \in Req :
       /\ asked[r] # NoReq
       /\ asked[r].mine
       /\ asked[r].kind \in {"inspect", "files", "touch"}
       => shown = Painted(r)

\* A pane that is replaced is no request's any more.
LEMMA DetachedFacts ==
  ASSUME TypeOK
  PROVE  \A r \in Req : Detached[r] # NoReq => ~Detached[r].mine
BY DEF TypeOK, Detached, Request

LEMMA OpenPane ==
  ASSUME TypeOK, NEW c \in Container, NEW t \in Tab, NEW r \in Req, OpenDetail(c, t, r)
  PROVE  PaneInv'
<1>1. content' = Blank /\ shown' = On(c, t) BY DEF OpenDetail
<1>2. ContentIsOwn' BY <1>1 DEF ContentIsOwn, Blank, Off, On
<1>3. ASSUME NEW q \in Req, asked'[q] # NoReq, asked'[q].mine,
             asked'[q].kind \in {"inspect", "files", "touch"}
      PROVE  shown' = Painted(q)'
  <2>0. Detached \in [Req -> Request \union {NoReq}] BY RequestFacts
  <2>1. q = r /\ asked' = Sent(Detached, r, t, c)
    BY <1>3, <2>0, DetachedFacts DEF OpenDetail, Sent
  <2>2. asked'[q] = [kind |-> t, of |-> c, mine |-> TRUE] BY <2>0, <2>1 DEF Sent
  <2> QED BY <1>1, <2>2 DEF Painted, Tab
<1> QED BY <1>2, <1>3 DEF PaneInv

LEMMA NextPane == TypeOK /\ PaneInv /\ [Next]_vars => PaneInv'
<1> SUFFICES ASSUME TypeOK, PaneInv, [Next]_vars PROVE PaneInv'
  OBVIOUS
<1>a. ASSUME content' = Blank, asked' = Detached PROVE PaneInv'
  BY <1>a, DetachedFacts DEF PaneInv, ContentIsOwn, Blank, Off, On
<1>b. ASSUME UNCHANGED <<shown, content, asked>> PROVE PaneInv'
  BY <1>b DEF PaneInv, ContentIsOwn, Painted
<1>c. ASSUME NEW r \in Req, Answered(r), shown' = shown, ContentIsOwn' PROVE PaneInv'
  BY <1>c DEF PaneInv, Answered, TypeOK, Painted
<1>1. ASSUME NEW v \in Viewer, StreamStep(v) PROVE PaneInv'
  BY <1>1, <1>b DEF StreamStep, StreamOpens, LineArrives, StreamCloses, Reconnect
<1>2. ASSUME NEW r \in Req, Answer(r) PROVE PaneInv'
  <2> USE DEF Waiting
  <2>1. CASE InspectAnswered(r)
    <3>1. ContentIsOwn'
      BY <2>1 DEF InspectAnswered, PaneInv, ContentIsOwn, Painted, On, Off, Blank
    <3> QED BY <1>c, <2>1, <3>1 DEF InspectAnswered
  <2>2. CASE FilesAnswered(r)
    <3>1. ContentIsOwn' BY <2>2 DEF FilesAnswered, PaneInv, ContentIsOwn, Painted, On
    <3> QED BY <1>c, <2>2, <3>1 DEF FilesAnswered
  <2>3. CASE StatsAnswered(r)
    <3>1. ContentIsOwn' BY <2>3 DEF StatsAnswered, PaneInv, ContentIsOwn, On
    <3> QED BY <1>c, <2>3, <3>1 DEF StatsAnswered
  <2>4. CASE ProcessesAnswered(r)
    <3>1. ContentIsOwn' BY <2>4 DEF ProcessesAnswered, PaneInv, ContentIsOwn, On
    <3> QED BY <1>c, <2>4, <3>1 DEF ProcessesAnswered
  <2>5. CASE TouchAnswered(r)
    <3>1. ContentIsOwn' BY <2>5 DEF TouchAnswered, PaneInv, ContentIsOwn, On, Off, Blank
    <3>2. CASE asked' = [asked EXCEPT ![r].kind = "files"]
      <4>1. ASSUME NEW q \in Req, asked'[q] # NoReq, asked'[q].mine,
                   asked'[q].kind \in {"inspect", "files", "touch"}
            PROVE  shown' = Painted(q)'
        <5>1. CASE q = r
          BY <2>5, <3>2, <4>1, <5>1 DEF TouchAnswered, PaneInv, Painted, TypeOK, Request
        <5>2. CASE q # r
          BY <2>5, <3>2, <4>1, <5>2 DEF TouchAnswered, PaneInv, Painted, TypeOK
        <5> QED BY <5>1, <5>2
      <4> QED BY <3>1, <4>1 DEF PaneInv
    <3>3. CASE Answered(r) BY <1>c, <2>5, <3>1, <3>3 DEF TouchAnswered
    <3> QED BY <2>5, <3>2, <3>3 DEF TouchAnswered
  <2>6. CASE SaveAnswered(r)
    <3>1. asked[r].of \in Container /\ "inspect" \in Tab
      BY <2>6 DEF SaveAnswered, TypeOK, Request, Tab
    <3>2. CASE OpenDetail(asked[r].of, "inspect", r) BY <3>1, <3>2, OpenPane
    <3>3. CASE Answered(r) /\ UNCHANGED <<shown, content, logVars, poll>>
      <4>1. ContentIsOwn' BY <3>3 DEF PaneInv, ContentIsOwn
      <4> QED BY <1>c, <3>3, <4>1
    <3> QED BY <2>6, <3>2, <3>3 DEF SaveAnswered
  <2>7. CASE Unauthorized(r)
    <3>1. \A q \in Req : asked'[q] # NoReq => ~asked'[q].mine
      BY <2>7, RequestFacts, DetachedFacts DEF Unauthorized
    <3> QED BY <2>7, <3>1 DEF Unauthorized, WriteMain, PaneInv, ContentIsOwn, Blank, Off, On
  <2> QED BY <1>2, <2>1, <2>2, <2>3, <2>4, <2>5, <2>6, <2>7 DEF Answer
<1>3. ASSUME NEW r \in Req, NEW c \in Container, NEW t \in Tab, ShowDetail(c, t, r) PROVE PaneInv'
  BY <1>3, OpenPane DEF ShowDetail
<1>d. ASSUME NEW r \in Req, NEW k \in {"stats", "processes", "save", "files", "touch"},
             NEW c \in Container, asked' = Sent(asked, r, k, c), shown' = shown, ContentIsOwn',
             k \in {"files", "touch"} => shown = On(c, "files")
      PROVE  PaneInv'
  <2>1. ASSUME NEW q \in Req, asked'[q] # NoReq, asked'[q].mine,
               asked'[q].kind \in {"inspect", "files", "touch"}
        PROVE  shown' = Painted(q)'
    <3>1. CASE q = r
      <4>1. asked'[r] = [kind |-> k, of |-> c, mine |-> TRUE] BY <1>d DEF Sent, TypeOK
      <4> QED BY <1>d, <2>1, <3>1, <4>1 DEF Painted
    <3>2. CASE q # r
      <4>1. asked'[q] = asked[q] BY <1>d, <3>2 DEF Sent, TypeOK
      <4> QED BY <1>d, <2>1, <4>1 DEF PaneInv, Painted
    <3> QED BY <3>1, <3>2
  <2> QED BY <1>d, <2>1 DEF PaneInv
<1>4. ASSUME NEW r \in Req, PollTick(r) PROVE PaneInv'
  <2>1. ContentIsOwn' BY <1>4 DEF PollTick, PaneInv, ContentIsOwn
  <2>2. CASE InDetail
    <3>1. poll.of \in Container /\ poll.tab \in {"stats", "processes"}
      BY <1>4 DEF PollTick, TypeOK, Polled
    <3> QED BY <1>4, <1>d, <2>1, <2>2, <3>1 DEF PollTick
  <2>3. CASE ~InDetail BY <1>4, <1>b, <2>3 DEF PollTick
  <2> QED BY <2>2, <2>3
<1>5. ASSUME NEW r \in Req, Save(r) PROVE PaneInv'
  <2>1. shown.of \in Container
    BY <1>5, PaneFacts DEF Save, InDetail, TypeOK, Elsewhere, Detail
  <2>2. ContentIsOwn' BY <1>5 DEF Save, PaneInv, ContentIsOwn
  <2> QED BY <1>5, <1>d, <2>1, <2>2 DEF Save
<1>6. ASSUME NEW r \in Req, Browse(r) \/ TouchFiles(r) PROVE PaneInv'
  <2>1. content = On(shown.of, "files") BY <1>6 DEF Browse, TouchFiles
  <2>2. shown = On(shown.of, "files") BY <2>1 DEF PaneInv, ContentIsOwn, On
  <2>3. shown.of \in Container
    BY <2>1, <2>2, PaneFacts DEF TypeOK, Elsewhere, Off, On, Detail
  <2>4. ContentIsOwn'
    BY <1>6 DEF Browse, TouchFiles, PaneInv, ContentIsOwn, Blank, Off, On
  <2> QED BY <1>6, <1>d, <2>2, <2>3, <2>4 DEF Browse, TouchFiles
<1>7. CASE ShowPage BY <1>7, <1>a DEF ShowPage
<1>8. CASE Overwritten BY <1>8, <1>a DEF Overwritten, WriteMain
<1>9. CASE SessionCleanup BY <1>9, <1>a DEF SessionCleanup
<1>10. CASE EngineUnreachable \/ HideTab BY <1>10, <1>b DEF EngineUnreachable, HideTab
<1>11. CASE UNCHANGED vars BY <1>11, <1>b DEF vars
<1> QED BY <1>1, <1>2, <1>3, <1>4, <1>5, <1>6, <1>7, <1>8, <1>9, <1>10, <1>11 DEF Next

\* The inspect and the files tab never paint another container's data, nor their
\* own in another tab, however late their answers are.
THEOREM ContentStaysOwn == Spec => []ContentIsOwn
<1>1. Init => PaneInv BY DEF Init, PaneInv, ContentIsOwn, Blank, Off, On
<1>2. PaneInv => ContentIsOwn BY DEF PaneInv
<1> QED BY <1>1, <1>2, NextPane, DetailTypeCorrect, PTL DEF Spec

--------------------------------------------------------------------------------
(* The wizard *)

CONSTANTS Theirs, Clipboard, MaxInFlight

VARIABLES page, field, made, captured, acked, saveOn, sessionOn, mode, host, tunnel, probing,
          polling, ticking, polls, visible, submits, window, rival

W == INSTANCE Wizard

\* The buttons, the flags and the timers of the wizard; and everything else.
Flags ==
  /\ acked \in BOOLEAN /\ saveOn \in BOOLEAN /\ sessionOn \in BOOLEAN
  /\ probing \in BOOLEAN /\ polling \in BOOLEAN /\ ticking \in BOOLEAN
  /\ visible \in BOOLEAN /\ rival \in BOOLEAN

Fields ==
  /\ page \in {"wizard", "app"}
  /\ field \in Token \union {NoToken}
  /\ made \subseteq Token /\ taken \subseteq Token /\ captured \subseteq Token
  /\ mode \in {"local", "tunnel"}
  /\ host \in W!Place
  /\ tunnel \in {"down", "busy", "opening", "up"}
  /\ polls \subseteq W!Answer
  /\ submits \subseteq W!Submission
  /\ stored \in Token \union {NoToken}
  /\ server \in Token \union {Theirs, NoToken}
  /\ given \subseteq Token
  /\ window \in {"open", "last", "closed"}

LEMMA FlagsTyped == Flags /\ [W!Next]_(W!vars) => Flags'
<1> SUFFICES ASSUME Flags, [W!Next]_(W!vars) PROVE Flags'
  OBVIOUS
<1> USE DEF Flags, W!tokenVars, W!hostVars, W!clockVars, W!serverVars
<1>1. CASE W!Generate \/ W!Copy \/ W!ConnectTunnel \/ W!TunnelAdmitted \/ W!TunnelAnswered
           \/ W!ProbeAnswered
  BY <1>1, Zenon DEF W!Generate, W!Copy, W!ConnectTunnel, W!TunnelAdmitted, W!TunnelAnswered,
      W!ProbeAnswered
<1>2. ASSUME NEW m \in {"local", "tunnel"}, W!SetMode(m) PROVE Flags'
  BY <1>2, Zenon DEF W!SetMode
<1>3. CASE W!Poll \/ W!LocalExpiry
  BY <1>3, Zenon DEF W!Poll, W!LocalExpiry, W!Closed
<1>4. ASSUME NEW a \in W!Answer, W!PollAnswered(a) \/ W!PollLost(a) PROVE Flags'
  <2>1. (sessionOn \/ acked) \in BOOLEAN OBVIOUS
  <2> QED BY <1>4, <2>1, Zenon DEF W!PollAnswered, W!PollLost, W!Opened, W!Closed
<1>5. ASSUME NEW s \in submits, W!Admit(s) \/ W!Apply(s) \/ W!Dropped(s) PROVE Flags'
  BY <1>5, Zenon DEF W!Admit, W!Apply, W!Dropped
<1>6. ASSUME NEW s \in submits, W!Accepted(s) PROVE Flags'
  BY <1>6, Zenon DEF W!Accepted, W!Gone
<1>7. CASE W!Reload BY <1>7, Zenon DEF W!Reload, W!Gone, W!Fresh
<1>8. CASE W!HideTab \/ W!ShowTab \/ W!WindowCloses \/ W!OtherAdmitted \/ W!OtherConfigures
  BY <1>8, Zenon DEF W!HideTab, W!ShowTab, W!WindowCloses, W!OtherAdmitted, W!OtherConfigures
<1>9. CASE W!Submit BY <1>9, Zenon DEF W!Submit
<1>10. CASE UNCHANGED W!vars BY <1>10, Zenon DEF W!vars
<1> QED BY <1>1, <1>2, <1>3, <1>4, <1>5, <1>6, <1>7, <1>8, <1>9, <1>10 DEF W!Next

\* A token that is generated is one.
LEMMA FreshTyped == Fields /\ made # Token => W!FreshToken \in Token
BY DEF Fields, W!FreshToken

\* What the submissions in flight become when the document is left.
LEMMA LeaveTyped ==
  ASSUME Fields, W!Leave
  PROVE  submits' \subseteq W!Submission /\ polls' \subseteq W!Answer
BY DEF Fields, W!Leave, W!At, W!Submission

LEMMA FieldsTyped == Fields /\ [W!Next]_(W!vars) => Fields'
<1> SUFFICES ASSUME Fields, [W!Next]_(W!vars) PROVE Fields'
  OBVIOUS
<1> USE DEF Fields, W!tokenVars, W!hostVars, W!clockVars, W!serverVars, W!Place
<1>1. CASE W!Generate \/ W!Copy \/ W!ConnectTunnel \/ W!TunnelAdmitted \/ W!TunnelAnswered
           \/ W!ProbeAnswered
  BY <1>1, FreshTyped DEF W!Generate, W!Copy, W!ConnectTunnel, W!TunnelAdmitted,
      W!TunnelAnswered, W!ProbeAnswered
<1>2. ASSUME NEW m \in {"local", "tunnel"}, W!SetMode(m) PROVE Fields'
  BY <1>2 DEF W!SetMode
<1>3. CASE W!Poll \/ W!ShowTab
  BY <1>3 DEF W!Poll, W!ShowTab, W!Ask, W!Answered, W!Answer
<1>4. ASSUME NEW a \in W!Answer, W!PollAnswered(a) \/ W!PollLost(a) PROVE Fields'
  BY <1>4 DEF W!PollAnswered, W!PollLost
<1>5. CASE W!Submit
  <2>1. [token |-> field, at |-> "sent", mine |-> TRUE] \in W!Submission /\ field \in Token
    BY <1>5 DEF W!Submit, W!Submission
  <2> QED BY <1>5, <2>1 DEF W!Submit
<1>6. ASSUME NEW s \in submits, W!Admit(s) \/ W!Apply(s) \/ W!Dropped(s) PROVE Fields'
  BY <1>6 DEF W!Admit, W!Apply, W!Dropped, W!At, W!Move, W!Forget, W!Submission
<1>7. ASSUME NEW s \in submits, W!Accepted(s) PROVE Fields'
  <2>1. stored' \in Token BY <1>7 DEF W!Accepted, W!At, W!Submission
  <2> QED BY <1>7, <2>1, LeaveTyped DEF W!Accepted, W!Gone
<1>8. CASE W!Reload BY <1>8, LeaveTyped DEF W!Reload, W!Gone, W!Fresh
<1>9. CASE W!LocalExpiry \/ W!HideTab \/ W!WindowCloses \/ W!OtherAdmitted \/ W!OtherConfigures
  BY <1>9 DEF W!LocalExpiry, W!HideTab, W!WindowCloses, W!OtherAdmitted, W!OtherConfigures
<1>10. CASE UNCHANGED W!vars BY <1>10 DEF W!vars
<1> QED BY <1>1, <1>2, <1>3, <1>4, <1>5, <1>6, <1>7, <1>8, <1>9, <1>10 DEF W!Next

\* The wizard keeps its types.
THEOREM WizardTypeCorrect == W!Spec => []W!TypeOK
<1>1. W!Init => Fields /\ Flags
  BY DEF W!Init, Fields, Flags, W!Place
<1>2. W!TypeOK <=> Fields /\ Flags
  BY DEF W!TypeOK, Fields, Flags
<1> QED BY <1>1, <1>2, FieldsTyped, FlagsTyped, PTL DEF W!Spec

\* What the operator may still submit was taken before: a token the In-memory button
\* acknowledges, and every token that is in flight.
TakenInv ==
  /\ TokenIsTaken
  /\ acked \/ sessionOn => field \in taken
  /\ \A s \in submits : s.token \in taken

LEMMA NextTaken ==
  ASSUME W!SentinelAssumption
  PROVE  W!TypeOK /\ TakenInv /\ [W!Next]_(W!vars) => TakenInv'
<1> SUFFICES ASSUME W!TypeOK, TakenInv, [W!Next]_(W!vars) PROVE TakenInv'
  OBVIOUS
<1> USE DEF TakenInv, TokenIsTaken, W!tokenVars, W!hostVars, W!clockVars, W!serverVars
<1>0. submits \subseteq W!Submission BY DEF W!TypeOK
<1>1. CASE W!Generate BY <1>1 DEF W!Generate
<1>2. CASE W!Copy BY <1>2 DEF W!Copy
<1>3. CASE W!ConnectTunnel \/ W!TunnelAdmitted \/ W!TunnelAnswered \/ W!ProbeAnswered
           \/ W!Poll \/ W!HideTab
           \/ W!WindowCloses \/ W!OtherAdmitted
  BY <1>3 DEF W!ConnectTunnel, W!TunnelAdmitted, W!TunnelAnswered, W!ProbeAnswered, W!Poll,
              W!HideTab, W!WindowCloses, W!OtherAdmitted
<1>4. ASSUME NEW m \in {"local", "tunnel"}, W!SetMode(m) PROVE TakenInv'
  BY <1>4 DEF W!SetMode
<1>5. CASE W!LocalExpiry BY <1>5 DEF W!LocalExpiry, W!Closed
<1>6. ASSUME NEW a \in W!Answer, W!PollAnswered(a) \/ W!PollLost(a) PROVE TakenInv'
  <2>1. sessionOn' => sessionOn \/ acked
    BY <1>6, Zenon DEF W!PollAnswered, W!PollLost, W!Opened, W!Closed
  <2> QED BY <1>6, <2>1 DEF W!PollAnswered, W!PollLost
<1>7. CASE W!Submit
  <2>1. field \in taken' /\ taken \subseteq taken' BY <1>7 DEF W!Submit
  <2>2. \A s \in submits' : s.token \in taken'
    BY <1>0, <1>7, <2>1 DEF W!Submit
  <2> QED BY <1>7, <2>1, <2>2 DEF W!Submit
<1>8. ASSUME NEW s \in submits, W!Admit(s) PROVE TakenInv'
  BY <1>0, <1>8 DEF W!Admit, W!At, W!Move, W!Submission
<1>9. ASSUME NEW s \in submits, W!Apply(s) PROVE TakenInv'
  BY <1>0, <1>9 DEF W!Apply, W!At, W!Move, W!Forget, W!Submission
<1>10. ASSUME W!Leave, taken' = taken
       PROVE  \A s \in submits' : s.token \in taken'
  BY <1>0, <1>10 DEF W!Leave, W!At, W!Submission
<1>11. ASSUME NEW s \in submits, W!Accepted(s) PROVE TakenInv'
  BY <1>10, <1>11 DEF W!Accepted, W!Gone
<1>12. ASSUME NEW s \in submits, W!Dropped(s) PROVE TakenInv' BY <1>0, <1>12 DEF W!Dropped, W!Forget
<1>13. CASE W!Reload BY <1>10, <1>13 DEF W!Reload, W!Gone, W!Fresh
<1>14. CASE W!ShowTab BY <1>14 DEF W!ShowTab
<1>15. CASE W!OtherConfigures
  BY <1>15, W!SentinelAssumption DEF W!OtherConfigures, W!SentinelAssumption
<1>16. CASE UNCHANGED W!vars BY <1>16 DEF W!vars
<1> QED
  BY <1>1, <1>2, <1>3, <1>4, <1>5, <1>6, <1>7, <1>8, <1>9, <1>11, <1>12, <1>13, <1>14, <1>15,
     <1>16 DEF W!Next

\* However generating, copying, polling, submitting and losing answers interleave,
\* the server only ever runs with a token of the wizard that the operator has
\* acknowledged with a click on Copy, whatever became of it, or downloaded.
THEOREM TokenStaysTaken ==
  ASSUME W!SentinelAssumption
  PROVE  W!Spec => []TokenIsTaken
<1>1. W!Init => TakenInv
  BY W!SentinelAssumption DEF W!Init, TakenInv, TokenIsTaken, W!SentinelAssumption
<1>2. W!TypeOK /\ TakenInv /\ [W!Next]_(W!vars) => TakenInv' BY W!SentinelAssumption, NextTaken
<1>3. TakenInv => TokenIsTaken BY DEF TakenInv
<1> QED BY <1>1, <1>2, <1>3, WizardTypeCorrect, PTL DEF W!Spec

\* Where no write to the clipboard fails, what was taken was captured.
CapturedInv == captured = taken

LEMMA NextCaptured ==
  ASSUME Clipboard = {TRUE}
  PROVE  CapturedInv /\ [W!Next]_(W!vars) => CapturedInv'
<1> SUFFICES ASSUME CapturedInv, [W!Next]_(W!vars) PROVE CapturedInv'
  OBVIOUS
<1> USE DEF CapturedInv, W!tokenVars
<1>1. CASE W!Copy BY <1>1, Clipboard = {TRUE} DEF W!Copy
<1>2. CASE W!Submit BY <1>2 DEF W!Submit
<1>3. CASE W!Generate \/ W!ConnectTunnel \/ W!TunnelAdmitted \/ W!TunnelAnswered
           \/ W!ProbeAnswered \/ W!Poll \/ W!LocalExpiry \/ W!HideTab \/ W!ShowTab
           \/ W!WindowCloses \/ W!OtherAdmitted \/ W!OtherConfigures
  BY <1>3 DEF W!Generate, W!ConnectTunnel, W!TunnelAdmitted, W!TunnelAnswered, W!ProbeAnswered,
              W!Poll, W!LocalExpiry, W!HideTab, W!ShowTab, W!WindowCloses, W!OtherAdmitted,
              W!OtherConfigures
<1>4. ASSUME NEW m \in {"local", "tunnel"}, W!SetMode(m) PROVE CapturedInv'
  BY <1>4 DEF W!SetMode
<1>5. ASSUME NEW a \in W!Answer, W!PollAnswered(a) \/ W!PollLost(a) PROVE CapturedInv'
  BY <1>5 DEF W!PollAnswered, W!PollLost
<1>6. ASSUME NEW s \in submits, W!Admit(s) \/ W!Apply(s) \/ W!Dropped(s) PROVE CapturedInv'
  BY <1>6 DEF W!Admit, W!Apply, W!Dropped
<1>7. ASSUME NEW s \in submits, W!Accepted(s) PROVE CapturedInv'
  BY <1>7 DEF W!Accepted, W!Gone
<1>8. CASE W!Reload BY <1>8 DEF W!Reload, W!Gone, W!Fresh
<1>9. CASE UNCHANGED W!vars BY <1>9 DEF W!vars
<1> QED BY <1>1, <1>2, <1>3, <1>4, <1>5, <1>6, <1>7, <1>8, <1>9 DEF W!Next

\* In a browser whose writes to the clipboard succeed, the server only ever runs with
\* a token of the wizard that the operator can still produce.
THEOREM CapturedIfCopied ==
  ASSUME W!SentinelAssumption, Clipboard = {TRUE}
  PROVE  W!Spec => []W!TokenIsCaptured
<1>1. W!Init => CapturedInv BY DEF W!Init, CapturedInv
<1>2. CapturedInv /\ [W!Next]_(W!vars) => CapturedInv'
  BY Clipboard = {TRUE}, NextCaptured
<1>3. CapturedInv /\ TokenIsTaken => W!TokenIsCaptured
  BY DEF CapturedInv, TokenIsTaken, W!TokenIsCaptured
<1>4. W!Spec => []TokenIsTaken BY W!SentinelAssumption, TokenStaysTaken
<1> QED BY <1>1, <1>2, <1>3, <1>4, PTL DEF W!Spec

\* An accepted submission is of a token the server was given.
GivenInv ==
  /\ StoredWasGiven
  /\ \A s \in W!At("accepted") : s.token \in given

LEMMA NextGiven == W!TypeOK /\ GivenInv /\ [W!Next]_(W!vars) => GivenInv'
<1> SUFFICES ASSUME W!TypeOK, GivenInv, [W!Next]_(W!vars) PROVE GivenInv'
  OBVIOUS
<1> USE DEF GivenInv, StoredWasGiven, W!At, W!tokenVars, W!hostVars, W!clockVars, W!serverVars
<1>0. submits \subseteq W!Submission BY DEF W!TypeOK
<1>1. CASE W!Generate \/ W!Copy \/ W!ConnectTunnel \/ W!TunnelAdmitted \/ W!TunnelAnswered
           \/ W!ProbeAnswered
           \/ W!Poll \/ W!LocalExpiry \/ W!HideTab \/ W!ShowTab \/ W!WindowCloses
           \/ W!OtherAdmitted \/ W!OtherConfigures
  BY <1>1 DEF W!Generate, W!Copy, W!ConnectTunnel, W!TunnelAdmitted, W!TunnelAnswered,
      W!ProbeAnswered, W!Poll,
              W!LocalExpiry, W!HideTab, W!ShowTab, W!WindowCloses, W!OtherAdmitted,
              W!OtherConfigures
<1>2. ASSUME NEW m \in {"local", "tunnel"}, W!SetMode(m) PROVE GivenInv'
  BY <1>2 DEF W!SetMode
<1>3. ASSUME NEW a \in W!Answer, W!PollAnswered(a) \/ W!PollLost(a) PROVE GivenInv'
  BY <1>3 DEF W!PollAnswered, W!PollLost
<1>4. ASSUME NEW s \in submits, W!Admit(s) \/ W!Dropped(s) PROVE GivenInv'
  BY <1>0, <1>4 DEF W!Admit, W!Dropped, W!Move, W!Forget, W!Submission
<1>5. ASSUME NEW s \in submits, W!Apply(s) PROVE GivenInv'
  BY <1>0, <1>5 DEF W!Apply, W!Move, W!Forget, W!Submission
<1>6. ASSUME W!Leave, given' = given
      PROVE  W!At("accepted")' = {}
  BY <1>0, <1>6 DEF W!Leave, W!Submission
<1>7. ASSUME NEW s \in submits, W!Accepted(s) PROVE GivenInv'
  BY <1>6, <1>7 DEF W!Accepted, W!Gone
<1>8. CASE W!Reload BY <1>6, <1>8 DEF W!Reload, W!Gone, W!Fresh
<1>9. CASE W!Submit BY <1>9 DEF W!Submit
<1>10. CASE UNCHANGED W!vars BY <1>10 DEF W!vars
<1> QED BY <1>1, <1>2, <1>3, <1>4, <1>5, <1>7, <1>8, <1>9, <1>10 DEF W!Next

\* The tab never signs in with a token the server refused or was never sent.
THEOREM StoredIsGiven == W!Spec => []StoredWasGiven
<1>1. W!Init => GivenInv BY DEF W!Init, GivenInv, StoredWasGiven, W!At
<1>2. GivenInv => StoredWasGiven BY DEF GivenInv
<1> QED BY <1>1, <1>2, NextGiven, WizardTypeCorrect, PTL DEF W!Spec

\* What every step of the wizard does to the four places a token is in.
LEMMA NextHandover ==
  ASSUME W!SentinelAssumption, W!TypeOK, TakenInv, GivenInv, [W!Next]_(W!vars)
  PROVE  \/ \E t \in Token : Take(t) \/ Configure(t) \/ SignIn(t)
         \/ ConfigureElsewhere
         \/ UNCHANGED promised
<1> USE DEF promised, W!tokenVars, W!serverVars
<1>0. submits \subseteq W!Submission BY DEF W!TypeOK
<1>1. CASE W!Copy
  <2>1. field \in Token /\ Take(field) BY <1>1 DEF W!Copy, W!TypeOK, Take
  <2> QED BY <2>1
<1>2. ASSUME W!Submit
      PROVE  (\E t \in Token : Take(t)) \/ UNCHANGED promised
  <2>1. field \in Token BY <1>2 DEF W!Submit, W!TypeOK
  <2> QED BY <1>2, <2>1 DEF W!Submit, Take
<1>3. ASSUME NEW s \in submits, W!Apply(s) PROVE \E t \in Token : Configure(t)
  <2>1. s.token \in Token /\ s.token \in taken
    BY <1>0, <1>3 DEF W!Apply, W!At, W!Submission, TakenInv
  <2> QED BY <1>3, <2>1 DEF W!Apply, Configure
<1>4. ASSUME NEW s \in submits, W!Accepted(s) PROVE \E t \in Token : SignIn(t)
  <2>1. s.token \in Token /\ s.token \in given
    BY <1>0, <1>4 DEF W!Accepted, W!At, W!Submission, GivenInv
  <2> QED BY <1>4, <2>1 DEF W!Accepted, W!Gone, SignIn
<1>5. CASE W!OtherConfigures
  BY <1>5 DEF W!OtherConfigures, W!Configured, ConfigureElsewhere, W!SentinelAssumption
<1>6. CASE W!Generate \/ W!ConnectTunnel \/ W!TunnelAdmitted \/ W!TunnelAnswered
           \/ W!ProbeAnswered \/ W!Poll
           \/ W!LocalExpiry \/ W!HideTab \/ W!ShowTab \/ W!WindowCloses \/ W!OtherAdmitted
  BY <1>6 DEF W!Generate, W!ConnectTunnel, W!TunnelAdmitted, W!TunnelAnswered, W!ProbeAnswered,
      W!Poll,
              W!LocalExpiry, W!HideTab, W!ShowTab, W!WindowCloses, W!OtherAdmitted
<1>7. ASSUME NEW m \in {"local", "tunnel"}, W!SetMode(m) PROVE UNCHANGED promised
  BY <1>7 DEF W!SetMode
<1>8. ASSUME NEW a \in W!Answer, W!PollAnswered(a) \/ W!PollLost(a) PROVE UNCHANGED promised
  BY <1>8 DEF W!PollAnswered, W!PollLost
<1>9. ASSUME NEW s \in submits, W!Admit(s) \/ W!Dropped(s) PROVE UNCHANGED promised
  BY <1>9 DEF W!Admit, W!Dropped
<1>10. CASE W!Reload BY <1>10 DEF W!Reload, W!Gone, W!Fresh
<1>11. CASE UNCHANGED W!vars BY <1>11 DEF W!vars
<1> QED BY <1>1, <1>2, <1>3, <1>4, <1>5, <1>6, <1>7, <1>8, <1>9, <1>10, <1>11 DEF W!Next

\* The wizard with its fields, buttons, polls and lost answers implements the
\* hand-over: taken, then given to the server, then signed in with, in that order.
\* The server's token may be replaced by another operator's at any time.
THEOREM WizardHandsOver ==
  ASSUME W!SentinelAssumption
  PROVE  W!Spec => Handover
<1>1. W!Init => HandoverInit /\ TakenInv /\ GivenInv
  BY W!SentinelAssumption
     DEF W!Init, HandoverInit, TakenInv, TokenIsTaken, GivenInv, StoredWasGiven, W!At,
         W!SentinelAssumption
<1>2. W!TypeOK /\ TakenInv /\ GivenInv /\ [W!Next]_(W!vars)
        => [ (\E t \in Token : Take(t) \/ Configure(t) \/ SignIn(t)) \/ ConfigureElsewhere ]_promised
  BY W!SentinelAssumption, NextHandover
<1>3. W!TypeOK /\ TakenInv /\ [W!Next]_(W!vars) => TakenInv' BY W!SentinelAssumption, NextTaken
<1> QED BY <1>1, <1>2, <1>3, NextGiven, WizardTypeCorrect, PTL DEF W!Spec, Handover
================================================================================
