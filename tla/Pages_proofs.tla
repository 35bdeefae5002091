----------------------------- MODULE Pages_proofs ------------------------------
(***************************************************************************)
(* For any number of requests in flight: the types of the page shell, and  *)
(* the six properties the run checks.                                      *)
(***************************************************************************)
EXTENDS Pages, TLAPS

\* What a request may be for.
LEMMA KindFacts ==
  /\ Page \subseteq Kind /\ Owing = {"operate", "delete", "undo"} /\ Owing \subseteq Kind
  /\ \A p \in Page : p \notin Owing /\ p \notin {"login", "detail", "loading", "error"}
  /\ {"overview", "account", "connect", "events", "browse", "config", "startup",
       "bulk", "launch", "upload", "deploy", "rotate", "reset"} \subseteq Kind \ Owing
  /\ {"dashboard", "containers", "images", "volumes", "networks", "compose", "templates",
       "system", "settings"} \subseteq Page
BY DEF Page, Kind, Owing

\* The intervals that are armed are numbers.
LEMMA PollFacts ==
  ASSUME TypeOK
  PROVE  /\ NoPolls \in [PollKind -> Nat]
         /\ ClearRefresh \in [PollKind -> Nat]
         /\ ArmRefresh \in [PollKind -> Nat]
         /\ [polls EXCEPT !["dashboard"] = @ + 1] \in [PollKind -> Nat]
         /\ [polls EXCEPT !["events"] = @ + 1] \in [PollKind -> Nat]
BY DEF TypeOK, NoPolls, ClearRefresh, ArmRefresh, PollKind

\* Nothing starts or is answered.
LEMMA SameTyped == TypeOK /\ pending' = pending => PendingOK'
BY DEF TypeOK, PendingOK

\* A request that is answered leaves its slot free.
LEMMA DoneTyped ==
  ASSUME TypeOK, NEW r \in Req, Done(r)
  PROVE  PendingOK'
BY DEF TypeOK, PendingOK, Done

\* A request that starts is one the shell knows.
LEMMA SendTyped ==
  ASSUME TypeOK, token' \in BOOLEAN, NEW r \in Req, NEW k \in Kind,
         NEW p \in Page \union {"none"}, k \in Owing => p \in Page, SendThen(r, k, p)
  PROVE  PendingOK'
<1> DEFINE req == [kind |-> k, auth |-> token', then |-> p]
<1>1. req \in Request BY DEF Request
<1>2. pending' = [pending EXCEPT ![r] = req] BY DEF SendThen
<1> HIDE DEF req
<1>3. pending' \in [Req -> Request \union {NoReq}] BY <1>1, <1>2 DEF TypeOK, PendingOK
<1>4. req.kind = k /\ req.then = p BY DEF req
<1> QED BY <1>2, <1>3, <1>4 DEF TypeOK, PendingOK

\* Where the answer of an operation, a delete or an undo reloads a page.
LEMMA Owed ==
  ASSUME TypeOK, NEW r \in Req, NEW k \in Owing, Waiting(r, k)
  PROVE  pending[r].then \in Page
BY DEF TypeOK, PendingOK, Waiting
\* Every step keeps the types.
LEMMA NextTyped == TypeOK /\ [Next]_vars => TypeOK'
<1> SUFFICES ASSUME TypeOK, [Next]_vars PROVE TypeOK'
  OBVIOUS
<1> USE KindFacts, PollFacts, SameTyped, DoneTyped, SendTyped, Owed DEF TypeOK, Pane, Answered,
    TokenKept,
    Failed, Unauthorized, Send, tabVars, undoVars, tokenVars
<1>1. ASSUME NEW r \in Req, Answer(r) PROVE TypeOK'
  <2>1. CASE ContainersAnswered(r) BY <2>1 DEF ContainersAnswered, ContainersOk, ContainersError,
      ContainersRefused
  <2>2. CASE ImagesAnswered(r) BY <2>2 DEF ImagesAnswered, ListAnswered
  <2>3. CASE VolumesAnswered(r) BY <2>3 DEF VolumesAnswered, ListAnswered
  <2>4. CASE NetworksAnswered(r) BY <2>4 DEF NetworksAnswered, ListAnswered
  <2>5. CASE SettingsAnswered(r) BY <2>5 DEF SettingsAnswered, ListAnswered
  <2>6. CASE ComposeAnswered(r) BY <2>6 DEF ComposeAnswered, TolerantAnswered
  <2>7. CASE TemplatesAnswered(r) BY <2>7 DEF TemplatesAnswered, TolerantAnswered
  <2>8. CASE BrowseAnswered(r) BY <2>8 DEF BrowseAnswered, OpenDetail
  <2>9. CASE DashboardAnswered(r) BY <2>9 DEF DashboardAnswered
  <2>10. CASE OverviewAnswered(r) BY <2>10 DEF OverviewAnswered
  <2>11. CASE SystemAnswered(r) BY <2>11 DEF SystemAnswered
  <2>12. CASE AccountAnswered(r) BY <2>12 DEF AccountAnswered
  <2>13. CASE ConnectAnswered(r) BY <2>13 DEF ConnectAnswered
  <2>14. CASE EventsAnswered(r) BY <2>14 DEF EventsAnswered
  <2>15. CASE OperateAnswered(r) BY <2>15 DEF OperateAnswered, Reload, LoadIsRefused, Load, Told
  <2>16. CASE BulkAnswered(r) BY <2>16 DEF BulkAnswered, Reload, LoadIsRefused, Load
  <2>17. CASE UploadAnswered(r) BY <2>17 DEF UploadAnswered, Reload, LoadIsRefused, Load, Told
  <2>18. CASE DeployAnswered(r) BY <2>18 DEF DeployAnswered, Navigate, Told
  <2>19. CASE LaunchAnswered(r) BY <2>19 DEF LaunchAnswered, Reload, LoadIsRefused, Load, Told
  <2>20. CASE DeleteAnswered(r) BY <2>20 DEF DeleteAnswered, Reload, LoadIsRefused, Load, Told
  <2>21. CASE UndoAnswered(r) BY <2>21 DEF UndoAnswered, Reload, LoadIsRefused, Load, Told
  <2>22. CASE ConfigAnswered(r) BY <2>22 DEF ConfigAnswered, Navigate
  <2>23. CASE StartupAnswered(r) BY <2>23 DEF StartupAnswered, Navigate
  <2>24. CASE RotateAnswered(r) BY <2>24 DEF RotateAnswered
  <2>25. CASE ResetAnswered(r) BY <2>25 DEF ResetAnswered
  <2> QED BY <1>1, <2>1, <2>2, <2>3, <2>4, <2>5, <2>6, <2>7, <2>8, <2>9, <2>10, <2>11, <2>12, <2>13,
      <2>14, <2>15, <2>16, <2>17, <2>18, <2>19, <2>20, <2>21, <2>22, <2>23, <2>24, <2>25 DEF Answer
<1>2. ASSUME NEW r \in Req, Tick(r) PROVE TypeOK'
  <2>1. CASE RefreshTick(r) BY <2>1 DEF RefreshTick, Load
  <2>2. CASE OverviewTick(r) BY <2>2 DEF OverviewTick
  <2>3. CASE EventsTick(r) BY <2>3 DEF EventsTick
  <2>4. CASE UndoBarTimer(r) BY <2>4 DEF UndoBarTimer, Reload, LoadIsRefused, Load
  <2> QED BY <1>2, <2>1, <2>2, <2>3, <2>4 DEF Tick
<1>3. ASSUME NEW r \in Req, User(r) PROVE TypeOK'
  <2>1. ASSUME NEW p \in Page, ShowPage(r, p) PROVE TypeOK' BY <2>1 DEF ShowPage, Navigate
  <2>2. ASSUME NEW p \in Page, Delete(r, p) PROVE TypeOK' BY <2>2 DEF Delete, Ask
  <2>3. CASE OperateContainer(r) BY <2>3 DEF OperateContainer, Ask
  <2>4. CASE PullImage(r) BY <2>4 DEF PullImage, Ask
  <2>5. CASE CreateVolume(r) BY <2>5 DEF CreateVolume, Ask
  <2>6. CASE CreateNetwork(r) BY <2>6 DEF CreateNetwork, Ask
  <2>7. CASE ScaleStack(r) BY <2>7 DEF ScaleStack, Ask
  <2>8. CASE BulkOperate(r) BY <2>8 DEF BulkOperate, Ask
  <2>9. CASE UploadStack(r) BY <2>9 DEF UploadStack, Ask
  <2>10. CASE DeployStack(r) BY <2>10 DEF DeployStack, Ask
  <2>11. CASE Launch(r) BY <2>11 DEF Launch
  <2>12. CASE CloseRunModal(r) BY <2>12 DEF CloseRunModal, Reload, LoadIsRefused, Load
  <2>13. CASE QuickRun(r) BY <2>13 DEF QuickRun, Navigate
  <2>14. CASE ClickUndo(r) BY <2>14 DEF ClickUndo
  <2>15. CASE BrowseVolume(r) BY <2>15 DEF BrowseVolume
  <2>16. CASE ShowTab(r) BY <2>16 DEF ShowTab, LoadIsRefused, Load
  <2>17. CASE SignIn(r) BY <2>17 DEF SignIn
  <2>18. CASE RotateToken(r) BY <2>18 DEF RotateToken, Ask
  <2>19. CASE ResetConfig(r) BY <2>19 DEF ResetConfig, Ask
  <2> QED BY <1>3, <2>1, <2>2, <2>3, <2>4, <2>5, <2>6, <2>7, <2>8, <2>9, <2>10, <2>11, <2>12, <2>13,
      <2>14, <2>15, <2>16, <2>17, <2>18, <2>19 DEF User
<1>4. CASE ShowDetail BY <1>4 DEF ShowDetail, OpenDetail
<1>5. CASE ShowRunModal BY <1>5 DEF ShowRunModal
<1>6. CASE HideTab BY <1>6 DEF HideTab
<1>7. CASE EndSession BY <1>7 DEF EndSession
<1>8. CASE UNCHANGED vars BY <1>8 DEF vars
<1> QED BY <1>1, <1>2, <1>3, <1>4, <1>5, <1>6, <1>7, <1>8 DEF Next

\* The page shell keeps its types; an answer that reloads a page knows which.
THEOREM TypeCorrect == Spec => []TypeOK
<1>1. Init => TypeOK
  <2> SUFFICES ASSUME Init PROVE TypeOK OBVIOUS
  <2> DEFINE req == [kind |-> "startup", auth |-> TRUE, then |-> "none"]
  <2>0. req \in Request /\ req.kind \notin Owing BY DEF Request, Kind, Owing
  <2>1. PendingOK
    <3>1. CASE pending = [q \in Req |-> NoReq] BY <3>1 DEF PendingOK
    <3>2. ASSUME NEW r \in Req, pending = [q \in Req |-> IF q = r THEN req ELSE NoReq]
          PROVE  PendingOK
      <4> HIDE DEF req
      <4> QED BY <2>0, <3>2 DEF PendingOK
    <3> QED BY <3>1, <3>2 DEF Init
  <2> QED BY <2>1 DEF Init, TypeOK, Page, Pane, PollKind, NoPolls
<1> QED BY <1>1, NextTyped, PTL DEF Spec
--------------------------------------------------------------------------------
\* What is painted stays the page the user is on.
LEMMA NextMatches == TypeOK /\ PageMatches /\ [Next]_vars => PageMatches'
<1> SUFFICES ASSUME TypeOK, PageMatches, [Next]_vars PROVE PageMatches'
  OBVIOUS
<1> USE KindFacts DEF TypeOK, PageMatches, Answered, TokenKept, Failed, Unauthorized, Send,
    tabVars, undoVars, tokenVars,
    Pane
<1>1. ASSUME NEW r \in Req, Answer(r) PROVE PageMatches'
  <2>1. CASE ContainersAnswered(r) BY <2>1 DEF ContainersAnswered, ContainersOk, ContainersError,
      ContainersRefused
  <2>2. CASE ImagesAnswered(r) BY <2>2 DEF ImagesAnswered, ListAnswered
  <2>3. CASE VolumesAnswered(r) BY <2>3 DEF VolumesAnswered, ListAnswered
  <2>4. CASE NetworksAnswered(r) BY <2>4 DEF NetworksAnswered, ListAnswered
  <2>5. CASE SettingsAnswered(r) BY <2>5 DEF SettingsAnswered, ListAnswered
  <2>6. CASE ComposeAnswered(r) BY <2>6 DEF ComposeAnswered, TolerantAnswered
  <2>7. CASE TemplatesAnswered(r) BY <2>7 DEF TemplatesAnswered, TolerantAnswered
  <2>8. CASE BrowseAnswered(r) BY <2>8 DEF BrowseAnswered, OpenDetail
  <2>9. CASE DashboardAnswered(r) BY <2>9 DEF DashboardAnswered
  <2>10. CASE OverviewAnswered(r) BY <2>10 DEF OverviewAnswered
  <2>11. CASE SystemAnswered(r) BY <2>11 DEF SystemAnswered
  <2>12. CASE AccountAnswered(r) BY <2>12 DEF AccountAnswered
  <2>13. CASE ConnectAnswered(r) BY <2>13 DEF ConnectAnswered
  <2>14. CASE EventsAnswered(r) BY <2>14 DEF EventsAnswered
  <2>15. CASE OperateAnswered(r) BY <2>15 DEF OperateAnswered, Reload, LoadIsRefused, Load, Told
  <2>16. CASE BulkAnswered(r) BY <2>16 DEF BulkAnswered, Reload, LoadIsRefused, Load
  <2>17. CASE UploadAnswered(r) BY <2>17 DEF UploadAnswered, Reload, LoadIsRefused, Load, Told
  <2>18. CASE DeployAnswered(r) BY <2>18 DEF DeployAnswered, Navigate, Told
  <2>19. CASE LaunchAnswered(r) BY <2>19 DEF LaunchAnswered, Reload, LoadIsRefused, Load, Told
  <2>20. CASE DeleteAnswered(r) BY <2>20 DEF DeleteAnswered, Reload, LoadIsRefused, Load, Told
  <2>21. CASE UndoAnswered(r) BY <2>21 DEF UndoAnswered, Reload, LoadIsRefused, Load, Told
  <2>22. CASE ConfigAnswered(r) BY <2>22 DEF ConfigAnswered, Navigate
  <2>23. CASE StartupAnswered(r) BY <2>23 DEF StartupAnswered, Navigate
  <2>24. CASE RotateAnswered(r) BY <2>24 DEF RotateAnswered
  <2>25. CASE ResetAnswered(r) BY <2>25 DEF ResetAnswered
  <2> QED BY <1>1, <2>1, <2>2, <2>3, <2>4, <2>5, <2>6, <2>7, <2>8, <2>9, <2>10, <2>11, <2>12, <2>13,
      <2>14, <2>15, <2>16, <2>17, <2>18, <2>19, <2>20, <2>21, <2>22, <2>23, <2>24, <2>25 DEF Answer
<1>2. ASSUME NEW r \in Req, Tick(r) PROVE PageMatches'
  <2>1. CASE RefreshTick(r) BY <2>1 DEF RefreshTick, Load
  <2>2. CASE OverviewTick(r) BY <2>2 DEF OverviewTick
  <2>3. CASE EventsTick(r) BY <2>3 DEF EventsTick
  <2>4. CASE UndoBarTimer(r) BY <2>4 DEF UndoBarTimer, Reload, LoadIsRefused, Load
  <2> QED BY <1>2, <2>1, <2>2, <2>3, <2>4 DEF Tick
<1>3. ASSUME NEW r \in Req, User(r) PROVE PageMatches'
  <2>1. ASSUME NEW p \in Page, ShowPage(r, p) PROVE PageMatches' BY <2>1 DEF ShowPage, Navigate
  <2>2. ASSUME NEW p \in Page, Delete(r, p) PROVE PageMatches' BY <2>2 DEF Delete, Ask
  <2>3. CASE OperateContainer(r) BY <2>3 DEF OperateContainer, Ask
  <2>4. CASE PullImage(r) BY <2>4 DEF PullImage, Ask
  <2>5. CASE CreateVolume(r) BY <2>5 DEF CreateVolume, Ask
  <2>6. CASE CreateNetwork(r) BY <2>6 DEF CreateNetwork, Ask
  <2>7. CASE ScaleStack(r) BY <2>7 DEF ScaleStack, Ask
  <2>8. CASE BulkOperate(r) BY <2>8 DEF BulkOperate, Ask
  <2>9. CASE UploadStack(r) BY <2>9 DEF UploadStack, Ask
  <2>10. CASE DeployStack(r) BY <2>10 DEF DeployStack, Ask
  <2>11. CASE Launch(r) BY <2>11 DEF Launch
  <2>12. CASE CloseRunModal(r) BY <2>12 DEF CloseRunModal, Reload, LoadIsRefused, Load
  <2>13. CASE QuickRun(r) BY <2>13 DEF QuickRun, Navigate
  <2>14. CASE ClickUndo(r) BY <2>14 DEF ClickUndo
  <2>15. CASE BrowseVolume(r) BY <2>15 DEF BrowseVolume
  <2>16. CASE ShowTab(r) BY <2>16 DEF ShowTab, LoadIsRefused, Load
  <2>17. CASE SignIn(r) BY <2>17 DEF SignIn
  <2>18. CASE RotateToken(r) BY <2>18 DEF RotateToken, Ask
  <2>19. CASE ResetConfig(r) BY <2>19 DEF ResetConfig, Ask
  <2> QED BY <1>3, <2>1, <2>2, <2>3, <2>4, <2>5, <2>6, <2>7, <2>8, <2>9, <2>10, <2>11, <2>12, <2>13,
      <2>14, <2>15, <2>16, <2>17, <2>18, <2>19 DEF User
<1>4. CASE ShowDetail BY <1>4 DEF ShowDetail, OpenDetail
<1>5. CASE ShowRunModal BY <1>5 DEF ShowRunModal
<1>6. CASE HideTab BY <1>6 DEF HideTab
<1>7. CASE EndSession BY <1>7 DEF EndSession
<1>8. CASE UNCHANGED vars BY <1>8 DEF vars
<1> QED BY <1>1, <1>2, <1>3, <1>4, <1>5, <1>6, <1>7, <1>8 DEF Next

\* A page that is painted is the page the user is on, however many answers of pages
\* that were left are on their way.
THEOREM PaintedIsCurrent == Spec => []PageMatches
<1>1. Init => PageMatches BY DEF Init, PageMatches, Page
<1> QED BY <1>1, NextMatches, TypeCorrect, PTL DEF Spec

\* No step paints the list over a detail view.
LEMMA NextDetail ==
  TypeOK /\ view = "detail" /\ [Next]_vars => view' # "containers"
<1> SUFFICES ASSUME TypeOK, view = "detail", [Next]_vars PROVE view' # "containers"
  OBVIOUS
<1> USE KindFacts DEF TypeOK, Answered, TokenKept, Failed, Unauthorized, Send, tabVars,
    undoVars, tokenVars,
    Pane
<1>1. ASSUME NEW r \in Req, Answer(r) PROVE view' # "containers"
  <2>1. CASE ContainersAnswered(r) BY <2>1 DEF ContainersAnswered, ContainersOk, ContainersError,
      ContainersRefused
  <2>2. CASE ImagesAnswered(r) BY <2>2 DEF ImagesAnswered, ListAnswered
  <2>3. CASE VolumesAnswered(r) BY <2>3 DEF VolumesAnswered, ListAnswered
  <2>4. CASE NetworksAnswered(r) BY <2>4 DEF NetworksAnswered, ListAnswered
  <2>5. CASE SettingsAnswered(r) BY <2>5 DEF SettingsAnswered, ListAnswered
  <2>6. CASE ComposeAnswered(r) BY <2>6 DEF ComposeAnswered, TolerantAnswered
  <2>7. CASE TemplatesAnswered(r) BY <2>7 DEF TemplatesAnswered, TolerantAnswered
  <2>8. CASE BrowseAnswered(r) BY <2>8 DEF BrowseAnswered, OpenDetail
  <2>9. CASE DashboardAnswered(r) BY <2>9 DEF DashboardAnswered
  <2>10. CASE OverviewAnswered(r) BY <2>10 DEF OverviewAnswered
  <2>11. CASE SystemAnswered(r) BY <2>11 DEF SystemAnswered
  <2>12. CASE AccountAnswered(r) BY <2>12 DEF AccountAnswered
  <2>13. CASE ConnectAnswered(r) BY <2>13 DEF ConnectAnswered
  <2>14. CASE EventsAnswered(r) BY <2>14 DEF EventsAnswered
  <2>15. CASE OperateAnswered(r) BY <2>15 DEF OperateAnswered, Reload, LoadIsRefused, Load, Told
  <2>16. CASE BulkAnswered(r) BY <2>16 DEF BulkAnswered, Reload, LoadIsRefused, Load
  <2>17. CASE UploadAnswered(r) BY <2>17 DEF UploadAnswered, Reload, LoadIsRefused, Load, Told
  <2>18. CASE DeployAnswered(r) BY <2>18 DEF DeployAnswered, Navigate, Told
  <2>19. CASE LaunchAnswered(r) BY <2>19 DEF LaunchAnswered, Reload, LoadIsRefused, Load, Told
  <2>20. CASE DeleteAnswered(r) BY <2>20 DEF DeleteAnswered, Reload, LoadIsRefused, Load, Told
  <2>21. CASE UndoAnswered(r) BY <2>21 DEF UndoAnswered, Reload, LoadIsRefused, Load, Told
  <2>22. CASE ConfigAnswered(r) BY <2>22 DEF ConfigAnswered, Navigate
  <2>23. CASE StartupAnswered(r) BY <2>23 DEF StartupAnswered, Navigate
  <2>24. CASE RotateAnswered(r) BY <2>24 DEF RotateAnswered
  <2>25. CASE ResetAnswered(r) BY <2>25 DEF ResetAnswered
  <2> QED BY <1>1, <2>1, <2>2, <2>3, <2>4, <2>5, <2>6, <2>7, <2>8, <2>9, <2>10, <2>11, <2>12, <2>13,
      <2>14, <2>15, <2>16, <2>17, <2>18, <2>19, <2>20, <2>21, <2>22, <2>23, <2>24, <2>25 DEF Answer
<1>2. ASSUME NEW r \in Req, Tick(r) PROVE view' # "containers"
  <2>1. CASE RefreshTick(r) BY <2>1 DEF RefreshTick, Load
  <2>2. CASE OverviewTick(r) BY <2>2 DEF OverviewTick
  <2>3. CASE EventsTick(r) BY <2>3 DEF EventsTick
  <2>4. CASE UndoBarTimer(r) BY <2>4 DEF UndoBarTimer, Reload, LoadIsRefused, Load
  <2> QED BY <1>2, <2>1, <2>2, <2>3, <2>4 DEF Tick
<1>3. ASSUME NEW r \in Req, User(r) PROVE view' # "containers"
  <2>1. ASSUME NEW p \in Page, ShowPage(r, p) PROVE view' # "containers" BY <2>1 DEF ShowPage,
      Navigate
  <2>2. ASSUME NEW p \in Page, Delete(r, p) PROVE view' # "containers" BY <2>2 DEF Delete, Ask
  <2>3. CASE OperateContainer(r) BY <2>3 DEF OperateContainer, Ask
  <2>4. CASE PullImage(r) BY <2>4 DEF PullImage, Ask
  <2>5. CASE CreateVolume(r) BY <2>5 DEF CreateVolume, Ask
  <2>6. CASE CreateNetwork(r) BY <2>6 DEF CreateNetwork, Ask
  <2>7. CASE ScaleStack(r) BY <2>7 DEF ScaleStack, Ask
  <2>8. CASE BulkOperate(r) BY <2>8 DEF BulkOperate, Ask
  <2>9. CASE UploadStack(r) BY <2>9 DEF UploadStack, Ask
  <2>10. CASE DeployStack(r) BY <2>10 DEF DeployStack, Ask
  <2>11. CASE Launch(r) BY <2>11 DEF Launch
  <2>12. CASE CloseRunModal(r) BY <2>12 DEF CloseRunModal, Reload, LoadIsRefused, Load
  <2>13. CASE QuickRun(r) BY <2>13 DEF QuickRun, Navigate
  <2>14. CASE ClickUndo(r) BY <2>14 DEF ClickUndo
  <2>15. CASE BrowseVolume(r) BY <2>15 DEF BrowseVolume
  <2>16. CASE ShowTab(r) BY <2>16 DEF ShowTab, LoadIsRefused, Load
  <2>17. CASE SignIn(r) BY <2>17 DEF SignIn
  <2>18. CASE RotateToken(r) BY <2>18 DEF RotateToken, Ask
  <2>19. CASE ResetConfig(r) BY <2>19 DEF ResetConfig, Ask
  <2> QED BY <1>3, <2>1, <2>2, <2>3, <2>4, <2>5, <2>6, <2>7, <2>8, <2>9, <2>10, <2>11, <2>12, <2>13,
      <2>14, <2>15, <2>16, <2>17, <2>18, <2>19 DEF User
<1>4. CASE ShowDetail BY <1>4 DEF ShowDetail, OpenDetail
<1>5. CASE ShowRunModal BY <1>5 DEF ShowRunModal
<1>6. CASE HideTab BY <1>6 DEF HideTab
<1>7. CASE EndSession BY <1>7 DEF EndSession
<1>8. CASE UNCHANGED vars BY <1>8 DEF vars
<1> QED BY <1>1, <1>2, <1>3, <1>4, <1>5, <1>6, <1>7, <1>8 DEF Next

\* An open detail view is never replaced by the container list of a refresh that was
\* on its way when it opened.
THEOREM DetailStays == Spec => DetailKept
<1>1. TypeOK /\ [Next]_vars => [view = "detail" => view' # "containers"]_vars
  BY NextDetail DEF vars
<1> QED BY <1>1, TypeCorrect, PTL DEF Spec, DetailKept
--------------------------------------------------------------------------------
\* What is done to the intervals keeps the one of the list alone.
LEMMA StaysOne ==
  ASSUME TypeOK, OnePoller
  PROVE  /\ NoPolls["containers"] <= 1
         /\ ClearRefresh["containers"] <= 1
         /\ ArmRefresh["containers"] <= 1
         /\ [polls EXCEPT !["dashboard"] = @ + 1]["containers"] <= 1
         /\ [polls EXCEPT !["events"] = @ + 1]["containers"] <= 1
BY DEF TypeOK, OnePoller, NoPolls, ClearRefresh, ArmRefresh, PollKind

\* No step arms a second interval for the list.
LEMMA NextOne == TypeOK /\ OnePoller /\ [Next]_vars => OnePoller'
<1> SUFFICES ASSUME TypeOK, OnePoller, [Next]_vars PROVE OnePoller'
  OBVIOUS
<1> USE StaysOne DEF OnePoller, Answered, TokenKept, Failed, Unauthorized, Send, tabVars,
    undoVars, tokenVars, Pane
<1>1. ASSUME NEW r \in Req, Answer(r) PROVE OnePoller'
  <2>1. CASE ContainersAnswered(r) BY <2>1 DEF ContainersAnswered, ContainersOk, ContainersError,
      ContainersRefused
  <2>2. CASE ImagesAnswered(r) BY <2>2 DEF ImagesAnswered, ListAnswered
  <2>3. CASE VolumesAnswered(r) BY <2>3 DEF VolumesAnswered, ListAnswered
  <2>4. CASE NetworksAnswered(r) BY <2>4 DEF NetworksAnswered, ListAnswered
  <2>5. CASE SettingsAnswered(r) BY <2>5 DEF SettingsAnswered, ListAnswered
  <2>6. CASE ComposeAnswered(r) BY <2>6 DEF ComposeAnswered, TolerantAnswered
  <2>7. CASE TemplatesAnswered(r) BY <2>7 DEF TemplatesAnswered, TolerantAnswered
  <2>8. CASE BrowseAnswered(r) BY <2>8 DEF BrowseAnswered, OpenDetail
  <2>9. CASE DashboardAnswered(r) BY <2>9 DEF DashboardAnswered
  <2>10. CASE OverviewAnswered(r) BY <2>10 DEF OverviewAnswered
  <2>11. CASE SystemAnswered(r) BY <2>11 DEF SystemAnswered
  <2>12. CASE AccountAnswered(r) BY <2>12 DEF AccountAnswered
  <2>13. CASE ConnectAnswered(r) BY <2>13 DEF ConnectAnswered
  <2>14. CASE EventsAnswered(r) BY <2>14 DEF EventsAnswered
  <2>15. CASE OperateAnswered(r) BY <2>15 DEF OperateAnswered, Reload, LoadIsRefused, Load, Told
  <2>16. CASE BulkAnswered(r) BY <2>16 DEF BulkAnswered, Reload, LoadIsRefused, Load
  <2>17. CASE UploadAnswered(r) BY <2>17 DEF UploadAnswered, Reload, LoadIsRefused, Load, Told
  <2>18. CASE DeployAnswered(r) BY <2>18 DEF DeployAnswered, Navigate, Told
  <2>19. CASE LaunchAnswered(r) BY <2>19 DEF LaunchAnswered, Reload, LoadIsRefused, Load, Told
  <2>20. CASE DeleteAnswered(r) BY <2>20 DEF DeleteAnswered, Reload, LoadIsRefused, Load, Told
  <2>21. CASE UndoAnswered(r) BY <2>21 DEF UndoAnswered, Reload, LoadIsRefused, Load, Told
  <2>22. CASE ConfigAnswered(r) BY <2>22 DEF ConfigAnswered, Navigate
  <2>23. CASE StartupAnswered(r) BY <2>23 DEF StartupAnswered, Navigate
  <2>24. CASE RotateAnswered(r) BY <2>24 DEF RotateAnswered
  <2>25. CASE ResetAnswered(r) BY <2>25 DEF ResetAnswered
  <2> QED BY <1>1, <2>1, <2>2, <2>3, <2>4, <2>5, <2>6, <2>7, <2>8, <2>9, <2>10, <2>11, <2>12, <2>13,
      <2>14, <2>15, <2>16, <2>17, <2>18, <2>19, <2>20, <2>21, <2>22, <2>23, <2>24, <2>25 DEF Answer
<1>2. ASSUME NEW r \in Req, Tick(r) PROVE OnePoller'
  <2>1. CASE RefreshTick(r) BY <2>1 DEF RefreshTick, Load
  <2>2. CASE OverviewTick(r) BY <2>2 DEF OverviewTick
  <2>3. CASE EventsTick(r) BY <2>3 DEF EventsTick
  <2>4. CASE UndoBarTimer(r) BY <2>4 DEF UndoBarTimer, Reload, LoadIsRefused, Load
  <2> QED BY <1>2, <2>1, <2>2, <2>3, <2>4 DEF Tick
<1>3. ASSUME NEW r \in Req, User(r) PROVE OnePoller'
  <2>1. ASSUME NEW p \in Page, ShowPage(r, p) PROVE OnePoller' BY <2>1 DEF ShowPage, Navigate
  <2>2. ASSUME NEW p \in Page, Delete(r, p) PROVE OnePoller' BY <2>2 DEF Delete, Ask
  <2>3. CASE OperateContainer(r) BY <2>3 DEF OperateContainer, Ask
  <2>4. CASE PullImage(r) BY <2>4 DEF PullImage, Ask
  <2>5. CASE CreateVolume(r) BY <2>5 DEF CreateVolume, Ask
  <2>6. CASE CreateNetwork(r) BY <2>6 DEF CreateNetwork, Ask
  <2>7. CASE ScaleStack(r) BY <2>7 DEF ScaleStack, Ask
  <2>8. CASE BulkOperate(r) BY <2>8 DEF BulkOperate, Ask
  <2>9. CASE UploadStack(r) BY <2>9 DEF UploadStack, Ask
  <2>10. CASE DeployStack(r) BY <2>10 DEF DeployStack, Ask
  <2>11. CASE Launch(r) BY <2>11 DEF Launch
  <2>12. CASE CloseRunModal(r) BY <2>12 DEF CloseRunModal, Reload, LoadIsRefused, Load
  <2>13. CASE QuickRun(r) BY <2>13 DEF QuickRun, Navigate
  <2>14. CASE ClickUndo(r) BY <2>14 DEF ClickUndo
  <2>15. CASE BrowseVolume(r) BY <2>15 DEF BrowseVolume
  <2>16. CASE ShowTab(r) BY <2>16 DEF ShowTab, LoadIsRefused, Load
  <2>17. CASE SignIn(r) BY <2>17 DEF SignIn
  <2>18. CASE RotateToken(r) BY <2>18 DEF RotateToken, Ask
  <2>19. CASE ResetConfig(r) BY <2>19 DEF ResetConfig, Ask
  <2> QED BY <1>3, <2>1, <2>2, <2>3, <2>4, <2>5, <2>6, <2>7, <2>8, <2>9, <2>10, <2>11, <2>12, <2>13,
      <2>14, <2>15, <2>16, <2>17, <2>18, <2>19 DEF User
<1>4. CASE ShowDetail BY <1>4 DEF ShowDetail, OpenDetail
<1>5. CASE ShowRunModal BY <1>5 DEF ShowRunModal
<1>6. CASE HideTab BY <1>6 DEF HideTab
<1>7. CASE EndSession BY <1>7 DEF EndSession
<1>8. CASE UNCHANGED vars BY <1>8 DEF vars
<1> QED BY <1>1, <1>2, <1>3, <1>4, <1>5, <1>6, <1>7, <1>8 DEF Next

\* At most one interval refreshes the container list.
THEOREM OneRefresh == Spec => []OnePoller
<1>1. Init => OnePoller BY DEF Init, OnePoller, NoPolls, PollKind
<1> QED BY <1>1, NextOne, TypeCorrect, PTL DEF Spec
--------------------------------------------------------------------------------
\* It waits for its answer, and the others still wait for theirs.
LEMMA Starts ==
  ASSUME TypeOK, token' \in BOOLEAN, NEW r \in Req, NEW k \in Kind,
         NEW p \in Page \union {"none"}, SendThen(r, k, p)
  PROVE  Pending(k)'
<1> DEFINE req == [kind |-> k, auth |-> token', then |-> p]
<1>1. req \in Request BY DEF Request
<1>2. pending' = [pending EXCEPT ![r] = req] BY DEF SendThen
<1>3. req.kind = k OBVIOUS
<1> HIDE DEF req
<1> QED BY <1>1, <1>2, <1>3, NoReqAssumption DEF TypeOK, PendingOK, Waiting, Pending

LEMMA StaysOverSend ==
  ASSUME TypeOK, NEW k, Pending(k), NEW r \in Req, ~Waiting(r, k), NEW j, NEW p, SendThen(r, j, p)
  PROVE  Pending(k)'
<1> PICK q \in Req : Waiting(q, k) BY DEF Pending
<1>1. q # r OBVIOUS
<1> QED BY <1>1 DEF TypeOK, PendingOK, Waiting, SendThen, Pending

LEMMA StaysOverDone ==
  ASSUME TypeOK, NEW k, Pending(k), NEW r \in Req, ~Waiting(r, k), Done(r)
  PROVE  Pending(k)'
<1> PICK q \in Req : Waiting(q, k) BY DEF Pending
<1>1. q # r OBVIOUS
<1> QED BY <1>1 DEF TypeOK, PendingOK, Waiting, Done, Pending

\* A slot waits for one answer, or for none.
LEMMA Slots ==
  /\ \A r, j, k : Waiting(r, j) /\ Waiting(r, k) => j = k
  /\ \A r, k : Free(r) => ~Waiting(r, k)
  /\ pending' = pending => \A k : Pending(k) => Pending(k)'
BY DEF Waiting, Free, Pending

\* The flag stays tied to an answer.
LEMMA NextFlag == TypeOK /\ FlagHasRequest /\ [Next]_vars => FlagHasRequest'
<1> SUFFICES ASSUME TypeOK, FlagHasRequest, [Next]_vars PROVE FlagHasRequest'
  OBVIOUS
<1> USE KindFacts, Starts, StaysOverSend, StaysOverDone, Slots DEF TypeOK, FlagHasRequest,
    Answered, TokenKept,
    Failed, Unauthorized, Send, tabVars, undoVars, tokenVars, Pane
<1>1. ASSUME NEW r \in Req, Answer(r) PROVE FlagHasRequest'
  <2>1. CASE ContainersAnswered(r) BY <2>1 DEF ContainersAnswered, ContainersOk, ContainersError,
      ContainersRefused
  <2>2. CASE ImagesAnswered(r) BY <2>2 DEF ImagesAnswered, ListAnswered
  <2>3. CASE VolumesAnswered(r) BY <2>3 DEF VolumesAnswered, ListAnswered
  <2>4. CASE NetworksAnswered(r) BY <2>4 DEF NetworksAnswered, ListAnswered
  <2>5. CASE SettingsAnswered(r) BY <2>5 DEF SettingsAnswered, ListAnswered
  <2>6. CASE ComposeAnswered(r) BY <2>6 DEF ComposeAnswered, TolerantAnswered
  <2>7. CASE TemplatesAnswered(r) BY <2>7 DEF TemplatesAnswered, TolerantAnswered
  <2>8. CASE BrowseAnswered(r) BY <2>8 DEF BrowseAnswered, OpenDetail
  <2>9. CASE DashboardAnswered(r) BY <2>9 DEF DashboardAnswered
  <2>10. CASE OverviewAnswered(r) BY <2>10 DEF OverviewAnswered
  <2>11. CASE SystemAnswered(r) BY <2>11 DEF SystemAnswered
  <2>12. CASE AccountAnswered(r) BY <2>12 DEF AccountAnswered
  <2>13. CASE ConnectAnswered(r) BY <2>13 DEF ConnectAnswered
  <2>14. CASE EventsAnswered(r) BY <2>14 DEF EventsAnswered
  <2>15. CASE OperateAnswered(r) BY <2>15 DEF OperateAnswered, Reload, LoadIsRefused, Load, Told
  <2>16. CASE BulkAnswered(r) BY <2>16 DEF BulkAnswered, Reload, LoadIsRefused, Load
  <2>17. CASE UploadAnswered(r) BY <2>17 DEF UploadAnswered, Reload, LoadIsRefused, Load, Told
  <2>18. CASE DeployAnswered(r) BY <2>18 DEF DeployAnswered, Navigate, Told
  <2>19. CASE LaunchAnswered(r) BY <2>19 DEF LaunchAnswered, Reload, LoadIsRefused, Load, Told
  <2>20. CASE DeleteAnswered(r) BY <2>20 DEF DeleteAnswered, Reload, LoadIsRefused, Load, Told
  <2>21. CASE UndoAnswered(r) BY <2>21 DEF UndoAnswered, Reload, LoadIsRefused, Load, Told
  <2>22. CASE ConfigAnswered(r) BY <2>22 DEF ConfigAnswered, Navigate
  <2>23. CASE StartupAnswered(r)
    <3> PICK p \in Page : Navigate(r, p) BY <2>23 DEF StartupAnswered
    <3>1. token' \in BOOLEAN BY <2>23 DEF StartupAnswered
    <3>2. CASE p = "containers" BY <3>1, <3>2 DEF Navigate
    <3>3. CASE p # "containers" BY <3>3 DEF Navigate
    <3> QED BY <3>2, <3>3
  <2>24. CASE RotateAnswered(r) BY <2>24 DEF RotateAnswered
  <2>25. CASE ResetAnswered(r) BY <2>25 DEF ResetAnswered
  <2> QED BY <1>1, <2>1, <2>2, <2>3, <2>4, <2>5, <2>6, <2>7, <2>8, <2>9, <2>10, <2>11, <2>12, <2>13,
      <2>14, <2>15, <2>16, <2>17, <2>18, <2>19, <2>20, <2>21, <2>22, <2>23, <2>24, <2>25 DEF Answer
<1>2. ASSUME NEW r \in Req, Tick(r) PROVE FlagHasRequest'
  <2>1. CASE RefreshTick(r) BY <2>1 DEF RefreshTick, Load
  <2>2. CASE OverviewTick(r) BY <2>2 DEF OverviewTick
  <2>3. CASE EventsTick(r) BY <2>3 DEF EventsTick
  <2>4. CASE UndoBarTimer(r) BY <2>4 DEF UndoBarTimer, Reload, LoadIsRefused, Load
  <2> QED BY <1>2, <2>1, <2>2, <2>3, <2>4 DEF Tick
<1>3. ASSUME NEW r \in Req, User(r) PROVE FlagHasRequest'
  <2>1. ASSUME NEW p \in Page, ShowPage(r, p) PROVE FlagHasRequest' BY <2>1 DEF ShowPage, Navigate
  <2>2. ASSUME NEW p \in Page, Delete(r, p) PROVE FlagHasRequest' BY <2>2 DEF Delete, Ask
  <2>3. CASE OperateContainer(r) BY <2>3 DEF OperateContainer, Ask
  <2>4. CASE PullImage(r) BY <2>4 DEF PullImage, Ask
  <2>5. CASE CreateVolume(r) BY <2>5 DEF CreateVolume, Ask
  <2>6. CASE CreateNetwork(r) BY <2>6 DEF CreateNetwork, Ask
  <2>7. CASE ScaleStack(r) BY <2>7 DEF ScaleStack, Ask
  <2>8. CASE BulkOperate(r) BY <2>8 DEF BulkOperate, Ask
  <2>9. CASE UploadStack(r) BY <2>9 DEF UploadStack, Ask
  <2>10. CASE DeployStack(r) BY <2>10 DEF DeployStack, Ask
  <2>11. CASE Launch(r) BY <2>11 DEF Launch
  <2>12. CASE CloseRunModal(r) BY <2>12 DEF CloseRunModal, Reload, LoadIsRefused, Load
  <2>13. CASE QuickRun(r) BY <2>13 DEF QuickRun, Navigate
  <2>14. CASE ClickUndo(r) BY <2>14 DEF ClickUndo
  <2>15. CASE BrowseVolume(r) BY <2>15 DEF BrowseVolume
  <2>16. CASE ShowTab(r) BY <2>16 DEF ShowTab, LoadIsRefused, Load
  <2>17. CASE SignIn(r) BY <2>17 DEF SignIn
  <2>18. CASE RotateToken(r) BY <2>18 DEF RotateToken, Ask
  <2>19. CASE ResetConfig(r) BY <2>19 DEF ResetConfig, Ask
  <2> QED BY <1>3, <2>1, <2>2, <2>3, <2>4, <2>5, <2>6, <2>7, <2>8, <2>9, <2>10, <2>11, <2>12, <2>13,
      <2>14, <2>15, <2>16, <2>17, <2>18, <2>19 DEF User
<1>4. CASE ShowDetail BY <1>4 DEF ShowDetail, OpenDetail
<1>5. CASE ShowRunModal BY <1>5 DEF ShowRunModal
<1>6. CASE HideTab BY <1>6 DEF HideTab
<1>7. CASE EndSession BY <1>7 DEF EndSession
<1>8. CASE UNCHANGED vars BY <1>8 DEF vars
<1> QED BY <1>1, <1>2, <1>3, <1>4, <1>5, <1>6, <1>7, <1>8 DEF Next

\* The flag against double loading is only up while the answer that lowers it is on
\* its way.
THEOREM FlagComesDown == Spec => []FlagHasRequest
<1>1. Init => FlagHasRequest BY DEF Init, FlagHasRequest
<1> QED BY <1>1, NextFlag, TypeCorrect, PTL DEF Spec

\* What is done to the intervals, seen from the one of the list.
LEMMA Counts ==
  ASSUME TypeOK
  PROVE  /\ NoPolls["containers"] = 0
         /\ ArmRefresh["containers"] > 0
         /\ [polls EXCEPT !["dashboard"] = @ + 1]["containers"] = polls["containers"]
         /\ [polls EXCEPT !["events"] = @ + 1]["containers"] = polls["containers"]
BY DEF TypeOK, NoPolls, ClearRefresh, ArmRefresh, PollKind

\* The list on the screen stays refreshed.
LEMMA NextListed ==
  TypeOK /\ PageMatches /\ FlagHasRequest /\ ListIsRefreshed /\ [Next]_vars => ListIsRefreshed'
<1> SUFFICES ASSUME TypeOK, PageMatches, FlagHasRequest, ListIsRefreshed, [Next]_vars
             PROVE  ListIsRefreshed'
  OBVIOUS
<1> USE KindFacts, Starts, StaysOverSend, StaysOverDone, Slots, Counts DEF TypeOK, PageMatches,
    FlagHasRequest, ListIsRefreshed, Answered, TokenKept, Failed, Unauthorized, Send, tabVars,
    undoVars, tokenVars, Pane
<1>1. ASSUME NEW r \in Req, Answer(r) PROVE ListIsRefreshed'
  <2>1. CASE ContainersAnswered(r)
    <3>1. CASE ContainersOk(r) BY <2>1, <3>1 DEF ContainersAnswered, ContainersOk
    <3>2. CASE ContainersError(r) BY <2>1, <3>2 DEF ContainersAnswered, ContainersError
    <3>3. CASE ContainersRefused(r) BY <2>1, <3>3 DEF ContainersAnswered, ContainersRefused
    <3> QED BY <2>1, <3>1, <3>2, <3>3 DEF ContainersAnswered
  <2>2. CASE ImagesAnswered(r) BY <2>2 DEF ImagesAnswered, ListAnswered
  <2>3. CASE VolumesAnswered(r) BY <2>3 DEF VolumesAnswered, ListAnswered
  <2>4. CASE NetworksAnswered(r) BY <2>4 DEF NetworksAnswered, ListAnswered
  <2>5. CASE SettingsAnswered(r) BY <2>5 DEF SettingsAnswered, ListAnswered
  <2>6. CASE ComposeAnswered(r) BY <2>6 DEF ComposeAnswered, TolerantAnswered
  <2>7. CASE TemplatesAnswered(r) BY <2>7 DEF TemplatesAnswered, TolerantAnswered
  <2>8. CASE BrowseAnswered(r) BY <2>8 DEF BrowseAnswered, OpenDetail
  <2>9. CASE DashboardAnswered(r) BY <2>9 DEF DashboardAnswered
  <2>10. CASE OverviewAnswered(r) BY <2>10 DEF OverviewAnswered
  <2>11. CASE SystemAnswered(r) BY <2>11 DEF SystemAnswered
  <2>12. CASE AccountAnswered(r) BY <2>12 DEF AccountAnswered
  <2>13. CASE ConnectAnswered(r) BY <2>13 DEF ConnectAnswered
  <2>14. CASE EventsAnswered(r) BY <2>14 DEF EventsAnswered
  <2>15. CASE OperateAnswered(r) BY <2>15 DEF OperateAnswered, Reload, LoadIsRefused, Load, Told
  <2>16. CASE BulkAnswered(r) BY <2>16 DEF BulkAnswered, Reload, LoadIsRefused, Load
  <2>17. CASE UploadAnswered(r) BY <2>17 DEF UploadAnswered, Reload, LoadIsRefused, Load, Told
  <2>18. CASE DeployAnswered(r) BY <2>18 DEF DeployAnswered, Navigate, Told
  <2>19. CASE LaunchAnswered(r)
    <3>1. CASE Told(r) /\ UNCHANGED modal BY <2>19, <3>1 DEF LaunchAnswered, Told
    <3>2. CASE Reload(r, "containers") /\ inFlight
      BY <2>19, <3>2 DEF LaunchAnswered, Reload, LoadIsRefused
    <3>3. CASE Reload(r, "containers") /\ ~inFlight /\ token' = token
      BY <2>19, <3>3 DEF LaunchAnswered, Reload, LoadIsRefused, Load
    <3> QED BY <2>19, <3>1, <3>2, <3>3 DEF LaunchAnswered
  <2>20. CASE DeleteAnswered(r) BY <2>20 DEF DeleteAnswered, Reload, LoadIsRefused, Load, Told
  <2>21. CASE UndoAnswered(r) BY <2>21 DEF UndoAnswered, Reload, LoadIsRefused, Load, Told
  <2>22. CASE ConfigAnswered(r) BY <2>22 DEF ConfigAnswered, Navigate
  <2>23. CASE StartupAnswered(r) BY <2>23 DEF StartupAnswered, Navigate
  <2>24. CASE RotateAnswered(r) BY <2>24 DEF RotateAnswered
  <2>25. CASE ResetAnswered(r) BY <2>25 DEF ResetAnswered
  <2> QED BY <1>1, <2>1, <2>2, <2>3, <2>4, <2>5, <2>6, <2>7, <2>8, <2>9, <2>10, <2>11, <2>12, <2>13,
      <2>14, <2>15, <2>16, <2>17, <2>18, <2>19, <2>20, <2>21, <2>22, <2>23, <2>24, <2>25 DEF Answer
<1>2. ASSUME NEW r \in Req, Tick(r) PROVE ListIsRefreshed'
  <2>1. CASE RefreshTick(r) BY <2>1 DEF RefreshTick, Load
  <2>2. CASE OverviewTick(r) BY <2>2 DEF OverviewTick
  <2>3. CASE EventsTick(r) BY <2>3 DEF EventsTick
  <2>4. CASE UndoBarTimer(r) BY <2>4 DEF UndoBarTimer, Reload, LoadIsRefused, Load
  <2> QED BY <1>2, <2>1, <2>2, <2>3, <2>4 DEF Tick
<1>3. ASSUME NEW r \in Req, User(r) PROVE ListIsRefreshed'
  <2>1. ASSUME NEW p \in Page, ShowPage(r, p) PROVE ListIsRefreshed' BY <2>1 DEF ShowPage, Navigate
  <2>2. ASSUME NEW p \in Page, Delete(r, p) PROVE ListIsRefreshed' BY <2>2 DEF Delete, Ask
  <2>3. CASE OperateContainer(r) BY <2>3 DEF OperateContainer, Ask
  <2>4. CASE PullImage(r) BY <2>4 DEF PullImage, Ask
  <2>5. CASE CreateVolume(r) BY <2>5 DEF CreateVolume, Ask
  <2>6. CASE CreateNetwork(r) BY <2>6 DEF CreateNetwork, Ask
  <2>7. CASE ScaleStack(r) BY <2>7 DEF ScaleStack, Ask
  <2>8. CASE BulkOperate(r) BY <2>8 DEF BulkOperate, Ask
  <2>9. CASE UploadStack(r) BY <2>9 DEF UploadStack, Ask
  <2>10. CASE DeployStack(r) BY <2>10 DEF DeployStack, Ask
  <2>11. CASE Launch(r) BY <2>11 DEF Launch
  <2>12. CASE CloseRunModal(r) BY <2>12 DEF CloseRunModal, Reload, LoadIsRefused, Load
  <2>13. CASE QuickRun(r) BY <2>13 DEF QuickRun, Navigate
  <2>14. CASE ClickUndo(r) BY <2>14 DEF ClickUndo
  <2>15. CASE BrowseVolume(r) BY <2>15 DEF BrowseVolume
  <2>16. CASE ShowTab(r) BY <2>16 DEF ShowTab, LoadIsRefused, Load, Resumed
  <2>17. CASE SignIn(r) BY <2>17 DEF SignIn
  <2>18. CASE RotateToken(r) BY <2>18 DEF RotateToken, Ask
  <2>19. CASE ResetConfig(r) BY <2>19 DEF ResetConfig, Ask
  <2> QED BY <1>3, <2>1, <2>2, <2>3, <2>4, <2>5, <2>6, <2>7, <2>8, <2>9, <2>10, <2>11, <2>12, <2>13,
      <2>14, <2>15, <2>16, <2>17, <2>18, <2>19 DEF User
<1>4. CASE ShowDetail BY <1>4 DEF ShowDetail, OpenDetail
<1>5. CASE ShowRunModal BY <1>5 DEF ShowRunModal
<1>6. CASE HideTab BY <1>6 DEF HideTab
<1>7. CASE EndSession BY <1>7 DEF EndSession
<1>8. CASE UNCHANGED vars BY <1>8 DEF vars
<1> QED BY <1>1, <1>2, <1>3, <1>4, <1>5, <1>6, <1>7, <1>8 DEF Next

\* A container list on the screen of a visible tab that was signed in by its form or
\* when it opened has its interval armed or an answer on its way that will arm it.
THEOREM ListStaysFresh == Spec => []ListIsRefreshed
<1>1. Init => ListIsRefreshed BY DEF Init, ListIsRefreshed
<1> QED BY <1>1, NextListed, TypeCorrect, PaintedIsCurrent, FlagComesDown, PTL DEF Spec
--------------------------------------------------------------------------------
\* The login form stays tied to a tab without a token.
LEMMA NextLogin == TypeOK /\ LoginIsNeeded /\ [Next]_vars => LoginIsNeeded'
<1> SUFFICES ASSUME TypeOK, LoginIsNeeded, [Next]_vars PROVE LoginIsNeeded'
  OBVIOUS
<1> USE KindFacts, Starts, StaysOverSend, StaysOverDone, Slots DEF TypeOK, LoginIsNeeded,
    Answered, TokenKept,
    Failed, Unauthorized, Send, tabVars, undoVars, tokenVars, Pane
<1>1. ASSUME NEW r \in Req, Answer(r) PROVE LoginIsNeeded'
  <2>1. CASE ContainersAnswered(r) BY <2>1 DEF ContainersAnswered, ContainersOk, ContainersError,
      ContainersRefused
  <2>2. CASE ImagesAnswered(r) BY <2>2 DEF ImagesAnswered, ListAnswered
  <2>3. CASE VolumesAnswered(r) BY <2>3 DEF VolumesAnswered, ListAnswered
  <2>4. CASE NetworksAnswered(r) BY <2>4 DEF NetworksAnswered, ListAnswered
  <2>5. CASE SettingsAnswered(r) BY <2>5 DEF SettingsAnswered, ListAnswered
  <2>6. CASE ComposeAnswered(r) BY <2>6 DEF ComposeAnswered, TolerantAnswered
  <2>7. CASE TemplatesAnswered(r) BY <2>7 DEF TemplatesAnswered, TolerantAnswered
  <2>8. CASE BrowseAnswered(r) BY <2>8 DEF BrowseAnswered, OpenDetail
  <2>9. CASE DashboardAnswered(r) BY <2>9 DEF DashboardAnswered
  <2>10. CASE OverviewAnswered(r) BY <2>10 DEF OverviewAnswered
  <2>11. CASE SystemAnswered(r) BY <2>11 DEF SystemAnswered
  <2>12. CASE AccountAnswered(r) BY <2>12 DEF AccountAnswered
  <2>13. CASE ConnectAnswered(r) BY <2>13 DEF ConnectAnswered
  <2>14. CASE EventsAnswered(r) BY <2>14 DEF EventsAnswered
  <2>15. CASE OperateAnswered(r) BY <2>15 DEF OperateAnswered, Reload, LoadIsRefused, Load, Told
  <2>16. CASE BulkAnswered(r) BY <2>16 DEF BulkAnswered, Reload, LoadIsRefused, Load
  <2>17. CASE UploadAnswered(r) BY <2>17 DEF UploadAnswered, Reload, LoadIsRefused, Load, Told
  <2>18. CASE DeployAnswered(r) BY <2>18 DEF DeployAnswered, Navigate, Told
  <2>19. CASE LaunchAnswered(r) BY <2>19 DEF LaunchAnswered, Reload, LoadIsRefused, Load, Told
  <2>20. CASE DeleteAnswered(r) BY <2>20 DEF DeleteAnswered, Reload, LoadIsRefused, Load, Told
  <2>21. CASE UndoAnswered(r) BY <2>21 DEF UndoAnswered, Reload, LoadIsRefused, Load, Told
  <2>22. CASE ConfigAnswered(r) BY <2>22 DEF ConfigAnswered, Navigate
  <2>23. CASE StartupAnswered(r) BY <2>23 DEF StartupAnswered, Navigate
  <2>24. CASE RotateAnswered(r) BY <2>24 DEF RotateAnswered
  <2>25. CASE ResetAnswered(r) BY <2>25 DEF ResetAnswered
  <2> QED BY <1>1, <2>1, <2>2, <2>3, <2>4, <2>5, <2>6, <2>7, <2>8, <2>9, <2>10, <2>11, <2>12, <2>13,
      <2>14, <2>15, <2>16, <2>17, <2>18, <2>19, <2>20, <2>21, <2>22, <2>23, <2>24, <2>25 DEF Answer
<1>2. ASSUME NEW r \in Req, Tick(r) PROVE LoginIsNeeded'
  <2>1. CASE RefreshTick(r) BY <2>1 DEF RefreshTick, Load
  <2>2. CASE OverviewTick(r) BY <2>2 DEF OverviewTick
  <2>3. CASE EventsTick(r) BY <2>3 DEF EventsTick
  <2>4. CASE UndoBarTimer(r) BY <2>4 DEF UndoBarTimer, Reload, LoadIsRefused, Load
  <2> QED BY <1>2, <2>1, <2>2, <2>3, <2>4 DEF Tick
<1>3. ASSUME NEW r \in Req, User(r) PROVE LoginIsNeeded'
  <2>1. ASSUME NEW p \in Page, ShowPage(r, p) PROVE LoginIsNeeded' BY <2>1 DEF ShowPage, Navigate
  <2>2. ASSUME NEW p \in Page, Delete(r, p) PROVE LoginIsNeeded' BY <2>2 DEF Delete, Ask
  <2>3. CASE OperateContainer(r) BY <2>3 DEF OperateContainer, Ask
  <2>4. CASE PullImage(r) BY <2>4 DEF PullImage, Ask
  <2>5. CASE CreateVolume(r) BY <2>5 DEF CreateVolume, Ask
  <2>6. CASE CreateNetwork(r) BY <2>6 DEF CreateNetwork, Ask
  <2>7. CASE ScaleStack(r) BY <2>7 DEF ScaleStack, Ask
  <2>8. CASE BulkOperate(r) BY <2>8 DEF BulkOperate, Ask
  <2>9. CASE UploadStack(r) BY <2>9 DEF UploadStack, Ask
  <2>10. CASE DeployStack(r) BY <2>10 DEF DeployStack, Ask
  <2>11. CASE Launch(r) BY <2>11 DEF Launch
  <2>12. CASE CloseRunModal(r) BY <2>12 DEF CloseRunModal, Reload, LoadIsRefused, Load
  <2>13. CASE QuickRun(r) BY <2>13 DEF QuickRun, Navigate
  <2>14. CASE ClickUndo(r) BY <2>14 DEF ClickUndo
  <2>15. CASE BrowseVolume(r) BY <2>15 DEF BrowseVolume
  <2>16. CASE ShowTab(r) BY <2>16 DEF ShowTab, LoadIsRefused, Load
  <2>17. CASE SignIn(r) BY <2>17 DEF SignIn
  <2>18. CASE RotateToken(r) BY <2>18 DEF RotateToken, Ask
  <2>19. CASE ResetConfig(r) BY <2>19 DEF ResetConfig, Ask
  <2> QED BY <1>3, <2>1, <2>2, <2>3, <2>4, <2>5, <2>6, <2>7, <2>8, <2>9, <2>10, <2>11, <2>12, <2>13,
      <2>14, <2>15, <2>16, <2>17, <2>18, <2>19 DEF User
<1>4. CASE ShowDetail BY <1>4 DEF ShowDetail, OpenDetail
<1>5. CASE ShowRunModal BY <1>5 DEF ShowRunModal
<1>6. CASE HideTab BY <1>6 DEF HideTab
<1>7. CASE EndSession BY <1>7 DEF EndSession
<1>8. CASE UNCHANGED vars BY <1>8 DEF vars
<1> QED BY <1>1, <1>2, <1>3, <1>4, <1>5, <1>6, <1>7, <1>8 DEF Next

\* The login form is on the screen of a tab with a token only while the sign-in it
\* started is on its way, or if a rotation's answer stored the token under it.
THEOREM LoginOnlyIfNeeded == Spec => []LoginIsNeeded
<1>1. Init => LoginIsNeeded BY DEF Init, LoginIsNeeded
<1> QED BY <1>1, NextLogin, TypeCorrect, PTL DEF Spec
================================================================================
