-------------------------------- MODULE Pages --------------------------------
(***************************************************************************)
(* The browser's page shell (static/app.js, static/pages/): navigation,    *)
(* the loader of every page, the managed intervals that refresh a page,    *)
(* the tab's visibility, sign-in and sign-out.                             *)
(*                                                                         *)
(* JavaScript runs one callback at a time, so a step is one callback: a    *)
(* click, a timer, or the continuation of a loader after its await.  What  *)
(* makes the shell hard is what lies between the two halves of a loader:   *)
(* the user navigates, hides the tab, signs out or opens a detail view,    *)
(* and the answer then finds another page on the screen.                   *)
(*                                                                         *)
(* The element #main is abstracted to what it displays, a page's rendering *)
(* to the page's name.  Bounds: Req is the set of requests in flight at    *)
(* once, and one undo bar is open at a time.                               *)
(***************************************************************************)
EXTENDS Naturals

CONSTANTS
  Req,      \* slots for requests in flight
  NoReq,    \* a free slot
  UndoPage  \* the pages something is deleted on, a bound on the instance

VARIABLES
  page,      \* currentPage
  view,      \* what #main displays
  pending,   \* the requests in flight
  polls,     \* how many managed intervals of each kind are armed
  inFlight,  \* _refreshInFlight
  listed,    \* _lastContainers is set
  token,     \* the tab holds an API token
  origin,    \* history: what signed the tab in, its form or a late rotation
  visible,   \* document.visibilityState
  modal,     \* the Run modal is open
  undoBar,   \* the page whose refresh waits for an undo window to pass
  undone     \* Undo was clicked on that bar

tabVars == <<visible, modal>>
tokenVars == <<token, origin>>
undoVars == <<undoBar, undone>>
vars == <<page, view, pending, polls, inFlight, listed, tokenVars, tabVars, undoVars>>

-----------------------------------------------------------------------------
(* Names *)

Page == {"dashboard", "containers", "images", "templates", "volumes",
         "networks", "compose", "system", "settings"}

\* The pages a tab that becomes visible again reloads.
Resumed == {"containers", "images", "volumes", "networks", "compose", "system"}

PollKind == {"containers", "dashboard", "events"}

\* What a request is for: a page's first load, or a later call of that page.
Kind == Page \union
        {"overview", "account", "connect", "events", "browse", "config", "startup",
         "delete", "undo", "operate", "bulk", "launch", "upload", "deploy",
         "rotate", "reset"}

\* A request carries the token the tab held when it was sent, if any; an
\* operation, a delete and an undo also the page whose loader they will call.
Request == [kind : Kind, auth : BOOLEAN, then : Page \union {"none"}]
Owing == {"operate", "delete", "undo"}

ASSUME NoReqAssumption == NoReq \notin Request

Pane == {"login", "detail", "loading", "error"}

NoPolls == [k \in PollKind |-> 0]

PendingOK ==
  /\ pending \in [Req -> Request \union {NoReq}]
  /\ \A r \in Req : pending[r] # NoReq /\ pending[r].kind \in Owing => pending[r].then \in Page

TypeOK ==
  /\ page \in Page
  /\ view \in Pane \union Page
  /\ PendingOK
  /\ polls \in [PollKind -> Nat]
  /\ inFlight \in BOOLEAN
  /\ listed \in BOOLEAN
  /\ token \in BOOLEAN /\ origin \in {"form", "rotation"}
  /\ visible \in BOOLEAN
  /\ modal \in BOOLEAN
  /\ undoBar \in Page \union {"none"}
  /\ undone \in BOOLEAN

-----------------------------------------------------------------------------
(* Requests *)

Free(r) == pending[r] = NoReq
Waiting(r, k) == pending[r] # NoReq /\ pending[r].kind = k

\* apiFetch starts; in a handler the new token is the one that is sent.
SendThen(r, k, p) ==
  pending' = [pending EXCEPT ![r] = [kind |-> k, auth |-> token', then |-> p]]

Send(r, k) == SendThen(r, k, "none")

Done(r) == pending' = [pending EXCEPT ![r] = NoReq]

TokenKept == UNCHANGED token /\ UNCHANGED origin

Answered(r) == pending[r].auth /\ TokenKept

\* 503, 429, another error status, a timeout or no network: the token stays.
Failed == TokenKept

\* Mutant: the refused token stays in the tab's storage.
UnauthorizedKeepsToken == TokenKept

\* A 401, which a request without a token always gets and one with a token gets
\* when the token was rotated elsewhere, has ended or was mistyped.  It drops
\* whatever token the tab holds by then and writes the login form; it stops no
\* interval and closes no modal.
Unauthorized == token' = FALSE /\ origin' = "form"

Pending(k) == \E r \in Req : Waiting(r, k)

-----------------------------------------------------------------------------
(* The first half of a loader *)

\* loadContainers refuses to run twice and keeps the list it has on the screen;
\* every other loader wipes #main.
Load(r, p) ==
  /\ Send(r, p)
  /\ IF p = "containers"
       THEN /\ ~inFlight
            /\ inFlight' = TRUE
            /\ view' = IF listed THEN view ELSE "loading"
       ELSE /\ view' = "loading"
            /\ UNCHANGED inFlight

LoadIsRefused(p) == p = "containers" /\ inFlight

\* A loader called from a continuation, whatever page the user is on by now.
Reload(r, p) ==
  IF LoadIsRefused(p)
    THEN Done(r) /\ UNCHANGED <<view, inFlight>>
    ELSE Load(r, p)

\* showPage: every interval dies, the refresh flag and the cached list are
\* dropped, and the page's loader starts.
Navigate(r, p) ==
  /\ page' = p
  /\ polls' = NoPolls
  /\ inFlight' = (p = "containers")
  /\ listed' = FALSE
  /\ view' = "loading"
  /\ Send(r, p)

ShowPage(r, p) ==
  /\ visible
  /\ Free(r)
  /\ TokenKept
  /\ Navigate(r, p)
  /\ UNCHANGED <<tabVars, undoVars>>

-----------------------------------------------------------------------------
(* The containers page *)

ClearRefresh == [polls EXCEPT !["containers"] = IF @ > 0 THEN @ - 1 ELSE 0]
\* Mutant: the old interval is not cleared before the next is armed.
ArmAnother == [polls EXCEPT !["containers"] = @ + 1]

ArmRefresh == [ClearRefresh EXCEPT !["containers"] = @ + 1]

\* Mutant: no look for an open detail view after the await.
ContainersOverDetail(r) ==
  /\ Answered(r)
  /\ listed' = TRUE
  /\ inFlight' = FALSE
  /\ IF page # "containers"
       THEN UNCHANGED <<view, polls>>
       ELSE /\ view' = "containers"
            /\ polls' = ArmRefresh

ContainersOk(r) ==
  /\ Answered(r)
  /\ listed' = TRUE
  /\ inFlight' = FALSE
  /\ IF page # "containers" \/ view = "detail"
       THEN UNCHANGED <<view, polls>>
       ELSE /\ view' = "containers"
            /\ polls' = ArmRefresh

\* Mutant: a failed refresh does not schedule the next one.
ContainersGivesUp(r) ==
  /\ Failed
  /\ inFlight' = FALSE
  /\ view' = IF listed THEN view ELSE "error"
  /\ polls' = ClearRefresh
  /\ UNCHANGED listed

\* Any failure but a 401 keeps an old list, or puts up the panel that offers to
\* reconnect, and goes on polling, whatever page is on the screen.
ContainersError(r) ==
  /\ Failed
  /\ inFlight' = FALSE
  /\ view' = IF listed THEN view ELSE "error"
  /\ polls' = ArmRefresh
  /\ UNCHANGED listed

\* Mutant: the return on a 401 leaves the flag up.
ContainersRefusedFlagUp(r) ==
  /\ Unauthorized
  /\ view' = "login"
  /\ polls' = ClearRefresh
  /\ UNCHANGED <<inFlight, listed>>

ContainersRefused(r) ==
  /\ Unauthorized
  /\ inFlight' = FALSE
  /\ view' = "login"
  /\ polls' = ClearRefresh
  /\ UNCHANGED listed

ContainersAnswered(r) ==
  /\ Waiting(r, "containers")
  /\ Done(r)
  /\ ContainersOk(r) \/ ContainersError(r) \/ ContainersRefused(r)
  /\ UNCHANGED <<page, tabVars, undoVars>>

RefreshTick(r) ==
  /\ polls["containers"] > 0
  /\ Free(r)
  /\ TokenKept
  /\ Load(r, "containers")
  /\ UNCHANGED <<page, polls, listed, tabVars, undoVars>>

\* showDetail stops every interval and releases the refresh flag.
OpenDetail ==
  /\ polls' = NoPolls
  /\ inFlight' = FALSE
  /\ view' = "detail"

ShowDetail ==
  /\ visible
  /\ view = "containers"
  /\ OpenDetail
  /\ UNCHANGED <<page, pending, listed, tokenVars, tabVars, undoVars>>

ShowRunModal ==
  /\ visible
  /\ view = "containers"
  /\ ~modal
  /\ modal' = TRUE
  /\ polls' = ClearRefresh
  /\ UNCHANGED <<page, view, pending, inFlight, listed, tokenVars, visible, undoVars>>

\* Run on the dashboard, on an image or a template navigates first.
QuickRun(r) ==
  /\ visible
  /\ view \in Page
  /\ ~modal
  /\ Free(r)
  /\ TokenKept
  /\ Navigate(r, "containers")
  /\ modal' = TRUE
  /\ UNCHANGED <<visible, undoVars>>

\* Cancel, or a click beside the modal: the list reloads.
CloseRunModal(r) ==
  /\ visible
  /\ modal
  /\ modal' = FALSE
  /\ TokenKept
  /\ Free(r)
  /\ Reload(r, "containers")
  /\ UNCHANGED <<page, polls, listed, visible, undoVars>>

-----------------------------------------------------------------------------
(* The pages that check currentPage on success and not on failure *)

\* Mutant: the answer is painted wherever the user is.
ListStomps(r, p) ==
  /\ Waiting(r, p)
  /\ Done(r)
  /\ \/ Answered(r) /\ view' = p
     \/ (Failed \/ Unauthorized) /\ view' = "error"
  /\ UNCHANGED <<page, polls, inFlight, listed, tabVars, undoVars>>

ListAnswered(r, p) ==
  /\ Waiting(r, p)
  /\ Done(r)
  /\ \/ Answered(r) /\ view' = IF page = p THEN p ELSE view
     \/ (Failed \/ Unauthorized) /\ view' = "error"
  /\ UNCHANGED <<page, polls, inFlight, listed, tabVars, undoVars>>

ImagesAnswered(r) == ListAnswered(r, "images")
VolumesAnswered(r) == ListAnswered(r, "volumes")
NetworksAnswered(r) == ListAnswered(r, "networks")
SettingsAnswered(r) == ListAnswered(r, "settings")

\* Compose and Templates catch the failure first and then check the page, so
\* that what went wrong is a line of the page itself.
TolerantAnswered(r, p) ==
  /\ Waiting(r, p)
  /\ Done(r)
  /\ \/ /\ Answered(r) \/ Failed
        /\ view' = IF page = p THEN p ELSE view
     \/ Unauthorized /\ view' = IF page = p THEN p ELSE "login"
  /\ UNCHANGED <<page, polls, inFlight, listed, tabVars, undoVars>>

ComposeAnswered(r) == TolerantAnswered(r, "compose")
TemplatesAnswered(r) == TolerantAnswered(r, "templates")

\* Browse on a volume opens the detail view of a helper when the answer comes.
BrowseVolume(r) ==
  /\ visible
  /\ view = "volumes"
  /\ Free(r)
  /\ TokenKept
  /\ Send(r, "browse")
  /\ UNCHANGED <<page, view, polls, inFlight, listed, tabVars, undoVars>>

BrowseAnswered(r) ==
  /\ Waiting(r, "browse")
  /\ Done(r)
  /\ \/ Answered(r) /\ OpenDetail
     \/ Failed /\ UNCHANGED <<view, polls, inFlight>>
     \/ Unauthorized /\ view' = "login" /\ UNCHANGED <<polls, inFlight>>
  /\ UNCHANGED <<page, listed, tabVars, undoVars>>

-----------------------------------------------------------------------------
(* Dashboard *)

\* The first answer arms the interval whether or not it was painted.
DashboardAnswered(r) ==
  /\ Waiting(r, "dashboard")
  /\ Done(r)
  /\ \/ /\ Answered(r)
        /\ view' = IF page = "dashboard" THEN "dashboard" ELSE view
        /\ polls' = [polls EXCEPT !["dashboard"] = @ + 1]
     \/ /\ Failed \/ Unauthorized
        /\ view' = "error"
        /\ UNCHANGED polls
  /\ UNCHANGED <<page, inFlight, listed, tabVars, undoVars>>

OverviewTick(r) ==
  /\ polls["dashboard"] > 0
  /\ Free(r)
  /\ TokenKept
  /\ Send(r, "overview")
  /\ UNCHANGED <<page, view, polls, inFlight, listed, tabVars, undoVars>>

OverviewAnswered(r) ==
  /\ Waiting(r, "overview")
  /\ Done(r)
  /\ \/ Answered(r) /\ view' = IF page = "dashboard" THEN "dashboard" ELSE view
     \/ Failed /\ UNCHANGED view
     \/ Unauthorized /\ view' = "login"
  /\ UNCHANGED <<page, polls, inFlight, listed, tabVars, undoVars>>

-----------------------------------------------------------------------------
(* System: three awaits in a row, of which only the first is followed by a    *)
(* look at currentPage                                                         *)

SystemAnswered(r) ==
  /\ Waiting(r, "system")
  /\ \/ /\ Answered(r)
        /\ IF page = "system"
             THEN view' = "system" /\ Send(r, "account")
             ELSE Done(r) /\ UNCHANGED view
     \/ /\ Failed \/ Unauthorized
        /\ Done(r)
        /\ view' = "error"
  /\ UNCHANGED <<page, polls, inFlight, listed, tabVars, undoVars>>

\* The account section asks the unauthenticated setup state.
AccountAnswered(r) ==
  /\ Waiting(r, "account")
  /\ TokenKept
  /\ Send(r, "connect")
  /\ UNCHANGED <<page, view, polls, inFlight, listed, tabVars, undoVars>>

\* With the connection snippets there or not, the events viewer starts.
ConnectAnswered(r) ==
  /\ Waiting(r, "connect")
  /\ \/ (Answered(r) \/ Failed) /\ UNCHANGED view
     \/ Unauthorized /\ view' = "login"
  /\ Send(r, "events")
  /\ polls' = [polls EXCEPT !["events"] = @ + 1]
  /\ UNCHANGED <<page, inFlight, listed, tabVars, undoVars>>

EventsTick(r) ==
  /\ polls["events"] > 0
  /\ Free(r)
  /\ TokenKept
  /\ Send(r, "events")
  /\ UNCHANGED <<page, view, polls, inFlight, listed, tabVars, undoVars>>

EventsAnswered(r) ==
  /\ Waiting(r, "events")
  /\ Done(r)
  /\ \/ (Answered(r) \/ Failed) /\ UNCHANGED view
     \/ Unauthorized /\ view' = "login"
  /\ UNCHANGED <<page, polls, inFlight, listed, tabVars, undoVars>>

-----------------------------------------------------------------------------
(* Operations: a button or a modal of a page sends a request, and its answer   *)
(* reloads the page, whatever page the user is on by now                       *)

Ask(r, k, p) ==
  /\ visible
  /\ view = p
  /\ Free(r)
  /\ TokenKept
  /\ SendThen(r, k, p)
  /\ UNCHANGED <<page, view, polls, inFlight, listed, tabVars, undoVars>>

OperateContainer(r) == Ask(r, "operate", "containers")
PullImage(r) == Ask(r, "operate", "images")
CreateVolume(r) == Ask(r, "operate", "volumes")
CreateNetwork(r) == Ask(r, "operate", "networks")
ScaleStack(r) == Ask(r, "operate", "compose")
BulkOperate(r) == Ask(r, "bulk", "containers")
UploadStack(r) == Ask(r, "upload", "compose")
DeployStack(r) == Ask(r, "deploy", "templates")

\* A failure is told in a toast or in the modal.
Told(r) ==
  /\ \/ Failed /\ UNCHANGED view
     \/ Unauthorized /\ view' = "login"
  /\ Done(r)
  /\ UNCHANGED inFlight

OperateAnswered(r) ==
  /\ Waiting(r, "operate")
  /\ \/ Answered(r) /\ Reload(r, pending[r].then)
     \/ Told(r)
  /\ UNCHANGED <<page, polls, listed, tabVars, undoVars>>

\* The answers of a bulk operation are counted together, failures and a 401
\* included, and the list reloads after any of them.
BulkAnswered(r) ==
  /\ Waiting(r, "bulk")
  /\ \/ (Answered(r) \/ Failed) /\ Reload(r, "containers")
     \/ /\ Unauthorized
        /\ view' = IF listed \/ inFlight THEN "login" ELSE "loading"
        /\ IF inFlight THEN Done(r) ELSE Send(r, "containers")
        /\ inFlight' = TRUE
  /\ UNCHANGED <<page, polls, listed, tabVars, undoVars>>

\* An uploaded stack reloads Compose only if the user is still there.
UploadAnswered(r) ==
  /\ Waiting(r, "upload")
  /\ \/ /\ Answered(r)
        /\ IF page = "compose"
             THEN Reload(r, "compose")
             ELSE Done(r) /\ UNCHANGED <<view, inFlight>>
     \/ Told(r)
  /\ UNCHANGED <<page, polls, listed, tabVars, undoVars>>

\* A deployed template opens Compose wherever the user is.
DeployAnswered(r) ==
  /\ Waiting(r, "deploy")
  /\ \/ Answered(r) /\ Navigate(r, "compose")
     \/ Told(r) /\ UNCHANGED <<page, polls, listed>>
  /\ UNCHANGED <<tabVars, undoVars>>

\* Run in the modal; the modal closes when the container was launched.
Launch(r) ==
  /\ visible
  /\ modal
  /\ Free(r)
  /\ TokenKept
  /\ SendThen(r, "launch", "containers")
  /\ UNCHANGED <<page, view, polls, inFlight, listed, tabVars, undoVars>>

LaunchAnswered(r) ==
  /\ Waiting(r, "launch")
  /\ \/ Answered(r) /\ Reload(r, "containers") /\ modal' = FALSE
     \/ Told(r) /\ UNCHANGED modal
  /\ UNCHANGED <<page, polls, listed, visible, undoVars>>

-----------------------------------------------------------------------------
(* The refresh an undo bar owes its page *)

\* A delete or a prune is asked for.
Delete(r, p) == p \in UndoPage /\ Ask(r, "delete", p)

\* Queued: the bar opens, and a delete, not a prune, reloads the page at once.
\* Run at once, because undo is off or the queue full: the page reloads.
DeleteAnswered(r) ==
  /\ Waiting(r, "delete")
  /\ \/ /\ Answered(r)
        /\ undoBar = "none"
        /\ undoBar' = pending[r].then
        /\ \/ Reload(r, pending[r].then)
           \/ Done(r) /\ UNCHANGED <<view, inFlight>>
     \/ /\ Answered(r)
        /\ Reload(r, pending[r].then)
        /\ UNCHANGED undoBar
     \/ Told(r) /\ UNCHANGED undoBar
  /\ UNCHANGED <<page, polls, listed, visible, modal, undone>>

\* The first click on Undo counts.
ClickUndo(r) ==
  /\ visible
  /\ undoBar # "none"
  /\ ~undone
  /\ undone' = TRUE
  /\ Free(r)
  /\ TokenKept
  /\ SendThen(r, "undo", undoBar)
  /\ UNCHANGED <<page, view, polls, inFlight, listed, visible, modal, undoBar>>

\* Cancelled or too late, a delete's page reloads and a prune's does not.
UndoAnswered(r) ==
  /\ Waiting(r, "undo")
  /\ \/ Answered(r) /\ Reload(r, pending[r].then)
     \/ Answered(r) /\ Done(r) /\ UNCHANGED <<view, inFlight>>
     \/ Told(r)
  /\ UNCHANGED <<page, polls, listed, tabVars, undoVars>>

\* The window and its buffer are over: unless Undo was clicked the page reloads.
UndoBarTimer(r) ==
  /\ undoBar # "none"
  /\ undoBar' = "none"
  /\ undone' = FALSE
  /\ TokenKept
  /\ \/ ~undone /\ Free(r) /\ Reload(r, undoBar)
     \/ undone /\ UNCHANGED <<view, pending, inFlight>>
  /\ UNCHANGED <<page, polls, listed, visible, modal>>

-----------------------------------------------------------------------------
(* The tab and the session *)

HideTab ==
  /\ visible
  /\ visible' = FALSE
  /\ polls' = NoPolls
  /\ UNCHANGED <<page, view, pending, inFlight, listed, tokenVars, modal, undoVars>>

ShowTab(r) ==
  /\ ~visible
  /\ visible' = TRUE
  /\ TokenKept
  /\ IF ~token \/ page \notin Resumed \/ LoadIsRefused(page)
       THEN UNCHANGED <<view, pending, inFlight>>
       ELSE Free(r) /\ Load(r, page)
  /\ UNCHANGED <<page, polls, listed, modal, undoVars>>

\* The idle timer or the Log out button: sessionCleanup and the login form.
EndSession ==
  /\ token
  /\ token' = FALSE /\ origin' = "form"
  /\ polls' = NoPolls
  /\ inFlight' = FALSE
  /\ modal' = FALSE
  /\ view' = "login"
  /\ UNCHANGED <<page, pending, listed, visible, undoVars>>

\* A good or a mistyped token; the configuration is asked for first.
SignIn(r) ==
  /\ visible
  /\ view = "login"
  /\ Free(r)
  /\ token' = TRUE /\ origin' = "form"
  /\ Send(r, "config")
  /\ UNCHANGED <<page, view, polls, inFlight, listed, tabVars, undoVars>>

\* Whatever came of it, the containers page opens.
ConfigAnswered(r) ==
  /\ Waiting(r, "config")
  /\ Answered(r) \/ Failed \/ Unauthorized
  /\ Navigate(r, "containers")
  /\ UNCHANGED <<tabVars, undoVars>>

\* The same question when a tab opens: then the page it last showed opens, over
\* a login form too.
StartupAnswered(r) ==
  /\ Waiting(r, "startup")
  /\ Answered(r) \/ Failed \/ Unauthorized
  /\ \E p \in Page : Navigate(r, p)
  /\ UNCHANGED <<tabVars, undoVars>>

\* Save rotation, in the modal of the System page.
RotateToken(r) == Ask(r, "rotate", "system")

\* The answer stores the new token, whatever became of the tab since it was sent:
\* a poll may have had the old one refused, or the user have logged out.  Nothing
\* is reloaded.
RotateAnswered(r) ==
  /\ Waiting(r, "rotate")
  /\ Done(r)
  /\ \/ /\ pending[r].auth
        /\ token' = TRUE
        /\ origin' = IF token THEN origin ELSE "rotation"
        /\ UNCHANGED view
     \/ Failed /\ UNCHANGED view
     \/ Unauthorized /\ view' = "login"
  /\ UNCHANGED <<page, polls, inFlight, listed, tabVars, undoVars>>

\* Reset configuration.  The answer clears the tab's storage; 800 ms later the
\* document is loaded again, which starts it over.
ResetConfig(r) == Ask(r, "reset", "system")

ResetAnswered(r) ==
  /\ Waiting(r, "reset")
  /\ Done(r)
  /\ \/ pending[r].auth /\ token' = FALSE /\ origin' = "form" /\ UNCHANGED view
     \/ Failed /\ UNCHANGED view
     \/ Unauthorized /\ view' = "login"
  /\ UNCHANGED <<page, polls, inFlight, listed, tabVars, undoVars>>

-----------------------------------------------------------------------------

\* A tab opens with the token it kept, or with the login form.
Init ==
  /\ page = "dashboard"
  /\ polls = NoPolls
  /\ inFlight = FALSE
  /\ listed = FALSE
  /\ visible = TRUE
  /\ modal = FALSE
  /\ undoBar = "none"
  /\ undone = FALSE
  /\ origin = "form"
  /\ \/ /\ token = TRUE
        /\ view = "loading"
        /\ \E r \in Req :
             pending = [q \in Req |->
               IF q = r THEN [kind |-> "startup", auth |-> TRUE, then |-> "none"] ELSE NoReq]
     \/ /\ token = FALSE
        /\ view = "login"
        /\ pending = [q \in Req |-> NoReq]

Answer(r) ==
  \/ ContainersAnswered(r)
  \/ ImagesAnswered(r) \/ VolumesAnswered(r) \/ NetworksAnswered(r)
  \/ SettingsAnswered(r) \/ ComposeAnswered(r) \/ TemplatesAnswered(r)
  \/ BrowseAnswered(r)
  \/ DashboardAnswered(r) \/ OverviewAnswered(r)
  \/ SystemAnswered(r) \/ AccountAnswered(r) \/ ConnectAnswered(r)
  \/ EventsAnswered(r)
  \/ OperateAnswered(r) \/ BulkAnswered(r) \/ UploadAnswered(r)
  \/ DeployAnswered(r) \/ LaunchAnswered(r)
  \/ DeleteAnswered(r) \/ UndoAnswered(r)
  \/ ConfigAnswered(r) \/ StartupAnswered(r)
  \/ RotateAnswered(r) \/ ResetAnswered(r)

Tick(r) ==
  RefreshTick(r) \/ OverviewTick(r) \/ EventsTick(r) \/ UndoBarTimer(r)

User(r) ==
  \/ \E p \in Page : ShowPage(r, p) \/ Delete(r, p)
  \/ OperateContainer(r) \/ PullImage(r) \/ CreateVolume(r) \/ CreateNetwork(r)
  \/ ScaleStack(r) \/ BulkOperate(r) \/ UploadStack(r) \/ DeployStack(r)
  \/ Launch(r) \/ CloseRunModal(r) \/ QuickRun(r) \/ ClickUndo(r)
  \/ BrowseVolume(r) \/ ShowTab(r) \/ SignIn(r)
  \/ RotateToken(r) \/ ResetConfig(r)

Next ==
  \/ \E r \in Req : Answer(r) \/ Tick(r) \/ User(r)
  \/ ShowDetail \/ ShowRunModal \/ HideTab \/ EndSession

Spec == Init /\ [][Next]_vars

-----------------------------------------------------------------------------
(* Properties *)

\* A page that is painted is the page the user is on: no answer that was on its
\* way during a navigation paints the page that was left.
PageMatches == view \in Page => view = page

\* However requests overlap, at most one interval refreshes the container list.
OnePoller == polls["containers"] <= 1

\* The flag that keeps loadContainers from running twice is only up while an
\* answer is on its way; left up, the list would never refresh again.
FlagHasRequest == inFlight => Pending("containers")

\* A container list on the screen of a visible tab is kept fresh: its interval
\* is armed or an answer that will arm it is on its way.  A tab that a rotation
\* has signed in again, over whatever it showed, is not covered.
ListIsRefreshed ==
  (view = "containers" /\ visible /\ token /\ origin = "form" /\ ~modal)
    => polls["containers"] > 0 \/ Pending("containers")

\* The login form is only there for a tab without a token, while the sign-in it
\* started is on its way, or because a rotation was answered under it: no late
\* answer puts it up, or leaves it there, over a token the tab still holds.
LoginIsNeeded ==
  (view = "login" /\ token) => Pending("config") \/ origin = "rotation"

\* system.js, _showRotateTokenModal: "swap server state, then update sessionStorage
\* so the user doesn't get 401'd by their own request": while the answer of the tab's
\* own rotation is on its way, no other request takes its token away, unless the user
\* signs out or resets the configuration.
RotatorStaysIn ==
  [][token /\ Pending("rotate") /\ Pending("rotate")'
       => token' \/ EndSession \/ \E r \in Req : ResetAnswered(r)]_vars

\* An open detail view is never replaced by the container list of a refresh that
\* was on its way when it opened; leaving it goes through showPage.
DetailKept ==
  [][view = "detail" => view' # "containers"]_vars
=============================================================================
