---------------------------- MODULE ClientRoutes ----------------------------
(***************************************************************************)
(* Where the browser is: the URL, the page component the app shows, and the *)
(* two-way traffic between them.  A click sets the route at once and pushes *)
(* a path; the router delivers the path later as `initialRoute'; an effect  *)
(* reconciles the two and sends a visitor away from pages of another role.  *)
(***************************************************************************)
EXTENDS ClientValues, Naturals, Sequences, TLC

CONSTANTS
  Ids,       \* ids that pages and links carry
  MaxClicks  \* bound on what the user does

ASSUME RoutesAssumption == None \notin Ids /\ MaxClicks \in Nat

VARIABLES
  session,  \* the role of the stored tokens
  user,     \* the role of the AuthProvider's user
  loading,  \* the session check has not answered
  route,    \* the page shown
  initial,  \* initialRoute, what the URL stands for; None at "/"
  synced,   \* syncedInitialRoute
  url,      \* currentPathWithSearch()
  pushed,   \* the path the router is loading
  dirty,    \* the effect is due: initialRoute, loading or user changed
  asked,    \* history: the page of the last click, unless that click was overtaken
  clicks

routesVars == <<session, user, loading, route, initial, synced, url, pushed, dirty, asked, clicks>>

-----------------------------------------------------------------------------
(* routes/path.ts                                                           *)

Roles == {"fab_user", "lab_user", "lab_manager"}

Page(p) == [page |-> p, id |-> None, tab |-> None]
Tab(p, t) == [page |-> p, id |-> None, tab |-> t]
Item(p, i) == [page |-> p, id |-> i, tab |-> None]
Path(root, segments, tab) == [root |-> root, segments |-> segments, tab |-> tab]
Home == Path("", <<>>, None)

FabPages == {"fab_dashboard", "fab_requests", "fab_drafts", "fab_new", "fab_notifications",
             "fab_draft_edit", "fab_request"}
MgrPages == {"mgr_dashboard", "mgr_all_requests", "mgr_request", "mgr_recipes",
             "mgr_equipment", "mgr_reports", "mgr_accounts", "mgr_notifications"}
LabPages == {"lab_dashboard", "lab_samples", "lab_sample_new", "lab_wafer", "lab_wip",
             "lab_wip_detail", "lab_dispatches", "lab_dispatch_detail", "lab_equipment",
             "lab_notifications"}

Tabs == {"all", "in_progress", "returned", "incoming", "active", "confirm", "submitted",
         "pending", "completed", "alerts"}
Names == {"lab", "dashboard", "requests", "drafts", "edit", "new", "notifications", "equipment",
          "recipes", "reports", "accounts", "samples", "wip", "dispatches", "nowhere"}
\* The pages there are, and the paths that links and bookmarks have.
Routes == [page : FabPages \cup MgrPages \cup LabPages, id : Ids \cup {None},
           tab : Tabs \cup {None}]
Paths == [root : {"", "fab", "lab", "manager"}, segments : Seq(Names \cup Ids),
          tab : Tabs \cup {None}]

\* Null is nobody, no page and no path; and no row has the id "new".
ASSUME NullAssumption ==
  None \notin Roles /\ None \notin Routes /\ None \notin Paths /\ "new" \notin Ids

defaultRouteForRole(role) ==
  Page(CASE role = "fab_user" -> "fab_dashboard"
         [] role = "lab_manager" -> "mgr_dashboard"
         [] OTHER -> "lab_dashboard")

rolePathForUserRole(role) ==
  CASE role = "fab_user" -> "fab" [] role = "lab_manager" -> "manager" [] OTHER -> "lab"

\* Defect variant: a manager is kept out of the laboratory's pages.
isRouteManagerial(r, role) ==
  \/ role = "fab_user" /\ r.page \in FabPages
  \/ role = "lab_manager" /\ r.page \in MgrPages
  \/ role = "lab_user" /\ r.page \in LabPages

isRouteAllowedForRole(r, role) ==
  \/ role = "fab_user" /\ r.page \in FabPages
  \/ role = "lab_manager" /\ r.page \in MgrPages \cup LabPages
  \/ role = "lab_user" /\ r.page \in LabPages

\* labPath: a manager sees the laboratory below /manager/lab.
labPath(segments, r, role) ==
  IF rolePathForUserRole(role) = "manager" THEN Path("manager", <<"lab">> \o segments, r.tab)
                                           ELSE Path("lab", segments, r.tab)

TabUnlessAll(r) == IF r.tab = "all" THEN None ELSE r.tab

routeToPath(r, role) ==
  CASE r.page = "fab_dashboard" -> Path("fab", <<"dashboard">>, None)
    [] r.page = "fab_requests" -> Path("fab", <<"requests">>, TabUnlessAll(r))
    [] r.page = "fab_drafts" -> Path("fab", <<"drafts">>, None)
    [] r.page = "fab_new" -> Path("fab", <<"new">>, None)
    [] r.page = "fab_notifications" -> Path("fab", <<"notifications">>, None)
    [] r.page = "fab_draft_edit" -> Path("fab", <<"drafts", r.id, "edit">>, None)
    [] r.page = "fab_request" -> Path("fab", <<"requests", r.id>>, None)
    [] r.page = "mgr_dashboard" -> Path("manager", <<"dashboard">>, None)
    [] r.page = "mgr_all_requests" -> Path("manager", <<"requests">>, TabUnlessAll(r))
    [] r.page = "mgr_request" -> Path("manager", <<"requests", r.id>>, None)
    [] r.page = "mgr_equipment" -> Path("manager", <<"equipment">>, r.tab)
    [] r.page = "mgr_recipes" -> Path("manager", <<"recipes">>, None)
    [] r.page = "mgr_reports" -> Path("manager", <<"reports">>, None)
    [] r.page = "mgr_accounts" -> Path("manager", <<"accounts">>, None)
    [] r.page = "mgr_notifications" -> Path("manager", <<"notifications">>, None)
    [] r.page = "lab_dashboard" ->
         IF role = "lab_manager" THEN Path("manager", <<"lab", "dashboard">>, None)
                                 ELSE Path("lab", <<"dashboard">>, None)
    [] r.page = "lab_samples" -> labPath(<<"samples">>, r, role)
    [] r.page = "lab_sample_new" -> labPath(<<"samples", "new">>, r, role)
    [] r.page = "lab_wafer" -> labPath(<<"samples", r.id>>, r, role)
    [] r.page = "lab_wip" -> labPath(<<"wip">>, r, role)
    [] r.page = "lab_wip_detail" -> labPath(<<"wip", r.id>>, r, role)
    [] r.page = "lab_dispatches" -> labPath(<<"dispatches">>, r, role)
    [] r.page = "lab_dispatch_detail" -> labPath(<<"dispatches", r.id>>, r, role)
    [] r.page = "lab_equipment" -> labPath(<<"equipment">>, r, role)
    [] r.page = "lab_notifications" -> labPath(<<"notifications">>, r, role)

\* What the segments name; a first segment alone is a list, with its default tab.
labRouteFromSegments(s, tab) ==
  LET first == IF s = <<>> THEN "dashboard" ELSE Head(s)
      item(p, list) == IF Len(s) > 1 THEN Item(p, s[2]) ELSE list
  IN  CASE first = "samples" /\ Len(s) > 1 /\ s[2] = "new" -> Page("lab_sample_new")
        [] first = "samples" /\ ~(Len(s) > 1 /\ s[2] = "new") ->
             item("lab_wafer", Tab("lab_samples", IF tab = None THEN "all" ELSE tab))
        [] first = "wip" -> item("lab_wip_detail", Page("lab_wip"))
        [] first = "dispatches" ->
             item("lab_dispatch_detail",
                  Tab("lab_dispatches", IF tab = None THEN "active" ELSE tab))
        [] first = "equipment" -> Page("lab_equipment")
        [] first = "notifications" -> Page("lab_notifications")
        [] OTHER -> Page("lab_dashboard")

fabRouteFromSegments(s, tab) ==
  LET first == IF s = <<>> THEN "dashboard" ELSE Head(s)
  IN  CASE first = "requests" ->
             IF Len(s) > 1 THEN Item("fab_request", s[2])
             ELSE Tab("fab_requests", IF tab = None THEN "all" ELSE tab)
        [] first = "drafts" -> IF Len(s) = 3 /\ s[3] = "edit" THEN Item("fab_draft_edit", s[2])
                               ELSE Page("fab_drafts")
        [] first = "new" -> Page("fab_new")
        [] first = "notifications" -> Page("fab_notifications")
        [] OTHER -> Page("fab_dashboard")

mgrRouteFromSegments(s, tab) ==
  LET first == IF s = <<>> THEN "dashboard" ELSE Head(s)
  IN  CASE first = "lab" -> labRouteFromSegments(Tail(s), tab)
        [] first = "requests" ->
             IF Len(s) > 1 THEN Item("mgr_request", s[2])
             ELSE Tab("mgr_all_requests", IF tab = None THEN "pending" ELSE tab)
        [] first = "equipment" -> Tab("mgr_equipment", tab)
        [] first \in {"recipes", "reports", "accounts", "notifications"} ->
             Page(CASE first = "recipes" -> "mgr_recipes" [] first = "reports" -> "mgr_reports"
                    [] first = "accounts" -> "mgr_accounts" [] OTHER -> "mgr_notifications")
        [] OTHER -> Page("mgr_dashboard")

routeFromPath(p) ==
  CASE p.root = "fab" -> fabRouteFromSegments(p.segments, p.tab)
    [] p.root = "manager" -> mgrRouteFromSegments(p.segments, p.tab)
    [] OTHER -> labRouteFromSegments(p.segments, p.tab)

\* app/page.tsx has no initialRoute, app/[role]/[[...segments]]/page.tsx has that of its path.
InitialOf(p) == IF p = Home THEN None ELSE routeFromPath(p)

-----------------------------------------------------------------------------
(* What the pages link to                                                   *)

Items(p) == {Item(p, i) : i \in Ids}

FabSidebar == {Page("fab_dashboard"), Tab("fab_requests", "all"), Page("fab_drafts"),
               Page("fab_new"), Page("fab_notifications")}
LabSidebar == {Page(p) : p \in {"lab_dashboard", "lab_samples", "lab_wip", "lab_dispatches",
                                "lab_equipment", "lab_notifications"}}
MgrSidebar == {Page(p) : p \in {"mgr_dashboard", "lab_samples", "lab_wip", "lab_dispatches",
                                "lab_equipment", "mgr_all_requests", "mgr_recipes",
                                "mgr_reports", "mgr_accounts", "mgr_notifications"}}
\* Sidebar: the sections of the root that renders it.
Sidebar(role) == CASE role = "fab_user" -> FabSidebar
                   [] role = "lab_manager" -> MgrSidebar
                   [] OTHER -> LabSidebar

FabDashboardTiles == {Page("fab_new"), Page("fab_drafts"), Page("fab_notifications")}
                     \cup {Tab("fab_requests", t) : t \in {"all", "in_progress", "returned"}}
                     \cup Items("fab_request")
FabDashboardLists == Items("fab_request") \cup Items("fab_draft_edit")
                     \cup {Page("fab_drafts"), Page("fab_new"), Tab("fab_requests", "in_progress")}
LabDashboardTiles == {Tab("lab_samples", "incoming"), Page("lab_wip"),
                      Tab("lab_dispatches", "active"), Tab("lab_dispatches", "confirm")}
                     \cup Items("lab_dispatch_detail")
LabDashboardLists == Items("lab_dispatch_detail") \cup {Page("lab_equipment")}
\* The manager's tiles and shortcuts: `submitted' is no tab of the list it opens, `alerts' no
\* tab that the path of the equipment page keeps.
MgrDashboardLinks == {Tab("mgr_all_requests", "submitted"), Tab("mgr_all_requests", "pending"),
                      Page("lab_wip"), Tab("lab_samples", "completed"), Page("lab_equipment"),
                      Tab("lab_equipment", "alerts"), Page("lab_sample_new")}
                     \cup Items("mgr_request")
\* RecentActivityPanel.openActivity: the link of an activity names equipment, a wafer or the
\* list of wafers, anything else opens the notifications.
RecentActivityLinks == {Page("lab_equipment"), Page("lab_samples"), Page("mgr_notifications")}
                       \cup Items("lab_wafer")

FabListLinks == {Page("fab_new")} \cup Items("fab_request")
FabDraftLinks == {Page("fab_new")} \cup Items("fab_draft_edit")
\* The form goes to the request it made, to the drafts, or back to where one opens it from.
FabFormLinks == {Page("fab_drafts"), Page("fab_requests")} \cup Items("fab_request")
\* A wafer whose jobs all wait for the final check leads to the job to confirm.
SampleListLinks == Items("lab_wafer") \cup Items("lab_dispatch_detail")
WaferLinks == {Page("lab_samples")} \cup Items("lab_wip_detail") \cup Items("lab_dispatch_detail")
WipListLinks == Items("lab_wip_detail")
WipDetailLinks == {Page("lab_wip")} \cup Items("lab_dispatch_detail") \cup Items("lab_wafer")
DispatchListLinks == Items("lab_dispatch_detail")
DispatchDetailLinks == {Page("lab_dispatches")} \cup Items("lab_wip_detail")
MachineCardLinks == Items("lab_dispatch_detail")
MgrListLinks == Items("mgr_request")
MgrDetailLinks == {Page("mgr_all_requests")} \cup Items("lab_wafer")

\* The links of the page's own component.
PageLinks(p) ==
  CASE p = "fab_dashboard" -> FabDashboardTiles \cup FabDashboardLists
    [] p = "fab_requests" -> FabListLinks
    [] p = "fab_drafts" -> FabDraftLinks
    [] p \in {"fab_new", "fab_draft_edit"} -> FabFormLinks
    [] p = "fab_request" -> {Page("fab_requests")}
    [] p = "lab_dashboard" -> LabDashboardTiles \cup LabDashboardLists
    [] p \in {"lab_samples", "lab_sample_new"} -> SampleListLinks
    [] p = "lab_wafer" -> WaferLinks
    [] p = "lab_wip" -> WipListLinks
    [] p = "lab_wip_detail" -> WipDetailLinks
    [] p = "lab_dispatches" -> DispatchListLinks
    [] p = "lab_dispatch_detail" -> DispatchDetailLinks
    [] p = "lab_equipment" -> MachineCardLinks
    [] p = "mgr_dashboard" -> MgrDashboardLinks \cup RecentActivityLinks
    [] p = "mgr_all_requests" -> MgrListLinks
    [] p = "mgr_request" -> MgrDetailLinks
    [] OTHER -> {}

\* notificationHref: these bypass navigate, the router is given the path itself.
NotificationPaths(role) ==
  CASE role = "fab_user" -> {Path("fab", <<"requests", i>>, None) : i \in Ids}
    [] role = "lab_manager" ->
         {Path("manager", s, None) : s \in {<<"requests", i>> : i \in Ids}
              \cup {<<"lab", x, i>> : x \in {"samples", "dispatches"}, i \in Ids}
              \cup {<<"lab", "wip">>}}
    [] OTHER -> {Path("lab", s, None) :
                   s \in {<<x, i>> : x \in {"samples", "dispatches"}, i \in Ids} \cup {<<"wip">>}}

\* The page a root renders: its own pages, and its dashboard for a name it does not know.
Shown ==
  CASE user = "fab_user" -> IF route.page \in FabPages THEN route.page ELSE "fab_dashboard"
    [] user = "lab_manager" /\ route.page \in MgrPages ->
         IF route.page = "mgr_equipment" THEN "mgr_dashboard" ELSE route.page
    [] user = "lab_manager" /\ route.page \notin MgrPages ->
         IF route.page \in LabPages \ {"lab_notifications"} THEN route.page ELSE "lab_dashboard"
    [] OTHER -> IF route.page \in LabPages THEN route.page ELSE "lab_dashboard"

-----------------------------------------------------------------------------
(* The app                                                                  *)

\* A link that the user follows from outside: a bookmark, another role's page, a misspelling.
Bookmarks == {Home, Path("lab", <<"samples">>, None), Path("manager", <<"equipment">>, "alerts"),
              Path("manager", <<"lab", "nowhere">>, None), Path("fab", <<"requests">>, "returned"),
              Path("lab", <<"dispatches">>, "confirm")}
             \cup {Path("fab", <<"drafts", i, "edit">>, None) : i \in Ids}

RoutesInit ==
  /\ session \in Roles \cup {None}
  /\ url \in Bookmarks
  /\ user = None /\ loading = TRUE
  /\ initial = InitialOf(url)
  /\ route = IF initial = None THEN Page("lab_dashboard") ELSE initial
  /\ synced = Page("__unset__") /\ pushed = None /\ dirty = TRUE
  /\ asked = None /\ clicks = 0

Click == clicks < MaxClicks /\ ~loading /\ ~dirty /\ clicks' = clicks + 1

routeKey(r) == IF r = None THEN Page("") ELSE r

\* router.push and router.replace: the latest path is the one that counts.
Push(p) == pushed' = IF url # p THEN p ELSE pushed

Landing(role) == IF initial # None /\ isRouteAllowedForRole(initial, role)
                 THEN initial ELSE defaultRouteForRole(role)

\* navigate.  A click that goes back to the page of the address bar while another path loads
\* pushes nothing, and is overtaken by that path.
Navigate(r) ==
  /\ user # None /\ Click
  /\ r \in Sidebar(user) \cup PageLinks(Shown)
  /\ synced' = r /\ route' = r
  /\ Push(routeToPath(r, user))
  /\ asked' = IF pushed' \in {None, routeToPath(r, user)} THEN r ELSE None
  /\ UNCHANGED <<session, user, loading, initial, url, dirty>>

\* NotificationsPage.openRelated
OpenNotification(p) ==
  /\ user # None /\ Click
  /\ Shown \in {"fab_notifications", "lab_notifications", "mgr_notifications"}
  /\ p \in NotificationPaths(user)
  /\ pushed' = p /\ asked' = routeFromPath(p)
  /\ UNCHANGED <<session, user, loading, route, initial, synced, url, dirty>>

\* onLogin, called by the login page with the user that the server named.
OnLogin(role) ==
  /\ user = None /\ Click
  /\ user' = role /\ session' = role
  /\ route' = Landing(role)
  /\ Push(routeToPath(Landing(role), role))
  /\ dirty' = TRUE /\ asked' = None
  /\ UNCHANGED <<loading, initial, synced, url>>

\* onLogout
OnLogout ==
  /\ user # None /\ Click
  /\ user' = None /\ session' = None
  /\ route' = Page("lab_dashboard")
  /\ Push(Home)
  /\ dirty' = TRUE /\ asked' = None
  /\ UNCHANGED <<loading, initial, synced, url>>

\* The app is mounted anew: React keeps none of its state.
Remounted ==
  /\ user' = None /\ loading' = TRUE /\ synced' = Page("__unset__")
  /\ route' = IF initial' = None THEN Page("lab_dashboard") ELSE initial'

\* The router shows the path it loaded.  Whether React keeps the app of the page before is
\* Next's choice when the segments differ; it does when only the tab changes.
Deliver ==
  /\ pushed # None /\ ~dirty
  /\ url' = pushed /\ initial' = InitialOf(pushed) /\ pushed' = None
  /\ dirty' = TRUE
  /\ \/ pushed # Home /\ url # Home /\ UNCHANGED <<user, loading, route, synced>>
     \/ <<pushed.root, pushed.segments>> # <<url.root, url.segments>> /\ Remounted
  /\ UNCHANGED <<session, asked, clicks>>

\* The back button and the address bar; the latter loads the app from nothing.
GoTo(p) ==
  /\ clicks < MaxClicks /\ clicks' = clicks + 1
  /\ ~dirty /\ p # url
  /\ url' = p /\ initial' = InitialOf(p) /\ pushed' = None
  /\ Remounted
  /\ dirty' = TRUE /\ asked' = None
  /\ UNCHANGED session

\* loadSession: whatever goes wrong, the stored tokens are dropped.
SessionChecked(ok) ==
  /\ loading /\ ~dirty
  /\ loading' = FALSE
  /\ session' = IF ok THEN session ELSE None
  /\ user' = session'
  /\ asked' = IF user' = None THEN None ELSE asked
  /\ dirty' = TRUE
  /\ UNCHANGED <<route, initial, synced, url, pushed, clicks>>

\* Defect variant: the path is replaced even when it is the current one.
SyncEffectAlways ==
  /\ dirty /\ dirty' = FALSE
  /\ IF user = None
       THEN pushed' = (IF loading THEN pushed ELSE Home) /\ UNCHANGED <<route, synced>>
       ELSE /\ synced' = routeKey(initial)
            /\ route' = Landing(user) /\ pushed' = routeToPath(Landing(user), user)
  /\ UNCHANGED <<session, user, loading, initial, url, asked, clicks>>

\* The effect of ReferenceAppContent.  navigate wrote `synced', so that the delivery of the
\* path it pushed does not count as news.
SyncEffect ==
  /\ dirty /\ dirty' = FALSE
  /\ LET key == routeKey(initial)
     IN  \/ /\ user = None
            /\ IF loading THEN UNCHANGED pushed ELSE Push(Home)
            /\ UNCHANGED <<route, synced>>
         \/ user # None /\ key = synced /\ UNCHANGED <<route, synced, pushed>>
         \/ /\ user # None /\ key # synced
            /\ synced' = key
            /\ route' = Landing(user)
            /\ Push(routeToPath(Landing(user), user))
  /\ UNCHANGED <<session, user, loading, initial, url, asked, clicks>>

AppStep == SyncEffect \/ Deliver \/ \E ok \in BOOLEAN : SessionChecked(ok)

RoutesNext ==
  \/ \E r \in Sidebar(user) \cup PageLinks(Shown) : Navigate(r)
  \/ \E p \in NotificationPaths(user) : OpenNotification(p)
  \/ \E role \in Roles : OnLogin(role)
  \/ OnLogout
  \/ \E p \in Bookmarks : GoTo(p)
  \/ AppStep

\* React and the router go on by themselves; the user need not click.
RoutesFairness == WF_routesVars(AppStep)
RoutesSpec == RoutesInit /\ [][RoutesNext]_routesVars /\ RoutesFairness

-----------------------------------------------------------------------------
(* Properties                                                               *)

Settled == ~loading /\ ~dirty /\ pushed = None

\* Once the app has settled, the page is one that the role may see, and it is the one the user
\* clicked last, whatever was typed before, however late the router delivered, and whether or
\* not React remounted the app on the way.  The URL is the path of that page; after a click that
\* was overtaken it can be another path of the page, whose tab the page does not know.
SettledPageIsAsked ==
  Settled /\ user # None =>
    /\ isRouteAllowedForRole(route, user)
    /\ url = routeToPath(route, user) \/ (asked = None /\ initial = route)
    /\ asked # None => route.page = asked.page /\ route.id = asked.id

\* The effect, the pushes it makes and the routes they come back as do not chase each other:
\* the app settles after every click, redirect, login and logout.
AppSettles == ~Settled ~> Settled
=============================================================================
