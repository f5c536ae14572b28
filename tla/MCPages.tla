------------------------------ MODULE MCPages ------------------------------
(***************************************************************************)
(* The parts of the browser client that every page uses and that share no   *)
(* state, checked in one run: a behaviour is one of one part, which `part'  *)
(* names.                                                                   *)
(***************************************************************************)
EXTENDS ClientRoutes, PolledViews, PageActions

VARIABLE part
pagesVars == <<part, routesVars, viewsVars, actionsVars>>

\* The parts at rest: nothing is under way in them that fairness would call for.
RoutesRest ==
  /\ session = None /\ user = None /\ loading = FALSE /\ dirty = FALSE /\ pushed = None
  /\ url = Home /\ initial = None /\ route = Page("lab_dashboard") /\ synced = route
  /\ asked = None /\ clicks = 0
ViewsRest ==
  /\ hook = Once /\ server = [k \in Keys |-> 0] /\ key = CHOOSE k \in Keys : TRUE
  /\ fetches = [s \in Slots |-> NoFetch] /\ shown = None /\ waiting = FALSE /\ error = FALSE
ActionsRest == ActionsInit /\ page = inboxPage

PagesInit ==
  /\ part \in {"routes", "views", "actions"}
  /\ IF part = "routes" THEN RoutesInit ELSE RoutesRest
  /\ IF part = "views" THEN ViewsInit ELSE ViewsRest
  /\ IF part = "actions" THEN ActionsInit ELSE ActionsRest

PagesNext ==
  /\ UNCHANGED part
  /\ IF part = "routes" THEN RoutesNext ELSE UNCHANGED routesVars
  /\ IF part = "views" THEN ViewsNext ELSE UNCHANGED viewsVars
  /\ IF part = "actions" THEN ActionsNext ELSE UNCHANGED actionsVars

PagesSpec == PagesInit /\ [][PagesNext]_pagesVars /\ RoutesFairness /\ ViewsFairness
=============================================================================
