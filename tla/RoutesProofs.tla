---------------------------- MODULE RoutesProofs ----------------------------
(***************************************************************************)
(* Proofs about the browser's routing, for any ids and any number of        *)
(* clicks.  They stand on two facts about routes/path.ts: a path that is    *)
(* written for a page is read as that page, and the links of a role's pages *)
(* stay among the pages of the role.                                        *)
(***************************************************************************)
EXTENDS ClientRoutes, SequenceTheorems, TLAPS

-----------------------------------------------------------------------------
(* Pages and paths                                                          *)

ItemPages == {"fab_draft_edit", "fab_request", "mgr_request", "lab_wafer", "lab_wip_detail",
              "lab_dispatch_detail"}

\* A page is about a row exactly if it is a page of rows.
WellFormed(r) == r \in Routes /\ IF r.page \in ItemPages THEN r.id \in Ids ELSE r.id = None

\* A page that the role may see.
Good(r, role) == WellFormed(r) /\ isRouteAllowedForRole(r, role)

\* The path names the page, but perhaps another tab of it.
NamesPage(p, r) ==
  /\ p \in Paths /\ p # Home
  /\ WellFormed(routeFromPath(p))
  /\ routeFromPath(p).page = r.page /\ routeFromPath(p).id = r.id

\* What a segment can be.
Words == Names \cup Ids

\* The segments that routeToPath writes, taken apart as the readers do.
LEMMA ShortSegments ==
  /\ <<>> \in Seq(Words)
  /\ \A x \in Words : /\ <<x>> \in Seq(Words) /\ <<x>> # <<>> /\ Len(<<x>>) = 1
                      /\ Head(<<x>>) = x
  /\ \A x, y \in Words : /\ <<x, y>> \in Seq(Words) /\ <<x, y>> # <<>> /\ Len(<<x, y>>) = 2
                         /\ Head(<<x, y>>) = x /\ <<x, y>>[2] = y /\ <<x, y>>[1] = x
  /\ \A x, y, z \in Words :
       /\ <<x, y, z>> \in Seq(Words) /\ <<x, y, z>> # <<>> /\ Len(<<x, y, z>>) = 3
       /\ Head(<<x, y, z>>) = x /\ <<x, y, z>>[2] = y /\ <<x, y, z>>[3] = z
<1>1. \A x \in Words : /\ <<x>> \in Seq(Words) /\ <<x>> # <<>> /\ Len(<<x>>) = 1
                       /\ Head(<<x>>) = x
  OBVIOUS
<1>2. \A x, y \in Words : /\ <<x, y>> \in Seq(Words) /\ <<x, y>> # <<>> /\ Len(<<x, y>>) = 2
                          /\ Head(<<x, y>>) = x /\ <<x, y>>[2] = y /\ <<x, y>>[1] = x
  OBVIOUS
<1>3. \A x, y, z \in Words :
       /\ <<x, y, z>> \in Seq(Words) /\ <<x, y, z>> # <<>> /\ Len(<<x, y, z>>) = 3
       /\ Head(<<x, y, z>>) = x /\ <<x, y, z>>[2] = y /\ <<x, y, z>>[3] = z
  OBVIOUS
<1> QED
  BY <1>1, <1>2, <1>3

\* mgrRouteFromSegments drops the `lab' that labPath puts in front.
LEMMA LongerSegments ==
  ASSUME NEW s \in Seq(Words), NEW x \in Words
  PROVE  /\ <<x>> \o s \in Seq(Words) /\ <<x>> \o s # <<>>
         /\ Head(<<x>> \o s) = x /\ Tail(<<x>> \o s) = s
<1>1. <<x>> \in Seq(Words) /\ Len(<<x>>) = 1 /\ <<x>>[1] = x /\ Len(s) \in Nat
  OBVIOUS
<1> DEFINE t == <<x>> \o s
<1>2. /\ t \in Seq(Words) /\ Len(t) = 1 + Len(s)
      /\ \A i \in 1..(1 + Len(s)) : t[i] = IF i <= 1 THEN x ELSE s[i - 1]
  <2>1. /\ <<x>> \o s \in Seq(Words) /\ Len(<<x>> \o s) = Len(<<x>>) + Len(s)
        /\ \A i \in 1..(Len(<<x>>) + Len(s)) :
             (<<x>> \o s)[i] = IF i <= Len(<<x>>) THEN <<x>>[i] ELSE s[i - Len(<<x>>)]
    BY <1>1, ConcatProperties
  <2> DEFINE one == <<x>>
  <2>2. \A i \in 1..(1 + Len(s)) : t[i] = IF i <= 1 THEN one[i] ELSE s[i - 1]
    BY <1>1, <2>1
  <2>3. one[1] = x
    BY <1>1
  <2> HIDE DEF t, one
  <2>4. \A i \in 1..(1 + Len(s)) : t[i] = IF i <= 1 THEN x ELSE s[i - 1]
    BY <1>1, <2>2, <2>3
  <2> QED
    BY <1>1, <2>1, <2>4 DEF t
<1> HIDE DEF t
<1>3. t # <<>> /\ Head(t) = x
  BY <1>1, <1>2
<1>4. /\ Tail(t) \in Seq(Words) /\ Len(Tail(t)) = Len(s)
      /\ \A i \in 1..Len(Tail(t)) : Tail(t)[i] = t[i + 1]
  BY <1>1, <1>2, <1>3, HeadTailProperties
<1>5. \A i \in 1..Len(Tail(t)) : Tail(t)[i] = s[i]
  <2> SUFFICES ASSUME NEW i \in 1..Len(s) PROVE t[i + 1] = s[i]
    BY <1>4
  <2>1. i + 1 \in 1..(1 + Len(s)) /\ ~(i + 1 <= 1) /\ (i + 1) - 1 = i
    BY <1>1
  <2> QED
    BY <1>2, <2>1
<1>6. Tail(t) = s
  BY <1>4, <1>5, SeqEqual
<1> QED
  BY <1>2, <1>3, <1>6 DEF t

\* A path of the laboratory's pages, as a lab user and as a manager have it.
LEMMA LabPathsAreRead ==
  ASSUME NEW s \in Seq(Words), NEW t \in Tabs \cup {None}
  PROVE  /\ Path("lab", s, t) \in Paths /\ Path("lab", s, t) # Home
         /\ routeFromPath(Path("lab", s, t)) = labRouteFromSegments(s, t)
         /\ Path("manager", <<"lab">> \o s, t) \in Paths /\ Path("manager", <<"lab">> \o s, t) # Home
         /\ routeFromPath(Path("manager", <<"lab">> \o s, t)) = labRouteFromSegments(s, t)
<1>1. "lab" \in Words
  BY DEF Words, Names
<1> DEFINE S == <<"lab">> \o s
           p == Path("lab", s, t)
           q == Path("manager", S, t)
<1>2. S \in Seq(Words) /\ S # <<>> /\ Head(S) = "lab" /\ Tail(S) = s
  BY <1>1, LongerSegments
<1> HIDE DEF S
<1>3. /\ p \in Paths /\ q \in Paths /\ p.root = "lab" /\ q.root = "manager" /\ Home.root = ""
      /\ p.segments = s /\ p.tab = t /\ q.segments = S /\ q.tab = t
  BY <1>2 DEF Path, Paths, Home, Words
<1> HIDE DEF p, q
<1>4. routeFromPath(p) = labRouteFromSegments(s, t)
  BY <1>3 DEF routeFromPath
<1>5. routeFromPath(q) = mgrRouteFromSegments(S, t)
  BY <1>3 DEF routeFromPath
<1>6. mgrRouteFromSegments(S, t) = labRouteFromSegments(s, t)
  BY <1>2 DEF mgrRouteFromSegments
<1> QED
  BY <1>3, <1>4, <1>5, <1>6 DEF p, q, S

\* A path of the fab's and of the manager's own pages.
LEMMA FabPathsAreRead ==
  ASSUME NEW s \in Seq(Words), NEW t \in Tabs \cup {None}
  PROVE  /\ Path("fab", s, t) \in Paths /\ Path("fab", s, t) # Home
         /\ routeFromPath(Path("fab", s, t)) = fabRouteFromSegments(s, t)
         /\ Path("manager", s, t) \in Paths /\ Path("manager", s, t) # Home
         /\ routeFromPath(Path("manager", s, t)) = mgrRouteFromSegments(s, t)
<1> DEFINE p == Path("fab", s, t)
           q == Path("manager", s, t)
<1>1. /\ p \in Paths /\ q \in Paths /\ p.root = "fab" /\ q.root = "manager" /\ Home.root = ""
      /\ p.segments = s /\ p.tab = t /\ q.segments = s /\ q.tab = t
  BY DEF Path, Paths, Home, Words
<1> HIDE DEF p, q
<1>2. routeFromPath(p) = fabRouteFromSegments(s, t) /\ routeFromPath(q) = mgrRouteFromSegments(s, t)
  BY <1>1 DEF routeFromPath
<1> QED
  BY <1>1, <1>2 DEF p, q

\* What the laboratory's segments name, for each list that labPath is given.
LEMMA LabSegmentsAreRead ==
  ASSUME NEW t \in Tabs \cup {None}
  PROVE  /\ labRouteFromSegments(<<"dashboard">>, t) = Page("lab_dashboard")
         /\ labRouteFromSegments(<<"samples">>, t) = Tab("lab_samples", IF t = None THEN "all" ELSE t)
         /\ labRouteFromSegments(<<"samples", "new">>, t) = Page("lab_sample_new")
         /\ labRouteFromSegments(<<"wip">>, t) = Page("lab_wip")
         /\ labRouteFromSegments(<<"dispatches">>, t) =
              Tab("lab_dispatches", IF t = None THEN "active" ELSE t)
         /\ labRouteFromSegments(<<"equipment">>, t) = Page("lab_equipment")
         /\ labRouteFromSegments(<<"notifications">>, t) = Page("lab_notifications")
         /\ labRouteFromSegments(<<"nowhere">>, t) = Page("lab_dashboard")
         /\ \A i \in Ids :
              /\ labRouteFromSegments(<<"samples", i>>, t) = Item("lab_wafer", i)
              /\ labRouteFromSegments(<<"wip", i>>, t) = Item("lab_wip_detail", i)
              /\ labRouteFromSegments(<<"dispatches", i>>, t) = Item("lab_dispatch_detail", i)
<1>1. /\ \A x \in Names : x \in Words
      /\ \A i \in Ids : i \in Words /\ i # "new"
  BY NullAssumption DEF Words
<1>2. \A x \in Words : <<x>> # <<>> /\ Len(<<x>>) = 1 /\ Head(<<x>>) = x
  BY ShortSegments
<1>3. \A x, y \in Words : <<x, y>> # <<>> /\ Len(<<x, y>>) = 2 /\ Head(<<x, y>>) = x /\ <<x, y>>[2] = y
  BY ShortSegments
<1>4. ASSUME NEW x \in {"dashboard", "samples", "wip", "dispatches", "equipment", "notifications",
                        "nowhere"}
      PROVE  labRouteFromSegments(<<x>>, t) =
               CASE x = "samples" -> Tab("lab_samples", IF t = None THEN "all" ELSE t)
                 [] x = "wip" -> Page("lab_wip")
                 [] x = "dispatches" -> Tab("lab_dispatches", IF t = None THEN "active" ELSE t)
                 [] x = "equipment" -> Page("lab_equipment")
                 [] x = "notifications" -> Page("lab_notifications")
                 [] OTHER -> Page("lab_dashboard")
  <2> DEFINE s == <<x>>
  <2>1. s # <<>> /\ Len(s) = 1 /\ Head(s) = x
    BY <1>1, <1>2 DEF Names
  <2> HIDE DEF s
  <2>2. labRouteFromSegments(s, t) =
               CASE x = "samples" -> Tab("lab_samples", IF t = None THEN "all" ELSE t)
                 [] x = "wip" -> Page("lab_wip")
                 [] x = "dispatches" -> Tab("lab_dispatches", IF t = None THEN "active" ELSE t)
                 [] x = "equipment" -> Page("lab_equipment")
                 [] x = "notifications" -> Page("lab_notifications")
                 [] OTHER -> Page("lab_dashboard")
    BY <2>1 DEF labRouteFromSegments
  <2> QED
    BY <2>2 DEF s
<1>5. ASSUME NEW x \in {"samples", "wip", "dispatches"}, NEW y \in Words, y = "new" => x = "samples"
      PROVE  labRouteFromSegments(<<x, y>>, t) =
               CASE y = "new" -> Page("lab_sample_new")
                 [] y # "new" /\ x = "samples" -> Item("lab_wafer", y)
                 [] y # "new" /\ x = "wip" -> Item("lab_wip_detail", y)
                 [] OTHER -> Item("lab_dispatch_detail", y)
  <2> DEFINE s == <<x, y>>
  <2>1. s # <<>> /\ Len(s) = 2 /\ Head(s) = x /\ s[2] = y
    BY <1>1, <1>3 DEF Names
  <2> HIDE DEF s
  <2>2. labRouteFromSegments(s, t) =
               CASE y = "new" -> Page("lab_sample_new")
                 [] y # "new" /\ x = "samples" -> Item("lab_wafer", y)
                 [] y # "new" /\ x = "wip" -> Item("lab_wip_detail", y)
                 [] OTHER -> Item("lab_dispatch_detail", y)
    BY <1>5, <2>1 DEF labRouteFromSegments
  <2> QED
    BY <2>2 DEF s
<1>6. "new" \in Words
  BY <1>1 DEF Names
<1> HIDE DEF Words
<1> QED
  BY <1>1, <1>4, <1>5, <1>6

\* What the fab's segments name.
LEMMA FabSegmentsAreRead ==
  ASSUME NEW t \in Tabs \cup {None}
  PROVE  /\ fabRouteFromSegments(<<"dashboard">>, t) = Page("fab_dashboard")
         /\ fabRouteFromSegments(<<"requests">>, t) =
              Tab("fab_requests", IF t = None THEN "all" ELSE t)
         /\ fabRouteFromSegments(<<"drafts">>, t) = Page("fab_drafts")
         /\ fabRouteFromSegments(<<"new">>, t) = Page("fab_new")
         /\ fabRouteFromSegments(<<"notifications">>, t) = Page("fab_notifications")
         /\ \A i \in Ids :
              /\ fabRouteFromSegments(<<"requests", i>>, t) = Item("fab_request", i)
              /\ fabRouteFromSegments(<<"drafts", i, "edit">>, t) = Item("fab_draft_edit", i)
<1>1. /\ \A x \in Names : x \in Words
      /\ \A i \in Ids : i \in Words
  BY DEF Words
<1>2. ASSUME NEW x \in {"dashboard", "requests", "drafts", "new", "notifications"}
      PROVE  fabRouteFromSegments(<<x>>, t) =
               CASE x = "requests" -> Tab("fab_requests", IF t = None THEN "all" ELSE t)
                 [] x = "drafts" -> Page("fab_drafts")
                 [] x = "new" -> Page("fab_new")
                 [] x = "notifications" -> Page("fab_notifications")
                 [] OTHER -> Page("fab_dashboard")
  <2> DEFINE s == <<x>>
  <2>1. s # <<>> /\ Len(s) = 1 /\ Head(s) = x
    BY <1>1, ShortSegments DEF Names
  <2> HIDE DEF s
  <2>2. fabRouteFromSegments(s, t) =
               CASE x = "requests" -> Tab("fab_requests", IF t = None THEN "all" ELSE t)
                 [] x = "drafts" -> Page("fab_drafts")
                 [] x = "new" -> Page("fab_new")
                 [] x = "notifications" -> Page("fab_notifications")
                 [] OTHER -> Page("fab_dashboard")
    BY <2>1 DEF fabRouteFromSegments
  <2> QED
    BY <2>2 DEF s
<1>3. ASSUME NEW i \in Ids
      PROVE  fabRouteFromSegments(<<"requests", i>>, t) = Item("fab_request", i)
  <2> DEFINE s == <<"requests", i>>
  <2>1. s # <<>> /\ Len(s) = 2 /\ Head(s) = "requests" /\ s[2] = i
    BY <1>1, ShortSegments DEF Names
  <2> HIDE DEF s
  <2>2. fabRouteFromSegments(s, t) = Item("fab_request", i)
    BY <2>1 DEF fabRouteFromSegments
  <2> QED
    BY <2>2 DEF s
<1>4. ASSUME NEW i \in Ids
      PROVE  fabRouteFromSegments(<<"drafts", i, "edit">>, t) = Item("fab_draft_edit", i)
  <2> DEFINE s == <<"drafts", i, "edit">>
  <2>1. s # <<>> /\ Len(s) = 3 /\ Head(s) = "drafts" /\ s[2] = i /\ s[3] = "edit"
    BY <1>1, ShortSegments DEF Names
  <2> HIDE DEF s
  <2>2. fabRouteFromSegments(s, t) = Item("fab_draft_edit", i)
    BY <2>1 DEF fabRouteFromSegments
  <2> QED
    BY <2>2 DEF s
<1> QED
  BY <1>2, <1>3, <1>4

\* What the manager's segments name, those of the laboratory aside.
LEMMA MgrSegmentsAreRead ==
  ASSUME NEW t \in Tabs \cup {None}
  PROVE  /\ mgrRouteFromSegments(<<"dashboard">>, t) = Page("mgr_dashboard")
         /\ mgrRouteFromSegments(<<"requests">>, t) =
              Tab("mgr_all_requests", IF t = None THEN "pending" ELSE t)
         /\ mgrRouteFromSegments(<<"equipment">>, t) = Tab("mgr_equipment", t)
         /\ mgrRouteFromSegments(<<"recipes">>, t) = Page("mgr_recipes")
         /\ mgrRouteFromSegments(<<"reports">>, t) = Page("mgr_reports")
         /\ mgrRouteFromSegments(<<"accounts">>, t) = Page("mgr_accounts")
         /\ mgrRouteFromSegments(<<"notifications">>, t) = Page("mgr_notifications")
         /\ \A i \in Ids : mgrRouteFromSegments(<<"requests", i>>, t) = Item("mgr_request", i)
<1>1. /\ \A x \in Names : x \in Words
      /\ \A i \in Ids : i \in Words
  BY DEF Words
<1>2. ASSUME NEW x \in {"dashboard", "requests", "equipment", "recipes", "reports", "accounts",
                        "notifications"}
      PROVE  mgrRouteFromSegments(<<x>>, t) =
               CASE x = "requests" -> Tab("mgr_all_requests", IF t = None THEN "pending" ELSE t)
                 [] x = "equipment" -> Tab("mgr_equipment", t)
                 [] x = "recipes" -> Page("mgr_recipes")
                 [] x = "reports" -> Page("mgr_reports")
                 [] x = "accounts" -> Page("mgr_accounts")
                 [] x = "notifications" -> Page("mgr_notifications")
                 [] OTHER -> Page("mgr_dashboard")
  <2> DEFINE s == <<x>>
  <2>1. s # <<>> /\ Len(s) = 1 /\ Head(s) = x
    BY <1>1, ShortSegments DEF Names
  <2> HIDE DEF s
  <2>2. mgrRouteFromSegments(s, t) =
               CASE x = "requests" -> Tab("mgr_all_requests", IF t = None THEN "pending" ELSE t)
                 [] x = "equipment" -> Tab("mgr_equipment", t)
                 [] x = "recipes" -> Page("mgr_recipes")
                 [] x = "reports" -> Page("mgr_reports")
                 [] x = "accounts" -> Page("mgr_accounts")
                 [] x = "notifications" -> Page("mgr_notifications")
                 [] OTHER -> Page("mgr_dashboard")
    BY <2>1 DEF mgrRouteFromSegments
  <2> QED
    BY <2>2 DEF s
<1>3. ASSUME NEW i \in Ids
      PROVE  mgrRouteFromSegments(<<"requests", i>>, t) = Item("mgr_request", i)
  <2> DEFINE s == <<"requests", i>>
  <2>1. s # <<>> /\ Len(s) = 2 /\ Head(s) = "requests" /\ s[2] = i
    BY <1>1, ShortSegments DEF Names
  <2> HIDE DEF s
  <2>2. mgrRouteFromSegments(s, t) = Item("mgr_request", i)
    BY <2>1 DEF mgrRouteFromSegments
  <2> QED
    BY <2>2 DEF s
<1> QED
  BY <1>2, <1>3

\* The records that links and readers make.
LEMMA RoutesAreWellFormed ==
  /\ \A p \in (FabPages \cup MgrPages \cup LabPages) \ ItemPages :
       /\ WellFormed(Page(p)) /\ Page(p).page = p /\ Page(p).id = None
       /\ \A t \in Tabs \cup {None} :
            WellFormed(Tab(p, t)) /\ Tab(p, t).page = p /\ Tab(p, t).id = None
  /\ \A p \in ItemPages, i \in Ids :
       WellFormed(Item(p, i)) /\ Item(p, i).page = p /\ Item(p, i).id = i
BY DEF WellFormed, Routes, Page, Tab, Item, ItemPages, FabPages, MgrPages, LabPages

\* What routeToPath writes for a page, routeFromPath reads as that page and row, for every role
\* and every tab; the tab itself may be lost (path.ts writes none for most pages).
THEOREM PathsNameTheirPages ==
  ASSUME NEW role \in Roles, NEW r, WellFormed(r)
  PROVE  NamesPage(routeToPath(r, role), r)
<1> DEFINE q == routeToPath(r, role)
           t == r.tab
<1>1. /\ r.page \in FabPages \cup MgrPages \cup LabPages /\ t \in Tabs \cup {None}
      /\ IF r.page \in ItemPages THEN r.id \in Ids ELSE r.id = None
      /\ "all" \in Tabs /\ "active" \in Tabs /\ "pending" \in Tabs
      /\ TabUnlessAll(r) \in Tabs \cup {None} /\ None \in Tabs \cup {None}
  BY DEF WellFormed, Routes, Tabs, TabUnlessAll
<1>2. /\ \A x \in Names : <<x>> \in Seq(Words)
      /\ \A x \in Names, i \in Ids : <<x, i>> \in Seq(Words)
      /\ \A x \in Names, y \in Names : <<x, y>> \in Seq(Words)
      /\ \A i \in Ids : <<"drafts", i, "edit">> \in Seq(Words)
  <2>1. \A x \in Names \cup Ids : x \in Words
    BY DEF Words
  <2>2. "drafts" \in Names /\ "edit" \in Names
    BY DEF Names
  <2> QED
    BY <2>1, <2>2, ShortSegments
<1>3. CASE r.page \in FabPages
  <2>1. ASSUME NEW s \in Seq(Words), NEW u \in Tabs \cup {None}, q = Path("fab", s, u)
        PROVE  q \in Paths /\ q # Home /\ routeFromPath(q) = fabRouteFromSegments(s, u)
    BY <2>1, FabPathsAreRead
  <2>2. CASE r.page \in {"fab_dashboard", "fab_drafts", "fab_new", "fab_notifications"}
    <3>1. PICK x \in {"dashboard", "drafts", "new", "notifications"} :
            /\ q = Path("fab", <<x>>, None)
            /\ r.page = CASE x = "dashboard" -> "fab_dashboard" [] x = "drafts" -> "fab_drafts"
                          [] x = "new" -> "fab_new" [] OTHER -> "fab_notifications"
      BY <2>2 DEF routeToPath
    <3>2. <<x>> \in Seq(Words)
      BY <1>2 DEF Names
    <3>3. q \in Paths /\ q # Home /\ routeFromPath(q) = fabRouteFromSegments(<<x>>, None)
      BY <1>1, <2>1, <3>1, <3>2
    <3>4. fabRouteFromSegments(<<x>>, None) = Page(r.page)
      BY <1>1, <3>1, FabSegmentsAreRead
    <3> QED
      BY <1>1, <2>2, <3>3, <3>4, RoutesAreWellFormed DEF NamesPage, ItemPages, FabPages
  <2>3. CASE r.page = "fab_requests"
    <3>1. q = Path("fab", <<"requests">>, TabUnlessAll(r))
      BY <2>3 DEF routeToPath
    <3>2. <<"requests">> \in Seq(Words)
      BY <1>2 DEF Names
    <3>3. q \in Paths /\ q # Home
          /\ routeFromPath(q) = fabRouteFromSegments(<<"requests">>, TabUnlessAll(r))
      BY <1>1, <2>1, <3>1, <3>2
    <3>4. \E u \in Tabs \cup {None} : routeFromPath(q) = Tab("fab_requests", u)
      BY <1>1, <3>3, FabSegmentsAreRead
    <3> QED
      BY <1>1, <2>3, <3>3, <3>4, RoutesAreWellFormed DEF NamesPage, ItemPages, FabPages
  <2>4. CASE r.page = "fab_request"
    <3>1. q = Path("fab", <<"requests", r.id>>, None) /\ r.id \in Ids
      BY <1>1, <2>4 DEF routeToPath, ItemPages
    <3>2. <<"requests", r.id>> \in Seq(Words)
      BY <1>2, <3>1 DEF Names
    <3>3. q \in Paths /\ q # Home /\ routeFromPath(q) = Item("fab_request", r.id)
      BY <1>1, <2>1, <3>1, <3>2, FabSegmentsAreRead
    <3> QED
      BY <2>4, <3>1, <3>3, RoutesAreWellFormed DEF NamesPage, ItemPages
  <2>5. CASE r.page = "fab_draft_edit"
    <3>1. q = Path("fab", <<"drafts", r.id, "edit">>, None) /\ r.id \in Ids
      BY <1>1, <2>5 DEF routeToPath, ItemPages
    <3>2. <<"drafts", r.id, "edit">> \in Seq(Words)
      BY <1>2, <3>1
    <3>3. q \in Paths /\ q # Home /\ routeFromPath(q) = Item("fab_draft_edit", r.id)
      BY <1>1, <2>1, <3>1, <3>2, FabSegmentsAreRead
    <3> QED
      BY <2>5, <3>1, <3>3, RoutesAreWellFormed DEF NamesPage, ItemPages
  <2> QED
    BY <1>3, <2>2, <2>3, <2>4, <2>5 DEF FabPages
<1>4. CASE r.page \in MgrPages
  <2>1. ASSUME NEW s \in Seq(Words), NEW u \in Tabs \cup {None}, q = Path("manager", s, u)
        PROVE  q \in Paths /\ q # Home /\ routeFromPath(q) = mgrRouteFromSegments(s, u)
    BY <2>1, FabPathsAreRead
  <2>2. CASE r.page \in {"mgr_dashboard", "mgr_recipes", "mgr_reports", "mgr_accounts",
                         "mgr_notifications"}
    <3>1. PICK x \in {"dashboard", "recipes", "reports", "accounts", "notifications"} :
            /\ q = Path("manager", <<x>>, None)
            /\ r.page = CASE x = "dashboard" -> "mgr_dashboard" [] x = "recipes" -> "mgr_recipes"
                          [] x = "reports" -> "mgr_reports" [] x = "accounts" -> "mgr_accounts"
                          [] OTHER -> "mgr_notifications"
      BY <2>2 DEF routeToPath
    <3>2. <<x>> \in Seq(Words)
      BY <1>2 DEF Names
    <3>3. q \in Paths /\ q # Home /\ routeFromPath(q) = mgrRouteFromSegments(<<x>>, None)
      BY <1>1, <2>1, <3>1, <3>2
    <3>4. mgrRouteFromSegments(<<x>>, None) = Page(r.page)
      BY <1>1, <3>1, MgrSegmentsAreRead
    <3> QED
      BY <1>1, <2>2, <3>3, <3>4, RoutesAreWellFormed DEF NamesPage, ItemPages, MgrPages
  <2>3. CASE r.page \in {"mgr_all_requests", "mgr_equipment"}
    <3>1. PICK x \in {"requests", "equipment"}, u \in Tabs \cup {None} :
            /\ q = Path("manager", <<x>>, u)
            /\ r.page = IF x = "requests" THEN "mgr_all_requests" ELSE "mgr_equipment"
      BY <1>1, <2>3 DEF routeToPath
    <3>2. <<x>> \in Seq(Words)
      BY <1>2 DEF Names
    <3>3. q \in Paths /\ q # Home /\ routeFromPath(q) = mgrRouteFromSegments(<<x>>, u)
      BY <2>1, <3>1, <3>2
    <3>4. \E v \in Tabs \cup {None} : routeFromPath(q) = Tab(r.page, v)
      BY <1>1, <3>1, <3>3, MgrSegmentsAreRead
    <3> QED
      BY <1>1, <2>3, <3>3, <3>4, RoutesAreWellFormed DEF NamesPage, ItemPages, MgrPages
  <2>4. CASE r.page = "mgr_request"
    <3>1. q = Path("manager", <<"requests", r.id>>, None) /\ r.id \in Ids
      BY <1>1, <2>4 DEF routeToPath, ItemPages
    <3>2. <<"requests", r.id>> \in Seq(Words)
      BY <1>2, <3>1 DEF Names
    <3>3. q \in Paths /\ q # Home /\ routeFromPath(q) = Item("mgr_request", r.id)
      BY <1>1, <2>1, <3>1, <3>2, MgrSegmentsAreRead
    <3> QED
      BY <2>4, <3>1, <3>3, RoutesAreWellFormed DEF NamesPage, ItemPages
  <2> QED
    BY <1>4, <2>2, <2>3, <2>4 DEF MgrPages
<1>5. CASE r.page \in LabPages
  <2>1. ASSUME NEW s \in Seq(Words), NEW u \in Tabs \cup {None},
               q \in {Path("lab", s, u), Path("manager", <<"lab">> \o s, u)}
        PROVE  q \in Paths /\ q # Home /\ routeFromPath(q) = labRouteFromSegments(s, u)
    BY <2>1, LabPathsAreRead
  <2>2. CASE r.page = "lab_dashboard"
    <3>1. <<"dashboard">> \in Seq(Words) /\ <<"lab", "dashboard">> = <<"lab">> \o <<"dashboard">>
      BY <1>2 DEF Names
    <3>2. q \in {Path("lab", <<"dashboard">>, None), Path("manager", <<"lab">> \o <<"dashboard">>, None)}
      BY <2>2, <3>1 DEF routeToPath
    <3>3. q \in Paths /\ q # Home /\ routeFromPath(q) = Page("lab_dashboard")
      BY <1>1, <2>1, <3>1, <3>2, LabSegmentsAreRead
    <3> QED
      BY <1>1, <2>2, <3>3, RoutesAreWellFormed DEF NamesPage, ItemPages, LabPages
  <2>3. CASE r.page \in ItemPages
    <3>1. PICK x \in {"samples", "wip", "dispatches"} :
            /\ q = labPath(<<x, r.id>>, r, role)
            /\ r.page = CASE x = "samples" -> "lab_wafer" [] x = "wip" -> "lab_wip_detail"
                          [] OTHER -> "lab_dispatch_detail"
      BY <1>5, <2>3 DEF routeToPath, LabPages, ItemPages
    <3>2. <<x, r.id>> \in Seq(Words) /\ r.id \in Ids
      BY <1>1, <1>2, <2>3 DEF Names
    <3>3. q \in Paths /\ q # Home /\ routeFromPath(q) = labRouteFromSegments(<<x, r.id>>, t)
      BY <1>1, <2>1, <3>1, <3>2 DEF labPath
    <3>4. routeFromPath(q) = Item(r.page, r.id)
      <4>1. /\ x = "samples" => r.page = "lab_wafer"
            /\ x = "wip" => r.page = "lab_wip_detail"
            /\ x = "dispatches" => r.page = "lab_dispatch_detail"
        BY <3>1
      <4>2. \A i \in Ids :
              /\ labRouteFromSegments(<<"samples", i>>, t) = Item("lab_wafer", i)
              /\ labRouteFromSegments(<<"wip", i>>, t) = Item("lab_wip_detail", i)
              /\ labRouteFromSegments(<<"dispatches", i>>, t) = Item("lab_dispatch_detail", i)
        BY <1>1, LabSegmentsAreRead
      <4>3. x = "samples" \/ x = "wip" \/ x = "dispatches"
        OBVIOUS
      <4>4. CASE x = "samples"
        BY <3>2, <3>3, <4>1, <4>2, <4>4
      <4>5. CASE x = "wip"
        BY <3>2, <3>3, <4>1, <4>2, <4>5
      <4>6. CASE x = "dispatches"
        BY <3>2, <3>3, <4>1, <4>2, <4>6
      <4> QED
        BY <4>3, <4>4, <4>5, <4>6
    <3> QED
      BY <2>3, <3>2, <3>3, <3>4, RoutesAreWellFormed DEF NamesPage
  <2>4. CASE r.page = "lab_sample_new"
    <3>1. q = labPath(<<"samples", "new">>, r, role)
      BY <2>4 DEF routeToPath
    <3>2. <<"samples", "new">> \in Seq(Words)
      BY <1>2 DEF Names
    <3>3. q \in Paths /\ q # Home /\ routeFromPath(q) = labRouteFromSegments(<<"samples", "new">>, t)
      BY <1>1, <2>1, <3>1, <3>2 DEF labPath
    <3>4. routeFromPath(q) = Page("lab_sample_new")
      BY <1>1, <3>3, LabSegmentsAreRead
    <3> QED
      BY <1>1, <2>4, <3>3, <3>4, RoutesAreWellFormed DEF NamesPage, ItemPages, LabPages
  <2>5. CASE r.page \in {"lab_samples", "lab_wip", "lab_dispatches", "lab_equipment",
                         "lab_notifications"}
    <3>1. PICK x \in {"samples", "wip", "dispatches", "equipment", "notifications"} :
            /\ q = labPath(<<x>>, r, role)
            /\ r.page = CASE x = "samples" -> "lab_samples" [] x = "wip" -> "lab_wip"
                          [] x = "dispatches" -> "lab_dispatches" [] x = "equipment" -> "lab_equipment"
                          [] OTHER -> "lab_notifications"
      BY <2>5 DEF routeToPath
    <3>2. <<x>> \in Seq(Words)
      BY <1>2 DEF Names
    <3>3. q \in Paths /\ q # Home /\ routeFromPath(q) = labRouteFromSegments(<<x>>, t)
      BY <1>1, <2>1, <3>1, <3>2 DEF labPath
    <3>4. routeFromPath(q) = Page(r.page) \/ \E v \in Tabs \cup {None} : routeFromPath(q) = Tab(r.page, v)
      BY <1>1, <3>1, <3>3, LabSegmentsAreRead
    <3> QED
      BY <1>1, <2>5, <3>3, <3>4, RoutesAreWellFormed DEF NamesPage, ItemPages, LabPages
  <2> QED
    BY <1>5, <2>2, <2>3, <2>4, <2>5 DEF LabPages, ItemPages
<1> QED
  BY <1>1, <1>3, <1>4, <1>5
\* The start pages, and what nobody's page is.
LEMMA StartPages ==
  /\ \A role \in Roles : Good(defaultRouteForRole(role), role)
  /\ \A r : WellFormed(r) => /\ r # None /\ r # Page("") /\ r # Page("__unset__")
                             /\ routeKey(r) = r
  /\ routeKey(None) = Page("") /\ Page("") # Page("__unset__")
  /\ Home \in Paths /\ Home # None /\ InitialOf(Home) = None
  /\ \A p \in Paths : p # None /\ (p # Home => InitialOf(p) = routeFromPath(p))
<1>1. ASSUME NEW role \in Roles PROVE Good(defaultRouteForRole(role), role)
  <2>1. CASE role = "fab_user"
    BY <2>1, RoutesAreWellFormed
    DEF Good, defaultRouteForRole, isRouteAllowedForRole, FabPages, ItemPages
  <2>2. CASE role = "lab_manager"
    BY <2>2, RoutesAreWellFormed
    DEF Good, defaultRouteForRole, isRouteAllowedForRole, MgrPages, ItemPages
  <2>3. CASE role = "lab_user"
    BY <2>3, RoutesAreWellFormed
    DEF Good, defaultRouteForRole, isRouteAllowedForRole, LabPages, ItemPages
  <2> QED
    BY <2>1, <2>2, <2>3 DEF Roles
<1>2. ASSUME NEW r, WellFormed(r)
      PROVE  r # None /\ r # Page("") /\ r # Page("__unset__") /\ routeKey(r) = r
  <2>1. r \in Routes /\ r # None
    BY <1>2, NullAssumption DEF WellFormed
  <2>2. r.page \in FabPages \cup MgrPages \cup LabPages
    BY <2>1 DEF Routes
  <2>3. r.page # "" /\ r.page # "__unset__"
    BY <2>2 DEF FabPages, MgrPages, LabPages
  <2>4. Page("").page = "" /\ Page("__unset__").page = "__unset__"
    BY DEF Page
  <2> QED
    BY <2>1, <2>3, <2>4 DEF routeKey
<1>3. routeKey(None) = Page("")
  BY DEF routeKey
<1>4. Page("") # Page("__unset__")
  BY DEF Page
<1>5. Home \in Paths
  BY DEF Home, Path, Paths
<1>6. \A p \in Paths : p # None /\ (p # Home => InitialOf(p) = routeFromPath(p))
  BY NullAssumption DEF InitialOf
<1>7. InitialOf(Home) = None
  BY DEF InitialOf
<1> QED
  BY <1>1, <1>2, <1>3, <1>4, <1>5, <1>6, <1>7

\* A role is only linked to pages that it may see.
LEMMA LinksAreGood ==
  ASSUME user \in Roles, NEW r \in Sidebar(user) \cup PageLinks(Shown)
  PROVE  Good(r, user)
<1> USE DEF Items
<1>1. CASE user = "fab_user"
  <2>1. ASSUME NEW p \in FabPages, NEW l \in PageLinks(p)
        PROVE  WellFormed(l) /\ l.page \in FabPages
    <3>1. l \in FabDashboardTiles \cup FabDashboardLists \cup FabListLinks \cup FabDraftLinks
                \cup FabFormLinks \cup {Page("fab_requests")}
      BY <2>1 DEF PageLinks, FabPages
    <3> QED
      BY <3>1, RoutesAreWellFormed
      DEF FabDashboardTiles, FabDashboardLists, FabListLinks, FabDraftLinks, FabFormLinks,
          FabPages, ItemPages, Tabs
  <2>2. \A l \in FabSidebar : WellFormed(l) /\ l.page \in FabPages
    BY RoutesAreWellFormed DEF FabSidebar, FabPages, ItemPages, Tabs
  <2>3. Shown \in FabPages /\ Sidebar(user) = FabSidebar
    BY <1>1 DEF Shown, Sidebar, FabPages
  <2> QED
    BY <1>1, <2>1, <2>2, <2>3 DEF Good, isRouteAllowedForRole
<1>2. ASSUME NEW p \in LabPages, NEW l \in PageLinks(p)
      PROVE  WellFormed(l) /\ l.page \in LabPages
  <2>1. l \in LabDashboardTiles \cup LabDashboardLists \cup SampleListLinks \cup WaferLinks
              \cup WipListLinks \cup WipDetailLinks \cup DispatchListLinks
              \cup DispatchDetailLinks \cup MachineCardLinks
    BY <1>2 DEF PageLinks, LabPages
  <2> QED
    BY <2>1, RoutesAreWellFormed
    DEF LabDashboardTiles, LabDashboardLists, SampleListLinks, WaferLinks, WipListLinks,
        WipDetailLinks, DispatchListLinks, DispatchDetailLinks, MachineCardLinks, LabPages,
        ItemPages, Tabs
<1>3. CASE user = "lab_user"
  <2>1. \A l \in LabSidebar : WellFormed(l) /\ l.page \in LabPages
    BY RoutesAreWellFormed DEF LabSidebar, LabPages, ItemPages
  <2>2. Shown \in LabPages /\ Sidebar(user) = LabSidebar
    BY <1>3 DEF Shown, Sidebar, LabPages
  <2> QED
    BY <1>2, <1>3, <2>1, <2>2 DEF Good, isRouteAllowedForRole
<1>4. CASE user = "lab_manager"
  <2>1. ASSUME NEW p \in MgrPages, NEW l \in PageLinks(p)
        PROVE  WellFormed(l) /\ l.page \in MgrPages \cup LabPages
    <3>1. l \in MgrDashboardLinks \cup RecentActivityLinks \cup MgrListLinks \cup MgrDetailLinks
      BY <2>1 DEF PageLinks, MgrPages
    <3> QED
      BY <3>1, RoutesAreWellFormed
      DEF MgrDashboardLinks, RecentActivityLinks, MgrListLinks, MgrDetailLinks, MgrPages, LabPages,
          ItemPages, Tabs
  <2>2. \A l \in MgrSidebar : WellFormed(l) /\ l.page \in MgrPages \cup LabPages
    BY RoutesAreWellFormed DEF MgrSidebar, MgrPages, LabPages, ItemPages
  <2>3. Shown \in MgrPages \cup LabPages /\ Sidebar(user) = MgrSidebar
    BY <1>4 DEF Shown, Sidebar, LabPages, MgrPages
  <2> QED
    BY <1>2, <1>4, <2>1, <2>2, <2>3 DEF Good, isRouteAllowedForRole
<1> QED
  BY <1>1, <1>3, <1>4 DEF Roles

\* The path of a notification is the path of a page of the role, and not of the list of
\* notifications it is opened from.
LEMMA NotificationsAreGood ==
  ASSUME NEW role \in Roles, NEW p \in NotificationPaths(role)
  PROVE  /\ p \in Paths /\ p # Home /\ Good(routeFromPath(p), role)
         /\ routeFromPath(p).page \notin {"fab_notifications", "lab_notifications",
                                          "mgr_notifications"}
<1>1. \E r : /\ Good(r, role) /\ p = routeToPath(r, role)
             /\ r.page \notin {"fab_notifications", "lab_notifications", "mgr_notifications"}
  <2>1. CASE role = "fab_user"
    <3>1. PICK i \in Ids : p = Path("fab", <<"requests", i>>, None)
      BY <2>1 DEF NotificationPaths
    <3>2. /\ WellFormed(Item("fab_request", i)) /\ Item("fab_request", i).page = "fab_request"
          /\ Item("fab_request", i).id = i
      BY RoutesAreWellFormed DEF ItemPages
    <3> QED
      BY <2>1, <3>1, <3>2 DEF Good, isRouteAllowedForRole, routeToPath, FabPages
  <2>2. ASSUME NEW x \in {"lab_wafer", "lab_dispatch_detail"}, NEW i \in Ids,
               role \in {"lab_user", "lab_manager"}
        PROVE  /\ Good(Item(x, i), role) /\ Item(x, i).page = x /\ Item(x, i).id = i
               /\ Item(x, i).tab = None
    BY <2>2, RoutesAreWellFormed DEF Good, isRouteAllowedForRole, LabPages, ItemPages, Item
  <2>3. ASSUME role \in {"lab_user", "lab_manager"}
        PROVE  Good(Page("lab_wip"), role) /\ Page("lab_wip").page = "lab_wip"
               /\ Page("lab_wip").tab = None
    BY <2>3, RoutesAreWellFormed DEF Good, isRouteAllowedForRole, LabPages, ItemPages, Page
  <2>4. CASE role = "lab_user"
    <3>1. PICK s : /\ p = Path("lab", s, None)
                   /\ \/ \E x \in {"samples", "dispatches"}, i \in Ids : s = <<x, i>>
                      \/ s = <<"wip">>
      BY <2>4 DEF NotificationPaths
    <3>2. \A r : labPath(s, r, role) = Path("lab", s, r.tab)
      BY <2>4 DEF labPath, rolePathForUserRole
    <3>3. CASE s = <<"wip">>
      BY <2>3, <2>4, <3>1, <3>2, <3>3 DEF routeToPath
    <3>4. ASSUME NEW i \in Ids, s = <<"samples", i>>
          PROVE  p = routeToPath(Item("lab_wafer", i), role)
      BY <2>2, <2>4, <3>1, <3>2, <3>4 DEF routeToPath
    <3>5. ASSUME NEW i \in Ids, s = <<"dispatches", i>>
          PROVE  p = routeToPath(Item("lab_dispatch_detail", i), role)
      BY <2>2, <2>4, <3>1, <3>2, <3>5 DEF routeToPath
    <3> QED
      BY <2>2, <2>4, <3>1, <3>3, <3>4, <3>5
  <2>5. CASE role = "lab_manager"
    <3>1. CASE \E i \in Ids : p = Path("manager", <<"requests", i>>, None)
      <4>1. PICK i \in Ids : p = Path("manager", <<"requests", i>>, None)
        BY <3>1
      <4>2. /\ WellFormed(Item("mgr_request", i)) /\ Item("mgr_request", i).page = "mgr_request"
            /\ Item("mgr_request", i).id = i
        BY RoutesAreWellFormed DEF ItemPages
      <4> QED
        BY <2>5, <4>1, <4>2 DEF Good, isRouteAllowedForRole, routeToPath, MgrPages
    <3>2. CASE ~ \E i \in Ids : p = Path("manager", <<"requests", i>>, None)
      <4>1. PICK s : /\ p = Path("manager", <<"lab">> \o s, None)
                     /\ \/ \E x \in {"samples", "dispatches"}, i \in Ids : s = <<x, i>>
                        \/ s = <<"wip">>
        <5>1. \A x, i : <<"lab", x, i>> = <<"lab">> \o <<x, i>>
          OBVIOUS
        <5>2. <<"lab", "wip">> = <<"lab">> \o <<"wip">>
          OBVIOUS
        <5>3. CASE p = Path("manager", <<"lab", "wip">>, None)
          BY <5>2, <5>3
        <5>4. ASSUME NEW x \in {"samples", "dispatches"}, NEW i \in Ids,
                     p = Path("manager", <<"lab", x, i>>, None)
              PROVE  p = Path("manager", <<"lab">> \o <<x, i>>, None)
          BY <5>1, <5>4
        <5>5. \/ p = Path("manager", <<"lab", "wip">>, None)
              \/ \E x \in {"samples", "dispatches"}, i \in Ids :
                    p = Path("manager", <<"lab", x, i>>, None)
          BY <2>5, <3>2 DEF NotificationPaths
        <5> QED
          BY <5>3, <5>4, <5>5
      <4>2. \A r : labPath(s, r, role) = Path("manager", <<"lab">> \o s, r.tab)
        BY <2>5 DEF labPath, rolePathForUserRole
      <4>3. CASE s = <<"wip">>
        BY <2>3, <2>5, <4>1, <4>2, <4>3 DEF routeToPath
      <4>4. ASSUME NEW i \in Ids, s = <<"samples", i>>
            PROVE  p = routeToPath(Item("lab_wafer", i), role)
        BY <2>2, <2>5, <4>1, <4>2, <4>4 DEF routeToPath
      <4>5. ASSUME NEW i \in Ids, s = <<"dispatches", i>>
            PROVE  p = routeToPath(Item("lab_dispatch_detail", i), role)
        BY <2>2, <2>5, <4>1, <4>2, <4>5 DEF routeToPath
      <4> QED
        BY <2>2, <2>5, <4>1, <4>3, <4>4, <4>5
    <3> QED
      BY <3>1, <3>2
  <2> QED
    BY <2>1, <2>4, <2>5 DEF Roles
<1>2. PICK r : /\ Good(r, role) /\ p = routeToPath(r, role)
               /\ r.page \notin {"fab_notifications", "lab_notifications", "mgr_notifications"}
  BY <1>1
<1>3. NamesPage(p, r)
  BY <1>2, PathsNameTheirPages DEF Good
<1> QED
  BY <1>2, <1>3 DEF NamesPage, Good, isRouteAllowedForRole

\* A link from outside leads to the login page or stands for a page.
LEMMA BookmarksAreRead ==
  ASSUME NEW p \in Bookmarks
  PROVE  p \in Paths /\ (p # Home => WellFormed(routeFromPath(p)))
<1>1. /\ \A x \in Names : <<x>> \in Seq(Words)
      /\ \A i \in Ids : <<"drafts", i, "edit">> \in Seq(Words)
  <2>1. \A x \in Names \cup Ids : x \in Words
    BY DEF Words
  <2>2. "drafts" \in Names /\ "edit" \in Names
    BY DEF Names
  <2> QED
    BY <2>1, <2>2, ShortSegments
<1>2. /\ "samples" \in Names /\ "equipment" \in Names /\ "nowhere" \in Names
      /\ "requests" \in Names /\ "dispatches" \in Names
      /\ {"alerts", "returned", "confirm", None} \subseteq Tabs \cup {None}
  BY DEF Names, Tabs
<1>3. CASE p = Home
  BY <1>3, StartPages
<1>4. CASE p = Path("lab", <<"samples">>, None)
  <2>1. p \in Paths /\ routeFromPath(p) = labRouteFromSegments(<<"samples">>, None)
    BY <1>1, <1>2, <1>4, LabPathsAreRead
  <2>2. labRouteFromSegments(<<"samples">>, None) = Tab("lab_samples", "all")
    BY LabSegmentsAreRead
  <2> QED
    BY <2>1, <2>2, RoutesAreWellFormed DEF LabPages, ItemPages, Tabs
<1>5. CASE p = Path("manager", <<"equipment">>, "alerts")
  <2>1. p \in Paths /\ routeFromPath(p) = mgrRouteFromSegments(<<"equipment">>, "alerts")
    BY <1>1, <1>2, <1>5, FabPathsAreRead
  <2>2. mgrRouteFromSegments(<<"equipment">>, "alerts") = Tab("mgr_equipment", "alerts")
    BY <1>2, MgrSegmentsAreRead
  <2> QED
    BY <2>1, <2>2, RoutesAreWellFormed DEF MgrPages, ItemPages, Tabs
<1>6. CASE p = Path("manager", <<"lab", "nowhere">>, None)
  <2>1. <<"lab", "nowhere">> = <<"lab">> \o <<"nowhere">>
    OBVIOUS
  <2>2. p \in Paths /\ routeFromPath(p) = labRouteFromSegments(<<"nowhere">>, None)
    BY <1>1, <1>2, <1>6, <2>1, LabPathsAreRead
  <2>3. labRouteFromSegments(<<"nowhere">>, None) = Page("lab_dashboard")
    BY LabSegmentsAreRead
  <2> QED
    BY <2>2, <2>3, RoutesAreWellFormed DEF LabPages, ItemPages
<1>7. CASE p = Path("fab", <<"requests">>, "returned")
  <2>1. p \in Paths /\ routeFromPath(p) = fabRouteFromSegments(<<"requests">>, "returned")
    BY <1>1, <1>2, <1>7, FabPathsAreRead
  <2>2. \E t \in Tabs \cup {None} : routeFromPath(p) = Tab("fab_requests", t)
    BY <1>2, <2>1, FabSegmentsAreRead DEF Tabs
  <2> QED
    BY <2>1, <2>2, RoutesAreWellFormed DEF FabPages, ItemPages
<1>8. CASE p = Path("lab", <<"dispatches">>, "confirm")
  <2>1. p \in Paths /\ routeFromPath(p) = labRouteFromSegments(<<"dispatches">>, "confirm")
    BY <1>1, <1>2, <1>8, LabPathsAreRead
  <2>2. \E t \in Tabs \cup {None} : routeFromPath(p) = Tab("lab_dispatches", t)
    BY <1>2, <2>1, LabSegmentsAreRead DEF Tabs
  <2> QED
    BY <2>1, <2>2, RoutesAreWellFormed DEF LabPages, ItemPages
<1>9. ASSUME NEW i \in Ids, p = Path("fab", <<"drafts", i, "edit">>, None)
      PROVE  p \in Paths /\ (p # Home => WellFormed(routeFromPath(p)))
  <2>1. p \in Paths /\ routeFromPath(p) = fabRouteFromSegments(<<"drafts", i, "edit">>, None)
    BY <1>1, <1>2, <1>9, FabPathsAreRead
  <2>2. fabRouteFromSegments(<<"drafts", i, "edit">>, None) = Item("fab_draft_edit", i)
    BY FabSegmentsAreRead
  <2> QED
    BY <2>1, <2>2, RoutesAreWellFormed DEF ItemPages
<1> QED
  BY <1>3, <1>4, <1>5, <1>6, <1>7, <1>8, <1>9 DEF Bookmarks

-----------------------------------------------------------------------------
(* The invariant                                                            *)

\* The page that the user asked for is page r, which the role may see.
Serves(r, role) ==
  asked # None => /\ isRouteAllowedForRole(r, role)
                  /\ r.page = asked.page /\ r.id = asked.id

AccountsInv ==
  /\ user \in Roles \cup {None} /\ session \in Roles \cup {None}
  /\ loading \in BOOLEAN /\ dirty \in BOOLEAN
  /\ user # None => session = user /\ ~loading

\* What the router has been given are paths, and they stand for pages.
AddressInv ==
  /\ url \in Paths /\ initial = InitialOf(url)
  /\ initial # None => WellFormed(initial)
  /\ pushed # None => pushed \in Paths /\ (pushed # Home => WellFormed(routeFromPath(pushed)))

\* A new app has compared no route yet, and the router has nothing for it; what the user asked
\* for before React made it anew is in the address.
LoadingInv ==
  loading => /\ pushed = None /\ synced = Page("__unset__")
             /\ asked # None => initial # None /\ Serves(initial, session)

\* Without a user there is nothing to ask for, and the way leads to the login page.
VisitorInv ==
  user = None /\ ~loading => /\ asked = None
                             /\ ~dirty /\ url # Home => pushed = Home

\* The effect will take the page from the address: what was asked for is there, or was not
\* asked after the login.
DueInv ==
  user # None /\ dirty /\ routeKey(initial) # synced =>
    \/ pushed = None /\ (asked # None => initial # None /\ Serves(initial, user))
    \/ asked = None /\ pushed \in {Home, routeToPath(Landing(user), user)}

\* The effect has nothing to do: the page is one of the role; the address is its path or will
\* become it, unless another click is still on its way, and that one will not go unnoticed.
SteadyInv ==
  user # None /\ (~dirty \/ routeKey(initial) = synced) =>
    /\ Good(route, user)
    /\ synced = route \/ route = defaultRouteForRole(user)
    /\ \/ /\ pushed = None /\ Serves(route, user)
          /\ url = routeToPath(route, user) \/ (asked = None /\ initial = route)
       \/ pushed = routeToPath(route, user) /\ Serves(route, user)
       \/ pushed = Home /\ asked = None
       \/ /\ pushed # None /\ pushed # Home
          /\ \/ routeFromPath(pushed) # synced /\ Serves(routeFromPath(pushed), user)
             \/ routeFromPath(pushed) = route /\ asked = None

RoutesInv == /\ AccountsInv /\ AddressInv /\ LoadingInv /\ VisitorInv /\ DueInv /\ SteadyInv
-----------------------------------------------------------------------------
(* The invariant holds                                                      *)

\* What a push makes of the address once the router has delivered it.
LEMMA PathsOfPages ==
  ASSUME NEW role \in Roles, NEW r, Good(r, role)
  PROVE  /\ routeToPath(r, role) \in Paths
         /\ routeToPath(r, role) # Home /\ routeToPath(r, role) # None
         /\ Good(routeFromPath(routeToPath(r, role)), role)
         /\ routeFromPath(routeToPath(r, role)).page = r.page
         /\ routeFromPath(routeToPath(r, role)).id = r.id
<1>1. NamesPage(routeToPath(r, role), r)
  BY PathsNameTheirPages DEF Good
<1> QED
  BY <1>1, StartPages DEF Good, NamesPage, isRouteAllowedForRole

\* The effect and the login land on a page of the role.
LEMMA LandingsAreGood ==
  ASSUME NEW role \in Roles, initial # None => WellFormed(initial)
  PROVE  /\ Good(Landing(role), role)
         /\ \/ routeKey(initial) = initial /\ Landing(role) = initial
            \/ Landing(role) = defaultRouteForRole(role)
         /\ initial # None /\ isRouteAllowedForRole(initial, role) => Landing(role) = initial
BY StartPages DEF Landing, Good

\* The app is mounted with the page of the address.
LEMMA RoutesInvInit == RoutesInit => RoutesInv
<1> SUFFICES ASSUME RoutesInit PROVE RoutesInv
  OBVIOUS
<1> USE DEF RoutesInit
<1>1. AccountsInv
  BY DEF AccountsInv
<1>2. AddressInv
  BY BookmarksAreRead DEF AddressInv, InitialOf
<1>3. LoadingInv /\ VisitorInv /\ DueInv /\ SteadyInv
  BY DEF LoadingInv, VisitorInv, DueInv, SteadyInv
<1> QED
  BY <1>1, <1>2, <1>3 DEF RoutesInv

\* A click sets the page and what the effect compares it with.
LEMMA NavigateKeepsInv ==
  ASSUME RoutesInv, NEW r, Navigate(r)
  PROVE  RoutesInv'
<1> USE DEF Navigate, Click
<1>1. user \in Roles /\ user # None /\ ~dirty /\ ~loading
  BY DEF RoutesInv, AccountsInv
<1>2. Good(r, user)
  BY <1>1, LinksAreGood
<1> DEFINE p == routeToPath(r, user)
<1>3. p \in Paths /\ p # Home /\ p # None /\ WellFormed(routeFromPath(p))
  BY <1>1, <1>2, PathsOfPages DEF Good
<1>4. pushed' = IF url # p THEN p ELSE pushed
  BY DEF Push
<1>5. asked' = IF pushed' \in {None, p} THEN r ELSE None
  OBVIOUS
<1> HIDE DEF p
<1>6. AccountsInv'
  BY DEF RoutesInv, AccountsInv
<1>7. AddressInv'
  BY <1>3, <1>4 DEF RoutesInv, AddressInv
<1>8. LoadingInv' /\ VisitorInv' /\ DueInv'
  BY <1>1 DEF LoadingInv, VisitorInv, DueInv
<1>9. SteadyInv'
  <2>1. Good(r, user) /\ synced' = r /\ route' = r /\ user' = user
    BY <1>2
  <2>2. Serves(route, user)' <=> (asked' # None => isRouteAllowedForRole(r, user)
                                    /\ r.page = asked'.page /\ r.id = asked'.id)
    BY DEF Serves
  <2>3. Serves(route, user)'
    BY <1>2, <1>5, <2>2 DEF Good
  <2>4. CASE pushed' = p
    BY <2>1, <2>3, <2>4 DEF SteadyInv, p
  <2>5. CASE pushed' # p /\ pushed' = None
    <3>1. url' = p
      BY <1>4, <2>5
    <3> QED
      BY <2>1, <2>3, <2>5, <3>1 DEF SteadyInv, p
  <2>6. CASE pushed' # p /\ pushed' # None
    <3>1. asked' = None
      BY <1>5, <2>6
    <3> QED
      BY <2>1, <2>6, <3>1 DEF SteadyInv, Serves
  <2> QED
    BY <2>4, <2>5, <2>6
<1> QED
  BY <1>6, <1>7, <1>8, <1>9 DEF RoutesInv

\* A notification's path is not the list it was opened from, so its delivery is news.
LEMMA OpenNotificationKeepsInv ==
  ASSUME RoutesInv, NEW p, OpenNotification(p)
  PROVE  RoutesInv'
<1> USE DEF OpenNotification, Click
<1>1. user \in Roles /\ user # None /\ ~dirty /\ ~loading
  BY DEF RoutesInv, AccountsInv
<1> DEFINE lists == {"fab_notifications", "lab_notifications", "mgr_notifications"}
<1>2. p \in Paths /\ p # Home /\ p # None /\ Good(routeFromPath(p), user)
      /\ routeFromPath(p).page \notin lists
  BY <1>1, NotificationsAreGood, StartPages
<1>3. Good(route, user) /\ (synced = route \/ route = defaultRouteForRole(user))
  BY <1>1 DEF RoutesInv, SteadyInv
<1>4. route.page \in lists
  BY <1>1 DEF Shown, Roles
<1>5. defaultRouteForRole(user).page \notin lists
  BY <1>1 DEF defaultRouteForRole, Page, Roles
<1>6. synced = route /\ routeFromPath(p) # synced
  BY <1>2, <1>3, <1>4, <1>5
<1>7. AccountsInv' /\ LoadingInv' /\ VisitorInv' /\ DueInv'
  BY <1>1 DEF RoutesInv, AccountsInv, LoadingInv, VisitorInv, DueInv
<1>8. AddressInv'
  BY <1>2 DEF RoutesInv, AddressInv, Good
<1>9. SteadyInv'
  <2>1. pushed' # None /\ pushed' # Home /\ routeFromPath(pushed') # synced'
    BY <1>2, <1>6
  <2>2. Serves(routeFromPath(pushed), user)'
    BY <1>2 DEF Serves, Good
  <2> QED
    BY <1>3, <2>1, <2>2 DEF SteadyInv
<1> QED
  BY <1>7, <1>8, <1>9 DEF RoutesInv

\* A login finds the way to the login page pushed, and the address still that of a page.
LEMMA OnLoginKeepsInv ==
  ASSUME RoutesInv, NEW role \in Roles, OnLogin(role)
  PROVE  RoutesInv'
<1> USE DEF OnLogin, Click
<1>1. user = None /\ ~dirty /\ ~loading /\ role # None
  BY NullAssumption
<1> DEFINE land == Landing(role)
           p == routeToPath(land, role)
<1>2. /\ Good(land, role)
      /\ (routeKey(initial) = initial /\ land = initial) \/ land = defaultRouteForRole(role)
  BY LandingsAreGood DEF RoutesInv, AddressInv
<1>3. p \in Paths /\ p # Home /\ p # None /\ WellFormed(routeFromPath(p))
  BY <1>2, PathsOfPages DEF Good
<1>4. pushed' \in {Home, p}
  BY <1>1, <1>3 DEF Push, RoutesInv, VisitorInv
<1>5. Landing(user)' = land
  BY DEF Landing
<1>6. Home \in Paths /\ Home # None
  BY StartPages
<1> HIDE DEF land, p
<1>7. AccountsInv' /\ LoadingInv' /\ VisitorInv'
  BY <1>1 DEF RoutesInv, AccountsInv, LoadingInv, VisitorInv
<1>8. AddressInv'
  BY <1>3, <1>4, <1>6 DEF RoutesInv, AddressInv
<1>9. routeToPath(Landing(user), user)' = p
  BY <1>5 DEF p
<1>10. DueInv'
  BY <1>4, <1>9 DEF DueInv
<1>11. SteadyInv'
  <2>1. SUFFICES ASSUME routeKey(initial) = synced PROVE SteadyInv'
    BY DEF SteadyInv
  <2>2. route' = land /\ asked' = None /\ user' = role /\ synced' = synced /\ initial' = initial
    BY DEF land
  <2>3. synced' = route' \/ route' = defaultRouteForRole(role)
    BY <1>2, <2>1, <2>2
  <2> QED
    BY <1>2, <1>4, <2>2, <2>3 DEF SteadyInv, Serves, p
<1> QED
  BY <1>7, <1>8, <1>10, <1>11 DEF RoutesInv

\* A logout leaves nothing to ask for.
LEMMA OnLogoutKeepsInv ==
  ASSUME RoutesInv, OnLogout
  PROVE  RoutesInv'
<1> USE DEF OnLogout, Click
<1>1. Home \in Paths /\ Home # None
  BY StartPages
<1>2. AddressInv'
  BY <1>1 DEF RoutesInv, AddressInv, Push
<1>3. AccountsInv' /\ LoadingInv' /\ VisitorInv' /\ DueInv' /\ SteadyInv'
  BY DEF RoutesInv, AccountsInv, LoadingInv, VisitorInv, DueInv, SteadyInv
<1> QED
  BY <1>2, <1>3 DEF RoutesInv

\* A bookmark loads the app from nothing.
LEMMA GoToKeepsInv ==
  ASSUME RoutesInv, NEW p \in Bookmarks, GoTo(p)
  PROVE  RoutesInv'
<1> USE DEF GoTo, Remounted
<1>1. p \in Paths /\ (p # Home => WellFormed(routeFromPath(p)))
  BY BookmarksAreRead
<1>2. AddressInv'
  BY <1>1 DEF AddressInv, InitialOf
<1>3. AccountsInv' /\ LoadingInv' /\ VisitorInv' /\ DueInv' /\ SteadyInv'
  BY DEF RoutesInv, AccountsInv, LoadingInv, VisitorInv, DueInv, SteadyInv
<1> QED
  BY <1>2, <1>3 DEF RoutesInv

\* What is delivered is the page shown or one that differs from what the effect has seen.
LEMMA DeliverKeepsInv ==
  ASSUME RoutesInv, Deliver
  PROVE  RoutesInv'
<1> USE DEF Deliver
<1>1. /\ pushed # None /\ ~dirty /\ pushed \in Paths /\ ~loading
      /\ pushed # Home => WellFormed(routeFromPath(pushed)) /\ routeFromPath(pushed) # None
                          /\ initial' = routeFromPath(pushed)
      /\ pushed = Home => initial' = None
  BY StartPages DEF RoutesInv, AddressInv, LoadingInv, InitialOf
<1>2. AddressInv'
  BY <1>1 DEF AddressInv
<1>3. user = None => asked = None
  BY <1>1 DEF RoutesInv, VisitorInv
\* What is delivered is what was asked for.
<1>4. ASSUME asked # None
      PROVE  user \in Roles /\ session = user /\ initial' # None /\ Serves(initial', user)
  <2>1. user \in Roles /\ user # None /\ session = user
    BY <1>3, <1>4 DEF RoutesInv, AccountsInv
  <2>2. Good(route, user)
    BY <1>1, <2>1 DEF RoutesInv, SteadyInv
  <2>3. \/ pushed = routeToPath(route, user) /\ Serves(route, user)
        \/ pushed # Home /\ Serves(routeFromPath(pushed), user)
    BY <1>1, <1>4, <2>1 DEF RoutesInv, SteadyInv
  <2>4. CASE pushed = routeToPath(route, user) /\ Serves(route, user)
    <3>1. /\ pushed # Home /\ Good(routeFromPath(pushed), user)
          /\ routeFromPath(pushed).page = route.page /\ routeFromPath(pushed).id = route.id
      BY <2>1, <2>2, <2>4, PathsOfPages
    <3> QED
      BY <1>1, <2>1, <2>4, <3>1 DEF Serves, Good
  <2>5. CASE pushed # Home /\ Serves(routeFromPath(pushed), user)
    BY <1>1, <2>1, <2>5
  <2> QED
    BY <2>3, <2>4, <2>5
<1>5. CASE Remounted
  <2>1. asked' # None => initial' # None /\ Serves(initial, session)'
    BY <1>4 DEF Serves
  <2>2. LoadingInv'
    BY <1>5, <2>1 DEF LoadingInv, Remounted
  <2>3. AccountsInv' /\ VisitorInv' /\ DueInv' /\ SteadyInv'
    BY <1>5 DEF RoutesInv, AccountsInv, VisitorInv, DueInv, SteadyInv, Remounted
  <2> QED
    BY <1>2, <2>2, <2>3 DEF RoutesInv
<1>6. CASE pushed # Home /\ UNCHANGED <<user, loading, route, synced>>
  <2>1. AccountsInv' /\ LoadingInv' /\ VisitorInv'
    BY <1>1, <1>3, <1>6 DEF RoutesInv, AccountsInv, LoadingInv, VisitorInv
  <2>2. DueInv'
    <3>1. asked' # None => initial' # None /\ Serves(initial, user)'
      BY <1>4, <1>6 DEF Serves
    <3> QED
      BY <3>1 DEF DueInv
  <2>3. SteadyInv'
    <3>1. SUFFICES ASSUME user # None, routeKey(initial') = synced
                   PROVE  SteadyInv'
      BY <1>6 DEF SteadyInv
    <3>2. routeKey(initial') = routeFromPath(pushed)
      BY <1>1, <1>6, StartPages
    <3>3. /\ Good(route, user) /\ (synced = route \/ route = defaultRouteForRole(user))
          /\ \/ pushed = routeToPath(route, user) /\ Serves(route, user)
             \/ routeFromPath(pushed) = route /\ asked = None
      BY <1>1, <1>6, <3>1, <3>2 DEF RoutesInv, SteadyInv
    <3>4. /\ pushed' = None /\ url' = pushed /\ initial' = routeFromPath(pushed)
          /\ route' = route /\ user' = user /\ synced' = synced /\ asked' = asked
      BY <1>1, <1>6
    <3>5. Serves(route, user)' <=> Serves(route, user)
      BY <3>4 DEF Serves
    <3>6. Serves(route, user)
      BY <3>3 DEF Serves
    <3> QED
      BY <3>3, <3>4, <3>5, <3>6 DEF SteadyInv
  <2> QED
    BY <1>2, <2>1, <2>2, <2>3 DEF RoutesInv
<1> QED
  BY <1>5, <1>6

\* The answer finds the app new, and what was asked for in the address.
LEMMA SessionCheckedKeepsInv ==
  ASSUME RoutesInv, NEW ok \in BOOLEAN, SessionChecked(ok)
  PROVE  RoutesInv'
<1> USE DEF SessionChecked
<1>1. loading /\ ~dirty /\ pushed = None /\ synced = Page("__unset__")
      /\ (asked # None => initial # None /\ Serves(initial, session))
  BY DEF RoutesInv, LoadingInv
<1>2. user' \in Roles \cup {None} /\ session' = user' /\ (user' # None => user' = session)
  BY DEF RoutesInv, AccountsInv
<1>3. AccountsInv' /\ AddressInv' /\ LoadingInv' /\ VisitorInv'
  BY <1>1, <1>2 DEF RoutesInv, AccountsInv, AddressInv, LoadingInv, VisitorInv
<1>4. routeKey(initial') # synced'
  BY <1>1, StartPages DEF RoutesInv, AddressInv
<1>5. SteadyInv'
  BY <1>4 DEF SteadyInv
<1>6. DueInv'
  <2>1. user' # None => asked' = asked /\ user' = session
    BY <1>2
  <2>2. user' # None => (asked' # None => initial' # None /\ Serves(initial, user)')
    BY <1>1, <2>1 DEF Serves
  <2> QED
    BY <1>1, <2>2 DEF DueInv
<1> QED
  BY <1>3, <1>5, <1>6 DEF RoutesInv

\* The effect takes the page from the address if that is news.
LEMMA SyncEffectKeepsInv ==
  ASSUME RoutesInv, SyncEffect
  PROVE  RoutesInv'
<1> USE DEF SyncEffect
<1>1. Home \in Paths /\ Home # None
  BY StartPages
<1>2. dirty /\ dirty' = FALSE /\ UNCHANGED <<session, user, loading, initial, url, asked, clicks>>
  OBVIOUS
<1>3. AccountsInv'
  BY DEF RoutesInv, AccountsInv
<1>4. DueInv'
  BY DEF DueInv
<1>5. CASE user = None
  <2>1. /\ route' = route /\ synced' = synced
        /\ pushed' = IF loading \/ url = Home THEN pushed ELSE Home
    BY <1>5 DEF Push
  <2>2. AddressInv'
    BY <1>1, <2>1 DEF RoutesInv, AddressInv
  <2>3. LoadingInv'
    BY <1>2, <2>1 DEF RoutesInv, LoadingInv, Serves
  <2>4. VisitorInv' /\ SteadyInv'
    BY <1>2, <1>5, <2>1 DEF RoutesInv, VisitorInv, SteadyInv
  <2> QED
    BY <1>3, <1>4, <2>2, <2>3, <2>4 DEF RoutesInv
<1>6. CASE user # None /\ routeKey(initial) = synced
  <2>1. UNCHANGED <<route, synced, pushed>>
    BY <1>6
  <2>2. SteadyInv'
    BY <1>2, <1>6, <2>1 DEF RoutesInv, SteadyInv, Serves
  <2>3. AddressInv' /\ LoadingInv' /\ VisitorInv'
    BY <1>2, <1>6, <2>1 DEF RoutesInv, AccountsInv, AddressInv, LoadingInv, VisitorInv
  <2> QED
    BY <1>3, <1>4, <2>2, <2>3 DEF RoutesInv
<1>7. CASE user # None /\ routeKey(initial) # synced
  <2> DEFINE land == Landing(user)
             p == routeToPath(land, user)
  <2>1. user \in Roles /\ ~loading
    BY <1>7 DEF RoutesInv, AccountsInv
  <2>2. /\ Good(land, user)
        /\ (routeKey(initial) = initial /\ land = initial) \/ land = defaultRouteForRole(user)
        /\ initial # None /\ isRouteAllowedForRole(initial, user) => land = initial
    BY <2>1, LandingsAreGood DEF RoutesInv, AddressInv
  <2>3. p \in Paths /\ p # Home /\ p # None /\ WellFormed(routeFromPath(p))
    BY <2>1, <2>2, PathsOfPages DEF Good
  <2>4. /\ synced' = routeKey(initial) /\ route' = land
        /\ pushed' = IF url # p THEN p ELSE pushed
    BY <1>7 DEF Push
  <2>5. \/ pushed = None /\ (asked # None => initial # None /\ Serves(initial, user))
        \/ asked = None /\ pushed \in {Home, p}
    BY <1>2, <1>7 DEF RoutesInv, DueInv
  <2> HIDE DEF land, p
  <2>6. Serves(land, user)
    BY <2>2, <2>5 DEF Serves
  <2>7. SteadyInv'
    <3>1. Good(route', user') /\ (synced' = route' \/ route' = defaultRouteForRole(user'))
      BY <1>2, <2>2, <2>4
    <3>2. Serves(route, user)'
      BY <1>2, <2>4, <2>6 DEF Serves
    <3>3. routeToPath(route', user') = p /\ url' = url /\ asked' = asked
      BY <1>2, <2>4 DEF p
    <3>4. \/ pushed' = p
          \/ pushed' = None /\ url = p
          \/ pushed' = Home /\ asked = None
      BY <2>4, <2>5
    <3> QED
      BY <3>1, <3>2, <3>3, <3>4 DEF SteadyInv
  <2>8. AddressInv'
    BY <1>2, <2>3, <2>4 DEF RoutesInv, AddressInv
  <2>9. LoadingInv' /\ VisitorInv'
    BY <1>2, <1>7, <2>1 DEF LoadingInv, VisitorInv
  <2> QED
    BY <1>3, <1>4, <2>7, <2>8, <2>9 DEF RoutesInv
<1> QED
  BY <1>5, <1>6, <1>7

\* Every step keeps the invariant.
LEMMA RoutesInvNext == RoutesInv /\ [RoutesNext]_routesVars => RoutesInv'
<1> SUFFICES ASSUME RoutesInv, [RoutesNext]_routesVars PROVE RoutesInv'
  OBVIOUS
<1>1. CASE RoutesNext
  BY <1>1, NavigateKeepsInv, OpenNotificationKeepsInv, OnLoginKeepsInv, OnLogoutKeepsInv,
     GoToKeepsInv, DeliverKeepsInv, SessionCheckedKeepsInv, SyncEffectKeepsInv
  DEF RoutesNext, AppStep
<1>2. CASE UNCHANGED routesVars
  BY <1>2 DEF routesVars, RoutesInv, AccountsInv, AddressInv, LoadingInv, VisitorInv, DueInv,
              SteadyInv, Serves, Landing
<1> QED
  BY <1>1, <1>2

\* Once nothing is on its way, the page is one of the role's and the one asked for last, and the
\* address stands for it, whatever was clicked, typed and delivered, in whatever order and however
\* often, and wherever React made the app anew (navigate, the effect of ReferenceAppContent).
THEOREM SettledPagesAreAsked == RoutesSpec => []SettledPageIsAsked
<1>1. RoutesSpec => []RoutesInv
  BY RoutesInvInit, RoutesInvNext, PTL DEF RoutesSpec
<1>2. RoutesInv => SettledPageIsAsked
  <2> SUFFICES ASSUME RoutesInv, Settled, user # None
               PROVE  /\ isRouteAllowedForRole(route, user)
                      /\ url = routeToPath(route, user) \/ (asked = None /\ initial = route)
                      /\ asked # None => route.page = asked.page /\ route.id = asked.id
    BY DEF SettledPageIsAsked
  <2>1. user \in Roles /\ pushed = None /\ ~dirty
    BY DEF RoutesInv, AccountsInv, Settled
  <2>2. Good(route, user)
    BY <2>1 DEF RoutesInv, SteadyInv
  <2>3. routeToPath(route, user) # None /\ Home # None
    BY <2>1, <2>2, PathsOfPages, StartPages
  <2> QED
    BY <2>1, <2>2, <2>3 DEF RoutesInv, SteadyInv, Good, Serves
<1> QED
  BY <1>1, <1>2, PTL
=============================================================================
