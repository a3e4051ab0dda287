------------------------------- MODULE Shell -------------------------------
(***************************************************************************)
(* The frame around the pages of the web interface: the side bar and the   *)
(* window's width, the once-a-session reminder of the "All clusters" link, *)
(* the menu of every cluster with its remembered fold, the redirections to *)
(* a section the cluster offers and, without clusters, to the form that    *)
(* adds one.                                                               *)
(*                                                                         *)
(* What a render hands to the effects is the record Rendered; Commit runs  *)
(* the effects whose dependencies changed since the last commit, in the    *)
(* order of their hooks, and what they set is rendered next.  An event is  *)
(* handled once the effects of the one before are through.                 *)
(***************************************************************************)
EXTENDS Naturals

CONSTANTS ClusterNames,  \* clusters the configuration may list
          Optional,      \* sections a cluster offers only with its feature
          MaxLists,      \* bound: answers to the list of clusters
          MaxFolds       \* bound: times a menu is folded or unfolded

VARIABLES at,          \* the address: a Place
          moved,       \* the location key changed since the last commit
          isLarge, isSidebarVisible,
          phase,       \* of the reminder
          wasCluster,  \* previousIsClusterRoute
          reminded,    \* hasRemindedThisSession
          clusters,    \* the cached list: its status, and of every listed
                       \* cluster the Optional sections it offers
          dynamic,     \* hasDynamicConfig
          committed,   \* the Rendered of the last commit
          folds,       \* localStorage: clusterMenu-<name>-isOpen, "unset" before
          isOpen,      \* the value the mounted menu of a cluster holds
          events,      \* menus with a storage event of another tab under way
          listed, folded,  \* counters of the bounds
          seen,        \* ghost: times the reminder appeared
          asked,       \* ghost: the address the user asked for
          invited      \* ghost: the form was opened since the list is empty

placeVars == <<at, moved, asked>>
screenVars == <<isLarge, isSidebarVisible>>
reminderVars == <<phase, wasCluster, reminded, seen>>
listVars == <<clusters, dynamic, listed, invited>>
menuVars == <<folds, isOpen, events, folded>>
shellVars ==
    <<placeVars, screenVars, reminderVars, listVars, menuVars, committed>>

---------------------------------------------------------------------------
\* Addresses: "brokers" stands for the sections every cluster has.
Sections == {"brokers", "config"} \cup Optional
Home == [page |-> "home"]
NewConfig == [page |-> "new"]
InCluster(c, section) == [page |-> "cluster", name |-> c, section |-> section]
Places == {Home, NewConfig} \cup
          {InCluster(c, s) : c \in ClusterNames, s \in Sections}
getIsClusterRoute == at.page = "cluster"

Lists == UNION {[S -> SUBSET Optional] : S \in SUBSET ClusterNames}
ClusterList(is, data) == [is |-> is, data |-> data]
isFetched == clusters.is # "loading"
Empty == clusters.is = "success" /\ DOMAIN clusters.data = {}

\* The section routes of the current cluster; one that is not listed has no
\* features.
Routes ==
    {"brokers"} \cup {s \in {"config"} : dynamic}
    \cup {s \in Optional : /\ at.name \in DOMAIN clusters.data
                           /\ s \in clusters.data[at.name]}
BugNavigatesToBrokers == getIsClusterRoute /\ at.section \notin Routes
\* The catch-all route.
NavigatesToBrokers ==
    isFetched /\ getIsClusterRoute /\ at.section \notin Routes

---------------------------------------------------------------------------
\* The reminder
getEntryPhase ==
    IF ~getIsClusterRoute THEN "idle"
    ELSE IF reminded THEN "shown"
    ELSE IF ~isSidebarVisible THEN "pending"
    ELSE IF isLarge THEN "visible" ELSE "awaiting-sidebar-close"

\* First effect: on leaving and on entering the pages of a cluster.
Entered == IF getIsClusterRoute /\ wasCluster THEN phase ELSE getEntryPhase

BugFollowed(p) ==
    IF getIsClusterRoute /\ p = "visible" /\ ~isSidebarVisible
    THEN "shown" ELSE p
\* Second effect: what the side bar and the width make of the phase.
Followed(p) ==
    CASE getIsClusterRoute /\ p = "awaiting-sidebar-close" ->
             IF ~isSidebarVisible THEN "pending"
             ELSE IF isLarge THEN "visible" ELSE p
      [] getIsClusterRoute /\ p = "visible" /\ ~isSidebarVisible -> "shown"
      [] getIsClusterRoute /\ p = "pending" /\ isSidebarVisible -> "visible"
      [] OTHER -> p

isAllClustersReminderVisible ==
    getIsClusterRoute /\ isSidebarVisible /\ phase = "visible"

---------------------------------------------------------------------------
\* What the effects depend on, in this render.
Rendered == [mounted |-> TRUE, route |-> getIsClusterRoute, large |-> isLarge,
             sidebar |-> isSidebarVisible, phase |-> phase,
             clusters |-> clusters, dynamic |-> dynamic,
             reminder |-> isAllClustersReminderVisible]
Changed(deps) ==
    ~committed.mounted \/ \E d \in deps : Rendered[d] # committed[d]
Rested == Rendered = committed /\ ~moved /\ ~NavigatesToBrokers

BugAsksForCluster == Changed({"clusters"}) /\ dynamic /\ Empty
\* The redirection of an application without clusters.
AsksForCluster == Changed({"clusters", "dynamic"}) /\ dynamic /\ Empty

\* useBoolean follows the width, then the side bar of a small window closes
\* at every move.
SidebarAfter ==
    /\ (Changed({"large"}) => isLarge)
    /\ (moved => isLarge)
    /\ (~Changed({"large"}) => isSidebarVisible)

\* One commit: the side bar, the three effects of the reminder, and the
\* redirections, the frame's after the page's.
Commit ==
    /\ ~Rested
    /\ committed' = Rendered
    /\ isSidebarVisible' = SidebarAfter
    /\ IF Changed({"route", "sidebar", "large"})
       THEN phase' = Followed(Entered) /\ wasCluster' = getIsClusterRoute
       ELSE UNCHANGED <<phase, wasCluster>>
    /\ reminded' = (reminded \/ (Changed({"phase"}) /\ phase = "visible"))
    /\ seen' = IF isAllClustersReminderVisible /\ Changed({"reminder"})
               THEN seen + 1 ELSE seen
    /\ at' = IF AsksForCluster THEN NewConfig
             ELSE IF NavigatesToBrokers THEN InCluster(at.name, "brokers")
             ELSE at
    /\ moved' = (AsksForCluster \/ NavigatesToBrokers)
    /\ invited' = (invited \/ AsksForCluster)
    /\ UNCHANGED <<asked, isLarge, clusters, dynamic, listed, menuVars>>

ShellInit ==
    /\ at \in Places /\ asked = at /\ moved = TRUE
    /\ isLarge \in BOOLEAN /\ isSidebarVisible = isLarge
    /\ reminded = FALSE /\ phase = getEntryPhase
    /\ wasCluster = getIsClusterRoute
    /\ clusters = ClusterList("loading", <<>>) /\ dynamic \in BOOLEAN
    /\ committed = [Rendered EXCEPT !.mounted = FALSE]
    /\ folds \in [ClusterNames -> {"unset", "open", "folded"}] /\ isOpen = <<>>
    /\ events = {} /\ listed = 0 /\ folded = 0 /\ seen = 0 /\ invited = FALSE

---------------------------------------------------------------------------
\* The window and the side bar
onBurgerClick ==
    /\ Rested
    /\ isSidebarVisible' = ~isSidebarVisible
    /\ UNCHANGED <<isLarge, placeVars, reminderVars, listVars, menuVars,
                   committed>>

checkScreenSize ==
    /\ Rested
    /\ isLarge' = ~isLarge
    /\ UNCHANGED <<isSidebarVisible, placeVars, reminderVars, listVars,
                   menuVars, committed>>

\* The two timers of the reminder.
dismissAllClustersReminder ==
    /\ Rested
    /\ isAllClustersReminderVisible
    /\ phase' = "shown"
    /\ UNCHANGED <<wasCluster, reminded, seen, placeVars, screenVars,
                   listVars, menuVars, committed>>

\* The features the server names reach the context before the frame mounts,
\* or with a later answer if the first could not be read.
GlobalSettingsProvider ==
    /\ Rested
    /\ ~dynamic /\ dynamic' = TRUE
    /\ UNCHANGED <<clusters, listed, invited, placeVars, screenVars,
                   reminderVars, menuVars, committed>>

---------------------------------------------------------------------------
\* The list of clusters

\* A menu mounts with what the browser remembers; without it, open for the
\* only cluster and for the current one.
initiallyOpen(c, names) ==
    IF folds[c] # "unset" THEN folds[c] = "open"
    ELSE names = {c} \/ (getIsClusterRoute /\ at.name = c)

useClusters(list) ==
    /\ Rested
    /\ listed < MaxLists /\ listed' = listed + 1
    /\ clusters' = ClusterList("success", list) /\ clusters' # clusters
    /\ invited' = FALSE
    /\ isOpen' = [c \in DOMAIN list |-> IF c \in DOMAIN isOpen THEN isOpen[c]
                                       ELSE initiallyOpen(c, DOMAIN list)]
    /\ UNCHANGED <<dynamic, folds, events, folded, placeVars, screenVars,
                   reminderVars, committed>>

ClustersFail ==
    /\ Rested
    /\ clusters.is = "loading" /\ clusters' = ClusterList("failed", <<>>)
    /\ UNCHANGED <<dynamic, listed, invited, placeVars, screenVars,
                   reminderVars, menuVars, committed>>

---------------------------------------------------------------------------
\* Moves; going to the current address is a move too.
NavigateTo(place) ==
    /\ Rested
    /\ at' = place /\ asked' = place /\ moved' = TRUE
    /\ UNCHANGED <<screenVars, reminderVars, listVars, events, committed>>
Link(place) == NavigateTo(place) /\ UNCHANGED <<folds, isOpen, folded>>

\* The brand's link, the dashboard's rows and button, the items of an open
\* menu, and a step through the history.
BrandLink == Link(Home)
onRowClick(c) ==
    at = Home /\ c \in DOMAIN clusters.data /\ Link(InCluster(c, "brokers"))
ConfigureNewCluster == at = Home /\ dynamic /\ Link(NewConfig)
MenuItem(c, s) ==
    /\ isSidebarVisible /\ c \in DOMAIN isOpen /\ isOpen[c]
    /\ s \in {"brokers"} \cup clusters.data[c]
    /\ Link(InCluster(c, s))
History(place) == Link(place)

\* setStorageValue and the subscribers of the key.
Write(C, open) ==
    /\ folds' = [c \in ClusterNames |->
                    IF c \in C THEN IF open THEN "open" ELSE "folded"
                    ELSE folds[c]]
    /\ isOpen' = [c \in DOMAIN isOpen |->
                    IF c \in C THEN open ELSE isOpen[c]]

BugCollapseAllClusterMenus ==
    /\ folds' = [c \in ClusterNames |->
                    IF c \in DOMAIN isOpen THEN "folded" ELSE folds[c]]
    /\ UNCHANGED isOpen
collapseAllClusterMenus == Write(DOMAIN isOpen, FALSE)
AllClusters ==
    /\ isSidebarVisible
    /\ collapseAllClusterMenus
    /\ NavigateTo(Home)
    /\ UNCHANGED folded

handleClusterNameClick(c) ==
    /\ isSidebarVisible /\ c \in DOMAIN isOpen
    /\ IF isOpen[c] THEN UNCHANGED <<folds, isOpen, folded>>
       ELSE /\ folded < MaxFolds /\ folded' = folded + 1
            /\ Write({c}, TRUE)
    /\ NavigateTo(InCluster(c, "brokers"))

handleToggleMenu(c) ==
    /\ Rested
    /\ isSidebarVisible /\ c \in DOMAIN isOpen
    /\ folded < MaxFolds /\ folded' = folded + 1
    /\ Write({c}, ~isOpen[c])
    /\ UNCHANGED <<placeVars, screenVars, reminderVars, listVars, events,
                   committed>>

\* The same menu in another tab of the browser, and its storage event here.
OtherTab(c, fold) ==
    /\ Rested
    /\ folded < MaxFolds /\ folded' = folded + 1
    /\ folds[c] # fold /\ folds' = [folds EXCEPT ![c] = fold]
    /\ events' = events \cup {c}
    /\ UNCHANGED <<isOpen, placeVars, screenVars, reminderVars, listVars,
                   committed>>
handleStorageEvent(c) ==
    /\ Rested
    /\ c \in events /\ events' = events \ {c}
    /\ isOpen' = [d \in DOMAIN isOpen |->
                    IF d = c THEN folds[c] = "open" ELSE isOpen[d]]
    /\ UNCHANGED <<folds, folded, placeVars, screenVars, reminderVars,
                   listVars, committed>>

ShellNext ==
    \/ Commit
    \/ onBurgerClick \/ checkScreenSize \/ dismissAllClustersReminder
    \/ GlobalSettingsProvider \/ ClustersFail
    \/ \E list \in Lists : useClusters(list)
    \/ BrandLink \/ AllClusters \/ ConfigureNewCluster
    \/ \E place \in Places : History(place)
    \/ \E c \in ClusterNames :
        \/ onRowClick(c) \/ handleClusterNameClick(c)
        \/ handleToggleMenu(c) \/ handleStorageEvent(c)
        \/ \E s \in Sections : MenuItem(c, s)
        \/ \E fold \in {"open", "folded"} : OtherTab(c, fold)

---------------------------------------------------------------------------
\* Types of the frame's state.
ShellTypeOK ==
    /\ at \in Places
    /\ phase \in {"idle", "awaiting-sidebar-close", "pending", "visible",
                  "shown"}
    /\ clusters.data \in Lists
    /\ DOMAIN isOpen = DOMAIN clusters.data
    /\ events \subseteq ClusterNames

\* The reminder appears once in a session, and it has appeared as soon as a
\* cluster's page stands next to a visible side bar, whichever of the move,
\* the width and the side bar came last (useAllClustersReminder.ts:50-106;
\* "only once per opening of the app", its comment at line 18).
RemindedOnce ==
    /\ seen <= 1
    /\ Rested => (reminded <=> seen = 1)
    /\ Rested /\ getIsClusterRoute /\ isSidebarVisible => seen = 1

\* The address somebody asked for is kept until the list of clusters has come,
\* so a bookmark of a section that needs a feature survives the start, and
\* afterwards gives way only to that cluster's brokers or to the form
\* (ClusterPage.tsx:42-155, PageContainer.tsx:55-60).
AddressKept ==
    at # asked =>
        /\ isFetched
        /\ \/ at = NewConfig
           \/ /\ asked.page = "cluster"
              /\ at = InCluster(asked.name, "brokers")

\* An empty list opens the form that adds a cluster, whichever of the list
\* and the server's features comes first (PageContainer.tsx:55-60).
FormOffered == Rested /\ dynamic /\ Empty => invited

\* A menu shows the remembered fold unless another tab's change is still on
\* its way (useLocalStorage.ts:62-113, Nav.tsx:30-34).
MenusFollow ==
    \A c \in DOMAIN isOpen \ events :
        folds[c] # "unset" => (isOpen[c] <=> folds[c] = "open")

\* What the frame promises: the reminder once, the address asked for, the form
\* for the first cluster, and menus as remembered (useAllClustersReminder.ts,
\* ClusterPage.tsx, PageContainer.tsx, useLocalStorage.ts).
ShellSafe ==
    ShellTypeOK /\ RemindedOnce /\ AddressKept /\ FormOffered /\ MenusFollow
=============================================================================
