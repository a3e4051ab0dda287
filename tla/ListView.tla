------------------------------ MODULE ListView ------------------------------
(***************************************************************************)
(* The list pages of the web interface (topics, consumer groups, schemas,  *)
(* connectors, ACLs) in one browser tab: the search box, switches, column  *)
(* filters and page numbers that live in the URL, the effects that rewrite *)
(* the URL, the query behind the table, the table and its row selection,   *)
(* and the batch actions on the selected topics.  The browser's history,   *)
(* the query library and the router are external.                          *)
(***************************************************************************)
EXTENDS Integers, FiniteSets, SequencesExt

CONSTANTS
    Lists,       \* the lists checked
    Names,       \* every item a cluster may hold
    Sorted,      \* for every set of items, its rows in the order of names
    Internal,    \* the items that are internal topics
    Texts,       \* texts the user searches for
    Filters,     \* values of the column filter
    Matching,    \* the items that match a text or a filter value
    PerPage,     \* rows of one page
    MaxHistory,  \* most entries of the tab's history
    MaxOps,      \* times the user changes the URL in one behaviour
    MaxFaults    \* failures, and changes made by others, in one behaviour

ASSUME ListViewBounds ==
    /\ Lists \subseteq {"Topics", "Groups", "Schemas", "Connectors", "Acls"}
    /\ IsFiniteSet(Names) /\ Internal \subseteq Names
    /\ PerPage \in Nat \ {0} /\ {MaxHistory, MaxOps, MaxFaults} \subseteq Nat
    /\ "" \notin Texts \cup Filters /\ {"absent", "elsewhere"} \cap Texts = {}
    /\ \A m \in Texts \cup Filters : Matching[m] \subseteq Names

\* Sorting lists every row once.
ASSUME SortedAssumption ==
    \A S \in SUBSET Names :
        /\ Sorted[S] \in Seq(Names) /\ ToSet(Sorted[S]) = S
        /\ Len(Sorted[S]) = Cardinality(S)

VARIABLES
    list,                  \* the list this tab shows
    nav,                   \* the history of the tab and the entry shown
    box, typing,           \* text of the search box, a debounce is running
    hideInternalTopics,    \* remembered in the browser's storage
    present,               \* the items the cluster holds
    cache,                 \* the answers of the list's queries
    fetching, paused, failed,   \* queries being fetched, paused, failed
    last,                  \* the last query the table had data of
    rowSelection,
    dialog,                \* the confirmation dialog, if open
    batch,                 \* requests of batch actions not answered yet
    agreed,                \* the rows ticked when the dialog was opened
    download,              \* the search a CSV file was asked for with, if any
    strayed,               \* an item vanished, or a page was chosen past the
                           \* end or among the rows of another search
    leaving,               \* the user only presses Back from now on
    ops, faults            \* bounded counters

data == <<cache, fetching, paused, failed, last>>
asking == <<dialog, batch, agreed, download>>
input == <<box, typing>>
vars == <<list, nav, input, hideInternalTopics, present, data, rowSelection,
          asking, strayed, leaving, ops, faults>>

---------------------------------------------------------------------------
\* What the lists differ in: server: the server filters, sorts and cuts the
\* pages; loader: the table is replaced by a loader during every fetch.
List(server, loader, selectable, filtered, switch) ==
    [server |-> server, loader |-> loader, selectable |-> selectable,
     filtered |-> filtered, switch |-> switch]
TopicsList == List(TRUE, TRUE, TRUE, FALSE, TRUE)
GroupsList == List(TRUE, FALSE, FALSE, TRUE, FALSE)
SchemasList == List(TRUE, FALSE, FALSE, FALSE, FALSE)
ConnectorsList == List(FALSE, FALSE, FALSE, TRUE, FALSE)
AclsList == List(FALSE, FALSE, FALSE, FALSE, FALSE)
Kinds == [Topics |-> TopicsList, Groups |-> GroupsList,
          Schemas |-> SchemasList, Connectors |-> ConnectorsList,
          Acls |-> AclsList]
kind == Kinds[list]

---------------------------------------------------------------------------
\* The URL: page 0 and q "absent" stand for a missing parameter.
Linked == [q |-> "absent", page |-> 0, perPage |-> FALSE, hide |-> FALSE,
           desc |-> FALSE, filter |-> ""]
Elsewhere == [Linked EXCEPT !.q = "elsewhere"]    \* any other page
At(n) == n.entries[n.at]
Pushed(n, u) == [entries |-> Append(SubSeq(n.entries, 1, n.at), u),
                 at |-> n.at + 1]
Replaced(n, u) == [n EXCEPT !.entries[n.at] = u]
Url == At(nav)
OnPage == Url # Elsewhere
TextOf(u) == IF u.q = "absent" THEN "" ELSE u.q
PageOf(u) == IF u.page = 0 THEN 1 ELSE u.page

\* The full-text switch is off in every cluster of this server, so both users
\* of the hook remove its parameter and set the URL anew whenever it differs.
BugUseFts(n, old) == Pushed(Pushed(n, At(n)), At(n))
useFts(n, old) ==
    IF At(n) = old THEN n ELSE Pushed(Pushed(n, At(n)), At(n))

\* The topics page sets its own parameters once, when it is mounted; the ACL
\* page goes to its first page whenever the text differs.
Initial(u) == [u EXCEPT !.perPage = TRUE,
                        !.hide = @ \/ hideInternalTopics]
FirstOfSearch(u) ==
    IF TextOf(u) # "" THEN [u EXCEPT !.page = 1] ELSE [u EXCEPT !.q = "absent"]
Normalised(n, old) ==
    CASE list = "Topics" /\ old = Elsewhere -> Pushed(n, Initial(At(n)))
      [] list = "Acls" /\ (old = Elsewhere \/ At(n).q # old.q) ->
             Replaced(n, FirstOfSearch(At(n)))
      [] OTHER -> n

\* The effects that follow a navigation from the URL old.
Effects(n, old) ==
    IF At(n) = Elsewhere THEN n
    ELSE LET once == useFts(n, old)
             twice == Normalised(once, old)
         IN useFts(twice, At(once))

---------------------------------------------------------------------------
\* The query of a URL and what the servers answer.
KeyOf(u) ==
    IF kind.server
    THEN [q |-> TextOf(u), page |-> PageOf(u), hide |-> u.hide,
          desc |-> u.desc, filter |-> u.filter]
    ELSE [q |-> TextOf(u), page |-> 0, hide |-> FALSE,
          desc |-> FALSE, filter |-> ""]
NoKey == [q |-> "none"]
Key == KeyOf(Url)

Accepted(text) == IF text = "" THEN Names ELSE Matching[text]
Ordered(S, desc) ==
    IF desc THEN Reverse(Sorted[S]) ELSE Sorted[S]
PageCount(rows) == (Len(rows) + PerPage - 1) \div PerPage
Cut(rows, page) ==
    SubSeq(rows, (page - 1) * PerPage + 1,
           IF page * PerPage < Len(rows) THEN page * PerPage ELSE Len(rows))
Clamped(page, count) == IF count > 0 /\ page > count THEN count ELSE page

Matches(k) == {i \in present \cap Accepted(k.q) \cap Accepted(k.filter) :
                 ~(k.hide /\ i \in Internal)}
BugFilterSortPage(k) ==
    LET rows == Ordered(Matches(k), k.desc)
    IN [rows |-> Cut(rows, k.page), count |-> PageCount(rows),
        total |-> Len(rows)]
filterSortPage(k) ==
    LET rows == Ordered(Matches(k), k.desc)
        count == PageCount(rows)
    IN [rows |-> Cut(rows, Clamped(k.page, count)), count |-> count,
        total |-> Len(rows)]
Unpaged(k) ==
    LET rows == Ordered(Matches(k), FALSE)
    IN [rows |-> rows, count |-> 0, total |-> Len(rows)]
Response(k) == IF kind.server THEN filterSortPage(k) ELSE Unpaged(k)

---------------------------------------------------------------------------
\* The table: the answer of its own query or, until that has come, of the
\* last one that had data.
Fetched(k) == k \in DOMAIN cache
Source == IF Fetched(Key) THEN Key ELSE last
isFetching == Key \in fetching
BugIsLoaderShown == kind.loader /\ isFetching /\ last = NoKey
isLoaderShown == kind.loader /\ isFetching
Shown == /\ OnPage /\ ~isLoaderShown
         /\ Key \notin failed
         /\ Source # NoKey

\* getFilteredRowModel, getSortedRowModel and getPaginationRowModel of a
\* table that is processed by the client.
Filtered == Ordered(ToSet(cache[Source].rows) \cap Accepted(Url.filter),
                    Url.desc)
Rows == IF kind.server THEN cache[Source].rows
                       ELSE Cut(Filtered, PageOf(Url))
Count == IF kind.server THEN cache[Source].count ELSE PageCount(Filtered)
BugSelectable == ToSet(Rows)
Selectable == {r \in ToSet(Rows) : r \notin Internal}
\* getSelectedRowModel: a ticked row counts while the table has it.
selectedTopics == rowSelection \cap ToSet(Rows)

Type_url == [q : Texts \cup {"", "absent"}, page : Nat, perPage : BOOLEAN,
             hide : BOOLEAN, desc : BOOLEAN, filter : Filters \cup {""}]
Type_key == [q : Texts \cup {""}, page : Nat, hide : BOOLEAN,
             desc : BOOLEAN, filter : Filters \cup {""}]
NoDialog == [open |-> FALSE, action |-> "", names |-> {}, running |-> FALSE]

\* Every variable keeps its type; only rows of the table on screen that may
\* be selected are, a dialog asks about rows the user had ticked, and a query
\* that is not fetched is not paused.
TypeOK ==
    /\ list \in Lists /\ nav.at \in 1..Len(nav.entries)
    /\ \A i \in 2..Len(nav.entries) : nav.entries[i] \in Type_url
    /\ box \in Texts \cup {""} /\ typing \in BOOLEAN
    /\ hideInternalTopics \in BOOLEAN /\ present \subseteq Names
    /\ DOMAIN cache \cup fetching \cup paused \cup failed \subseteq Type_key
    /\ last \in Type_key \cup {NoKey}
    /\ fetching \cap paused = {}
    /\ rowSelection \subseteq Names \ Internal
    /\ dialog.names \subseteq Names \ Internal
    /\ {strayed, leaving} \subseteq BOOLEAN
    /\ ops \in 0..MaxOps /\ faults \in 0..MaxFaults

Init ==
    /\ list \in Lists
    /\ nav = [entries |-> <<Elsewhere>>, at |-> 1]
    /\ box = "" /\ typing = FALSE
    /\ hideInternalTopics \in {FALSE, Kinds[list].switch}
    /\ present = Names
    /\ cache = <<>> /\ fetching = {} /\ paused = {} /\ failed = {}
    /\ last = NoKey /\ rowSelection = {}
    /\ dialog = NoDialog /\ batch = {} /\ agreed = {} /\ download = NoKey
    /\ strayed = FALSE /\ leaving = FALSE
    /\ ops = 0 /\ faults = 0

---------------------------------------------------------------------------
\* A navigation: the effects run, and the query of the URL is fetched if the
\* table was not showing it already.  On mount the query of the URL before
\* the effects is fetched as well.
Started(K) ==
    /\ fetching' = fetching \cup (K \ paused)
    /\ failed' = {k \in failed : k \notin K \/ Fetched(k)}
Remember(K) ==
    last' = IF K = {} THEN last ELSE CHOOSE k \in K : TRUE
BugKept(selection) == rowSelection' = selection
Kept(selection) == rowSelection' = IF Shown' THEN selection ELSE {}
\* The first render of another query shows the loader, even if its fetch turns
\* out to be paused.
Followed == Kept(IF Key' = Key THEN rowSelection ELSE {})
Go(n, text, pending) ==
    /\ nav' = Effects(n, Url)
    /\ UNCHANGED <<list, cache, paused, asking, present>>
    /\ IF At(n) = Elsewhere
       THEN /\ last' = NoKey /\ box' = "" /\ typing' = FALSE
            /\ UNCHANGED <<fetching, failed>>
       ELSE LET k == KeyOf(At(nav'))
                first == KeyOf(At(n))
                old == IF OnPage THEN {Key} ELSE {}
            IN /\ Started({k, first} \ old)
               /\ Remember(IF Fetched(k) THEN {k} ELSE {first} \cap DOMAIN cache)
               /\ box' = IF OnPage THEN text ELSE TextOf(At(n))
               /\ typing' = (OnPage /\ pending)

\* Bounds; the environment only interferes before the user gives up.
Fault == faults < MaxFaults /\ ~leaving /\ faults' = faults + 1
Counted == ops < MaxOps /\ ops' = ops + 1
Browsing == OnPage /\ ~dialog.open /\ ~leaving
Visit(u) == Go(Pushed(nav, u), box, typing)

\* The menu's link to the list.
Open ==
    /\ ~OnPage /\ ~leaving /\ Counted
    /\ Go(Pushed(nav, Linked), box, typing)
    /\ UNCHANGED <<hideInternalTopics, strayed, leaving, faults>>
    /\ Kept({})

\* The browser's Back and Forward buttons, which a dialog does not block.
Traverse(step) ==
    /\ nav.at + step \in 1..Len(nav.entries)
    /\ Len(nav.entries) < MaxHistory
    /\ IF leaving THEN step = -1 /\ UNCHANGED ops ELSE Counted
    /\ Go([nav EXCEPT !.at = @ + step], box, typing)
    /\ UNCHANGED <<hideInternalTopics, strayed, leaving, faults>>
    /\ Followed

\* From a page at rest: the URL's effects depend on no answer.
GiveUp ==
    /\ Browsing /\ fetching \cup paused \cup batch = {}
    /\ leaving' = TRUE
    /\ UNCHANGED <<list, nav, input, hideInternalTopics, present, data,
                   rowSelection, asking, strayed, ops, faults>>

\* Search: the URL follows the box half a second after the last key stroke,
\* and what is in the box then is what counts.
Type(text) ==
    /\ Browsing /\ Counted /\ text # box
    /\ box' = text /\ typing' = TRUE
    /\ UNCHANGED <<list, nav, hideInternalTopics, present, data, rowSelection,
                   asking, strayed, leaving, faults>>
BugSearched(u) ==
    IF box = "" THEN u ELSE [u EXCEPT !.q = box, !.page = IF @ = 0 THEN 0 ELSE 1]
Searched(u) == [u EXCEPT !.q = box, !.page = IF @ = 0 THEN 0 ELSE 1]
handleChange ==
    /\ typing /\ Go(Pushed(nav, Searched(Url)), box, FALSE)
    /\ UNCHANGED <<hideInternalTopics, strayed, leaving, ops, faults>>
    /\ Followed
clearSearchValue ==
    /\ Browsing /\ Counted
    /\ IF TextOf(Url) # ""
       THEN Go(Pushed(nav, [Url EXCEPT !.q = ""]), "", typing)
       ELSE /\ box' = "" /\ box # ""
            /\ UNCHANGED <<list, nav, typing, present, data, asking>>
    /\ UNCHANGED <<hideInternalTopics, strayed, leaving, faults>>
    /\ Followed

\* The switch that hides internal topics.
handleSwitch ==
    /\ Browsing /\ kind.switch /\ Counted
    /\ hideInternalTopics' = ~Url.hide
    /\ Visit([Url EXCEPT !.hide = ~@, !.page = 1])
    /\ UNCHANGED <<strayed, leaving, faults>>
    /\ Followed

\* The table's header and footer.  setPageIndex knows the number of pages
\* only when the server has counted them.
updateSortingState(u) == [u EXCEPT !.desc = ~@]
updatePaginationState(u, p) == [u EXCEPT !.page = p, !.perPage = TRUE]
onSortingChange ==
    /\ Browsing /\ Shown /\ Counted
    /\ Visit(updateSortingState(Url))
    /\ UNCHANGED <<hideInternalTopics, strayed, leaving, faults>>
    /\ Followed
onPaginationChange(p) ==
    /\ Browsing /\ Shown /\ Count > 1 /\ Counted
    /\ kind.server => p <= Count
    /\ Visit(updatePaginationState(Url, p))
    /\ strayed' = (strayed \/ p > Count \/ Source # Key)
    /\ UNCHANGED <<hideInternalTopics, leaving, faults>>
    /\ Kept({})
update(u, f) == [u EXCEPT !.filter = f, !.page = 0]
onFilterChange(f) ==
    /\ Browsing /\ Shown /\ kind.filtered /\ f # Url.filter /\ Counted
    /\ Visit(update(Url, f))
    /\ UNCHANGED <<hideInternalTopics, strayed, leaving, faults>>
    /\ Followed

---------------------------------------------------------------------------
\* The query library: an answer, a failure, and a retry that waits for the
\* network to come back.
pages == <<list, nav, input, hideInternalTopics, present, asking, leaving, ops>>

Answer(k) ==
    /\ k \in fetching
    /\ fetching' = fetching \ {k} /\ failed' = failed \ {k}
    /\ cache' = [x \in DOMAIN cache \cup {k} |->
                     IF x = k THEN Response(k) ELSE cache[x]]
    /\ Remember(IF OnPage THEN {Key} \cap {k} ELSE {})
    /\ UNCHANGED <<pages, paused, strayed, faults>>
    /\ Kept(rowSelection)
Fail(k) ==
    /\ k \in fetching /\ Fault
    /\ fetching' = fetching \ {k} /\ failed' = failed \cup {k}
    /\ UNCHANGED <<pages, cache, paused, last, strayed>>
    /\ Kept(rowSelection)
Pause(k) ==
    /\ k \in fetching /\ Fault
    /\ fetching' = fetching \ {k} /\ paused' = paused \cup {k}
    /\ UNCHANGED <<pages, cache, failed, last, strayed>>
    /\ Kept(rowSelection)
Continue(k) ==
    /\ k \in paused
    /\ fetching' = fetching \cup {k} /\ paused' = paused \ {k}
    /\ UNCHANGED <<pages, cache, failed, last, strayed, faults>>
    /\ Kept(rowSelection)

\* The window gets the focus, or the button of the error page is pressed.
Refetch ==
    /\ OnPage /\ Key \notin fetching \cup paused
    /\ \/ Key \in failed /\ UNCHANGED faults
       \/ Fault
    /\ Started({Key})
    /\ UNCHANGED <<pages, cache, paused, last, strayed>>
    /\ Kept(rowSelection)

\* Somebody else removes an item or creates it again.
Vanish(i) ==
    /\ OnPage /\ i \in present /\ Fault
    /\ present' = present \ {i} /\ strayed' = TRUE
    /\ UNCHANGED <<list, nav, input, hideInternalTopics, asking, leaving, ops,
                   data, rowSelection>>

---------------------------------------------------------------------------
\* Selecting rows and acting on them.
others == <<list, nav, input, hideInternalTopics, strayed, leaving, faults>>

Tick(S) ==
    /\ Browsing /\ Shown /\ kind.selectable /\ Counted
    /\ S # {} /\ S \subseteq Selectable
    /\ rowSelection' = SymDiff(rowSelection, S)
    /\ UNCHANGED <<others, present, data, asking>>
Ask(action) ==
    /\ Browsing /\ Shown /\ selectedTopics # {}
    /\ dialog' = [NoDialog EXCEPT !.open = TRUE, !.action = action,
                                  !.names = selectedTopics]
    /\ agreed' = selectedTopics
    /\ UNCHANGED <<others, present, data, rowSelection, batch, download, ops>>
Cancel ==
    /\ dialog.open /\ ~dialog.running
    /\ dialog' = NoDialog
    /\ UNCHANGED <<others, present, data, rowSelection, batch, agreed, download, ops>>

\* Promise.all: every request is sent at once.
BugBatch == rowSelection
Batch == dialog.names
Confirm ==
    /\ dialog.open /\ ~dialog.running
    /\ batch' = batch \cup {[name |-> i, action |-> dialog.action,
                             awaited |-> TRUE] : i \in Batch}
    /\ dialog' = IF Batch = {} THEN NoDialog ELSE [dialog EXCEPT !.running = TRUE]
    /\ UNCHANGED <<others, present, data, rowSelection, agreed, download, ops>>

\* An answered request refreshes the list; the dialog is closed by the last
\* answer, or by the first failure while the other requests go on.
Invalidate == IF OnPage THEN Started({Key}) ELSE UNCHANGED <<fetching, failed>>
Done(r) ==
    /\ r \in batch /\ batch' = batch \ {r}
    /\ present' = IF r.action = "delete" THEN present \ {r.name} ELSE present
    /\ dialog' = IF r.awaited /\ ~\E x \in batch' : x.awaited
                 THEN NoDialog ELSE dialog
    /\ Invalidate
    /\ UNCHANGED <<list, nav, input, hideInternalTopics, leaving, faults,
                   strayed, cache, paused, last, agreed, download, ops>>
    /\ Kept(IF r.awaited /\ ~dialog'.open THEN {} ELSE rowSelection)
Refused(r) ==
    /\ r \in batch /\ Fault
    /\ batch' = IF r.awaited
                THEN {[x EXCEPT !.awaited = FALSE] : x \in batch \ {r}}
                ELSE batch \ {r}
    /\ dialog' = IF r.awaited THEN NoDialog ELSE dialog
    /\ IF r.action = "purge" THEN Invalidate ELSE UNCHANGED <<fetching, failed>>
    /\ UNCHANGED <<list, nav, input, hideInternalTopics, present, leaving,
                   strayed, cache, paused, last, agreed, download, ops>>
    /\ Kept(rowSelection)

---------------------------------------------------------------------------
\* Export.  The server writes all rows of the search the button was pressed
\* with; the state filter of consumer groups is not part of that search.  A
\* table that is processed by the client is written by the client: the
\* selected rows or, without a selection, the rows of all its pages.
BugCsvParams(u) == [KeyOf(u) EXCEPT !.page = 0, !.filter = "", !.hide = FALSE]
csvParams(u) == [KeyOf(u) EXCEPT !.page = 0, !.filter = ""]
getTopicsCsv(k) == Ordered(Matches(k), k.desc)
getConsumerGroupsCsv(k) == Ordered(Matches(k), k.desc)
fetchCsv(k) == IF list = "Topics" THEN getTopicsCsv(k) ELSE getConsumerGroupsCsv(k)
exportTableCSV ==
    LET selected == rowSelection \cap ToSet(Filtered)
    IN IF selected # {} THEN Ordered(selected, Url.desc) ELSE Filtered
handleDownload ==
    /\ Browsing /\ list \in {"Topics", "Groups"} /\ download = NoKey /\ Counted
    /\ download' = csvParams(Url)
    /\ UNCHANGED <<others, present, data, rowSelection, dialog, batch, agreed>>
Downloaded ==
    /\ download # NoKey /\ download' = NoKey
    /\ UNCHANGED <<others, present, data, rowSelection, dialog, batch, agreed, ops>>
DownloadFails ==
    /\ download # NoKey /\ download' = NoKey /\ Fault
    /\ UNCHANGED <<list, nav, input, hideInternalTopics, strayed, leaving,
                   present, data, rowSelection, dialog, batch, agreed, ops>>

User ==
    \/ Open \/ \E step \in {-1, 1} : Traverse(step)
    \/ GiveUp
    \/ \E text \in Texts \cup {""} : Type(text)
    \/ clearSearchValue \/ handleSwitch \/ onSortingChange
    \/ \E p \in 1..(Cardinality(Names) + 1) : onPaginationChange(p)
    \/ \E f \in Filters \cup {""} : onFilterChange(f)
    \/ \E S \in SUBSET Names : Tick(S)
    \/ \E action \in {"delete", "purge"} : Ask(action)
    \/ Cancel \/ Confirm \/ handleDownload
Environment ==
    \/ \E k \in fetching : Answer(k) \/ Fail(k) \/ Pause(k)
    \/ \E k \in paused : Continue(k)
    \/ Refetch \/ \E i \in Names : Vanish(i)
    \/ \E r \in batch : Done(r) \/ Refused(r)
    \/ Downloaded \/ DownloadFails

Next == User \/ Environment \/ handleChange
Back == leaving /\ Traverse(-1)
Spec == Init /\ [][Next]_vars /\ WF_vars(Back) /\ WF_vars(handleChange)

---------------------------------------------------------------------------
\* Properties

\* ListPage, TopicTable: rows on the screen are the answer to the query in
\* the address bar, whatever was fetched, cached or gone back to, except
\* while the lists that keep their table during a fetch are fetching, and
\* while the retry of a fetch waits for the network.
ShownIsAsked ==
    /\ Shown /\ Key \notin paused
    /\ isFetching => kind.loader
    => Source = Key

\* Table: a ticked row is a row on the screen, so that no tick waits on a page
\* or in a search the user has left and reaches a batch action later.  While
\* the retry of a fetch waits for the network, the rows are those of another
\* search, which may be refreshed under a tick.
SelectionShown ==
    rowSelection # {} =>
        Shown /\ (Key \notin paused => rowSelection \subseteq Selectable)

\* filterSortPage, queryPersister, Search: a table without rows means that
\* nothing matches: narrowing a list never leaves the user on a page past
\* its end.  A list that is cut by the client is exempt once an item has
\* vanished, a page number past the end was typed, or the page was turned
\* while the table still showed the rows of the search before; and so is the
\* time until the rows of its own search have come.
NoEmptyPage ==
    Shown /\ Rows = <<>> =>
        IF kind.server THEN cache[Source].total = 0
        ELSE Filtered = <<>> \/ strayed \/ Source # Key

\* BatchActionsBar: what is deleted or purged is exactly what was ticked when
\* the dialog opened, although the list may be refetched, and the selection
\* lost, before the user confirms.
BatchAsAgreed ==
    [][Confirm => {r.name : r \in {x \in batch' : x.awaited}} = agreed]_vars

\* DownloadCsvButton, exportTableCSV: while the search is still the one the
\* file was asked for with, the table shows the corresponding page of that
\* file.  A list that was not refreshed since it changed is exempt, and so
\* are consumer groups filtered by state.
UpToDate == Shown /\ Source = Key /\ cache[Key] = Response(Key)
ExportAgrees ==
    /\ [][Downloaded /\ UpToDate /\ download = csvParams(Url) /\ Url.filter = ""
            => LET file == fetchCsv(download)
               IN Rows = Cut(file, Clamped(PageOf(Url), PageCount(file)))]_vars
    /\ [](Shown /\ list = "Connectors" => Rows = Cut(exportTableCSV, PageOf(Url)))

\* Search: the text in the box, when the user stops typing, becomes the
\* search of the URL.
TypedApplied ==
    \A text \in Texts \cup {""} :
        (typing /\ box = text) ~> (~OnPage \/ box # text \/ TextOf(Url) = text)

\* useFts, ListPage, ACList: the effects that set the URL anew never trap
\* the user: pressing Back often enough leaves the list.  The one exception
\* is an ACL list whose search was emptied: there "q=" is rewritten with a
\* replacement, on every visit, which leaves the user one entry further on.
Trapped == list = "Acls" /\ \E i \in DOMAIN nav.entries : nav.entries[i].q = ""
BackLeaves == leaving ~> ~OnPage \/ Trapped

\* The table, its selection and its page belong to the address: the parts
\* above together (ListPage, TopicTable, Table, filterSortPage).
ListAsAsked == TypeOK /\ ShownIsAsked /\ SelectionShown /\ NoEmptyPage

\* Batch actions and exports concern the rows the user was shown: the parts
\* above together (BatchActionsBar, DownloadCsvButton).
ActionsAsAgreed == BatchAsAgreed /\ ExportAgrees

\* The address follows the search box and never traps the user: the parts
\* above together (Search, useFts).
UrlSettles == TypedApplied /\ BackLeaves
=============================================================================
