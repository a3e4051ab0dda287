--------------------------- MODULE ListViewProofs ---------------------------
(***************************************************************************)
(* The list pages: for any items, searches and page sizes, and however the *)
(* user moves through the history, the table shows what the address asks   *)
(* for, a tick does not outlive the rows it was made on, a list is never   *)
(* cut past its end, batch actions reach what the user agreed to, and a    *)
(* file agrees with the screen.                                            *)
(***************************************************************************)
EXTENDS ListView, FiniteSetTheorems, TLAPS

----------------------------------------------------------------------------
(* Rows and pages *)

\* What the constants are.
LEMMA Constants ==
    /\ PerPage \in Nat /\ PerPage >= 1
    /\ MaxOps \in Nat /\ MaxFaults \in Nat
    /\ Lists \subseteq {"Topics", "Groups", "Schemas", "Connectors", "Acls"}
<1>1. PerPage \in Nat \ {0} /\ {MaxHistory, MaxOps, MaxFaults} \subseteq Nat
  BY Zenon, ListViewBounds
<1>2. PerPage >= 1
  BY <1>1
<1> QED
  BY <1>1, <1>2, Zenon, ListViewBounds

\* What the lists differ in.
LEMMA KindFacts ==
    ASSUME list \in Lists
    PROVE  /\ kind.server \in BOOLEAN
           /\ kind.server <=> list \in {"Topics", "Groups", "Schemas"}
           /\ kind.loader <=> list = "Topics"
           /\ kind.selectable <=> list = "Topics"
           /\ kind.loader \in BOOLEAN /\ kind.selectable \in BOOLEAN
<1>1. list \in {"Topics", "Groups", "Schemas", "Connectors", "Acls"}
  BY Constants
<1>2. /\ Kinds["Topics"] = TopicsList /\ Kinds["Groups"] = GroupsList
      /\ Kinds["Schemas"] = SchemasList /\ Kinds["Connectors"] = ConnectorsList
      /\ Kinds["Acls"] = AclsList
  BY DEF Kinds
<1>3. /\ Kinds["Topics"].server = TRUE /\ Kinds["Topics"].loader = TRUE
      /\ Kinds["Topics"].selectable = TRUE
      /\ Kinds["Groups"].server = TRUE /\ Kinds["Groups"].loader = FALSE
      /\ Kinds["Groups"].selectable = FALSE
      /\ Kinds["Schemas"].server = TRUE /\ Kinds["Schemas"].loader = FALSE
      /\ Kinds["Schemas"].selectable = FALSE
      /\ Kinds["Connectors"].server = FALSE /\ Kinds["Connectors"].loader = FALSE
      /\ Kinds["Connectors"].selectable = FALSE
      /\ Kinds["Acls"].server = FALSE /\ Kinds["Acls"].loader = FALSE
      /\ Kinds["Acls"].selectable = FALSE
  BY <1>2 DEF List, TopicsList, GroupsList, SchemasList, ConnectorsList, AclsList
<1> QED
  BY <1>1, <1>3 DEF kind

\* The rows of a set, in either order.
LEMMA OrderedFacts ==
    ASSUME NEW S \in SUBSET Names, NEW desc \in BOOLEAN
    PROVE  /\ Ordered(S, desc) \in Seq(Names) /\ Len(Ordered(S, desc)) = Cardinality(S)
           /\ ToSet(Ordered(S, desc)) = S
<1> DEFINE up == Sorted[S]
<1>1. up \in Seq(Names) /\ ToSet(up) = S /\ Len(up) = Cardinality(S)
  BY SortedAssumption
<1> HIDE DEF up
<1>2. /\ Reverse(up) \in Seq(Names) /\ Len(Reverse(up)) = Len(up)
      /\ \A i \in 1..Len(up) : Reverse(up)[i] = up[Len(up) - i + 1]
  <2>1. Len(up) \in Nat /\ \A i \in 1..Len(up) : up[Len(up) - i + 1] \in Names
    BY <1>1
  <2>2. Reverse(up) = [i \in 1..Len(up) |-> up[Len(up) - i + 1]]
    BY <2>1 DEF Reverse
  <2> QED
    BY <2>1, <2>2
<1>3. ToSet(Reverse(up)) = ToSet(up)
  <2>1. ToSet(Reverse(up)) \subseteq ToSet(up)
    BY <1>1, <1>2 DEF ToSet
  <2>2. ASSUME NEW i \in 1..Len(up) PROVE up[i] \in ToSet(Reverse(up))
    <3>1. Len(up) \in Nat /\ Len(up) - i + 1 \in 1..Len(up)
      BY <1>1
    <3>2. Reverse(up)[Len(up) - i + 1] = up[Len(up) - (Len(up) - i + 1) + 1]
      BY <1>2, <3>1
    <3>3. Len(up) - (Len(up) - i + 1) + 1 = i
      BY <3>1
    <3> QED
      BY <1>2, <3>1, <3>2, <3>3 DEF ToSet
  <2> QED
    BY <1>1, <2>1, <2>2 DEF ToSet
<1> QED
  BY <1>1, <1>2, <1>3 DEF Ordered, up

\* A page within the number of pages begins at a row.
LEMMA PageStarts ==
    ASSUME NEW rows \in Seq(Names)
    PROVE  /\ PageCount(rows) \in Nat
           /\ PageCount(rows) = 0 => Len(rows) = 0
           /\ \A p \in Nat : 1 <= p /\ p <= PageCount(rows) =>
                 (p - 1) * PerPage < Len(rows)
<1> DEFINE n == Len(rows)
<1> DEFINE c == (n + PerPage - 1) \div PerPage
<1>1. n \in Nat /\ PerPage \in Nat /\ PerPage >= 1
  BY Constants
<1> HIDE DEF n
<1>2. c \in Nat /\ PerPage * c <= n + PerPage - 1 /\ n + PerPage - 1 < PerPage * c + PerPage
  BY <1>1
<1>3. ASSUME NEW p \in Nat, 1 <= p, p <= c PROVE (p - 1) * PerPage < n
  <2>1. p * PerPage <= c * PerPage
    BY <1>1, <1>2, <1>3
  <2>2. (p - 1) * PerPage = p * PerPage - PerPage /\ c * PerPage = PerPage * c
    BY <1>1, <1>2
  <2> QED
    BY <1>1, <1>2, <2>1, <2>2
<1>4. c = 0 => n = 0
  BY <1>1, <1>2
<1> QED
  BY <1>2, <1>3, <1>4 DEF PageCount, n

\* A page that begins at a row is not empty.
LEMMA CutFacts ==
    ASSUME NEW rows \in Seq(Names), NEW p \in Nat, 1 <= p
    PROVE  /\ Cut(rows, p) \in Seq(Names)
           /\ (p - 1) * PerPage < Len(rows) => Cut(rows, p) # <<>>
           /\ p = 1 /\ Cut(rows, p) = <<>> => rows = <<>>
<1> DEFINE lo == (p - 1) * PerPage
<1> DEFINE hi == p * PerPage
<1>0. PerPage \in Nat /\ PerPage >= 1 /\ Len(rows) \in Nat /\ p - 1 \in Nat
  BY Constants
<1>1. /\ PerPage \in Nat /\ PerPage >= 1 /\ Len(rows) \in Nat
      /\ lo \in Nat /\ hi = lo + PerPage
  BY <1>0
<1>2. Cut(rows, p) = SubSeq(rows, lo + 1, IF hi < Len(rows) THEN hi ELSE Len(rows))
  BY DEF Cut
<1>3. p = 1 => lo = 0
  BY <1>1
<1> HIDE DEF lo, hi
<1>4. Cut(rows, p) \in Seq(Names)
  BY <1>1, <1>2
<1>5. lo < Len(rows) => Cut(rows, p) # <<>>
  <2>1. lo < Len(rows) => Len(Cut(rows, p)) >= 1
    BY <1>1, <1>2
  <2> QED
    BY <2>1
<1>6. p = 1 /\ Cut(rows, p) = <<>> => rows = <<>>
  <2>1. ~(0 < Len(rows)) => rows = <<>>
    BY <1>1
  <2> QED
    BY <1>1, <1>3, <1>5, <2>1
<1> QED
  BY <1>4, <1>5, <1>6 DEF lo
----------------------------------------------------------------------------
(* The inductive invariant *)

Answers == [rows : Seq(Names), count : Nat, total : Nat]
Dialogs == [open : BOOLEAN, action : {"", "delete", "purge"},
            names : SUBSET (Names \ Internal), running : BOOLEAN]
Requests == [name : Names, action : {"", "delete", "purge"}, awaited : BOOLEAN]

\* The keys of the list's queries.
Keys == {k \in Type_key : IF kind.server THEN k.page >= 1
                          ELSE k.filter = "" /\ ~k.hide}

\* The rows a URL of a list without pages on the server leaves, and whether its
\* page is one of them.
Reach(u) == Accepted(TextOf(u)) \cap Accepted(u.filter)
InRange(u) == PageOf(u) = 1 \/ (PageOf(u) - 1) * PerPage < Cardinality(Reach(u))

\* The URLs of the list: while nothing strayed, with pages within the list.
Exact == ~kind.server /\ ~strayed
Urls == {u \in Type_url : Exact => InRange(u)}
\* The history of a tab that came from somewhere else.
Navs(G) == {n \in [entries : Seq(G \cup {Elsewhere}), at : Nat] :
              /\ n.at \in 1..Len(n.entries)
              /\ n.entries[1] = Elsewhere
              /\ \A i \in 2..Len(n.entries) : n.entries[i] \in G}

Types ==
    /\ list \in Lists
    /\ nav \in Navs(Urls)
    /\ box \in Texts \cup {""} /\ typing \in BOOLEAN /\ (typing => OnPage)
    /\ hideInternalTopics \in BOOLEAN
    /\ present \subseteq Names
    /\ fetching \subseteq Keys /\ paused \subseteq Keys /\ failed \subseteq Keys
    /\ fetching \cap paused = {}
    /\ DOMAIN cache \subseteq Keys /\ cache \in [DOMAIN cache -> Answers]
    /\ last \in DOMAIN cache \cup {NoKey}
    /\ rowSelection \subseteq Names \ Internal
    /\ dialog \in Dialogs /\ batch \subseteq Requests
    /\ strayed \in BOOLEAN /\ leaving \in BOOLEAN
    /\ ops \in 0..MaxOps /\ faults \in 0..MaxFaults

\* What the caches hold: the server never cuts a list past its end, and a list
\* nobody disturbed is still the list of everything.
CacheOK ==
    /\ kind.server => \A k \in DOMAIN cache : cache[k].rows = <<>> => cache[k].total = 0
    /\ Exact => /\ present = Names
                /\ \A k \in DOMAIN cache : ToSet(cache[k].rows) = Accepted(k.q)

\* The query of the address is known: the loader, the error page or its rows.
KeyKnown == OnPage => Key \in fetching \cup paused \cup failed \cup DOMAIN cache

\* Only the topics have ticks; a dialog asks about what was agreed to, and only
\* requests of the dialog that runs are awaited.
TicksOK ==
    /\ rowSelection # {} => kind.selectable
    /\ SelectionShown
BatchOK ==
    /\ dialog.open => dialog.names = agreed
    /\ dialog.open \/ batch # {} => kind.selectable
    /\ \A x \in batch : x.awaited => dialog.open /\ dialog.running

\* The servers write files of two lists.
DownloadOK == download # NoKey => list \in {"Topics", "Groups"}

IInv == Types /\ CacheOK /\ KeyKnown /\ TicksOK /\ BatchOK /\ DownloadOK

----------------------------------------------------------------------------
(* Addresses and history *)

\* An address of the list is not one of another page.
LEMMA NavFacts ==
    ASSUME NEW G \in SUBSET Type_url, NEW n \in Navs(G)
    PROVE  At(n) # Elsewhere => At(n) \in G
BY DEF Navs, At

\* No address of the list is that of another page.
LEMMA ListUrl == ASSUME NEW u \in Type_url PROVE u # Elsewhere
<1>1. u.q # "elsewhere"
  BY ListViewBounds DEF Type_url
<1> QED
  BY <1>1 DEF Elsewhere, Linked

\* Pushing an address onto the history.
LEMMA PushedNav ==
    ASSUME NEW G \in SUBSET Type_url, NEW n \in Navs(G), NEW u \in G
    PROVE  Pushed(n, u) \in Navs(G) /\ At(Pushed(n, u)) = u
<1> DEFINE s == SubSeq(n.entries, 1, n.at)
<1>1. /\ n.entries \in Seq(G \cup {Elsewhere}) /\ n.at \in 1..Len(n.entries)
      /\ Len(n.entries) \in Nat /\ n.at \in Nat
  BY DEF Navs
<1>2. /\ s \in Seq(G \cup {Elsewhere}) /\ Len(s) = n.at
      /\ \A i \in 1..n.at : s[i] = n.entries[i]
  BY <1>1
<1> HIDE DEF s
<1> DEFINE e == Append(s, u)
<1>3. /\ e \in Seq(G \cup {Elsewhere}) /\ Len(e) = n.at + 1
      /\ e[n.at + 1] = u
      /\ \A i \in 1..n.at : e[i] = n.entries[i]
  BY <1>1, <1>2
<1>4. Pushed(n, u) = [entries |-> e, at |-> n.at + 1]
  BY DEF Pushed, s
<1> HIDE DEF e
<1>5. /\ n.entries[1] = Elsewhere
      /\ \A i \in 2..Len(n.entries) : n.entries[i] \in G
  BY DEF Navs
<1>6. e[1] = Elsewhere
  BY <1>1, <1>3, <1>5
<1>7. ASSUME NEW i \in 2..(n.at + 1) PROVE e[i] \in G
  <2>1. CASE i = n.at + 1
    BY <1>3, <2>1
  <2>2. CASE i # n.at + 1
    <3>1. i \in 1..n.at /\ i \in 2..Len(n.entries)
      BY <1>1, <2>2
    <3> QED
      BY <1>3, <1>5, <3>1
  <2> QED
    BY <2>1, <2>2
<1> DEFINE m == [entries |-> e, at |-> n.at + 1]
<1>8. /\ m \in [entries : Seq(G \cup {Elsewhere}), at : Nat]
      /\ m.entries = e /\ m.at = n.at + 1 /\ m.at \in 1..Len(e)
  BY <1>1, <1>3
<1> HIDE DEF m
<1>9. m \in Navs(G) /\ At(m) = u
  BY <1>3, <1>6, <1>7, <1>8 DEF Navs, At
<1> QED
  BY <1>4, <1>9 DEF m

\* Replacing the address shown.
LEMMA ReplacedNav ==
    ASSUME NEW G \in SUBSET Type_url, NEW n \in Navs(G), At(n) # Elsewhere,
           NEW u \in G
    PROVE  Replaced(n, u) \in Navs(G) /\ At(Replaced(n, u)) = u
<1>1. /\ n.entries \in Seq(G \cup {Elsewhere}) /\ n.at \in 1..Len(n.entries)
      /\ n.entries[1] = Elsewhere /\ n.at # 1
      /\ n \in [entries : Seq(G \cup {Elsewhere}), at : Nat]
      /\ \A i \in 2..Len(n.entries) : n.entries[i] \in G
  BY DEF Navs, At
<1> DEFINE e == [n.entries EXCEPT ![n.at] = u]
<1>2. /\ e \in Seq(G \cup {Elsewhere}) /\ Len(e) = Len(n.entries)
      /\ e[n.at] = u /\ e[1] = Elsewhere
      /\ \A i \in 2..Len(n.entries) : e[i] \in G
  BY <1>1
<1>3. Replaced(n, u).entries = e /\ Replaced(n, u).at = n.at
      /\ Replaced(n, u) \in [entries : Seq(G \cup {Elsewhere}), at : Nat]
  BY <1>1, <1>2 DEF Replaced
<1> QED
  BY <1>1, <1>2, <1>3 DEF Navs, At

\* The effects that follow a navigation stay among the addresses of the list.
LEMMA EffectsNav ==
    ASSUME NEW G \in SUBSET Type_url, NEW n \in Navs(G), NEW old,
           \A u \in G : Initial(u) \in G /\ FirstOfSearch(u) \in G
    PROVE  /\ Effects(n, old) \in Navs(G)
           /\ At(n) = Elsewhere => Effects(n, old) = n
           /\ At(n) # Elsewhere => At(Effects(n, old)) \in G
<1>1. ASSUME NEW m \in Navs(G), At(m) \in G, NEW o
      PROVE  useFts(m, o) \in Navs(G) /\ At(useFts(m, o)) \in G
  <2>1. Pushed(m, At(m)) \in Navs(G)
    BY <1>1, PushedNav
  <2> QED
    BY <1>1, <2>1, PushedNav DEF useFts
<1>2. ASSUME NEW m \in Navs(G), At(m) \in G
      PROVE  Normalised(m, old) \in Navs(G) /\ At(Normalised(m, old)) \in G
  <2>1. At(m) # Elsewhere
    BY <1>2, ListUrl
  <2>2. \/ Normalised(m, old) = Pushed(m, Initial(At(m)))
        \/ Normalised(m, old) = Replaced(m, FirstOfSearch(At(m)))
        \/ Normalised(m, old) = m
    BY DEF Normalised
  <2> QED
    BY <1>2, <2>1, <2>2, PushedNav, ReplacedNav
<1>3. CASE At(n) = Elsewhere
  BY <1>3 DEF Effects
<1>4. CASE At(n) # Elsewhere
  <2>1. At(n) \in G
    BY <1>4, NavFacts
  <2> DEFINE once == useFts(n, old)
  <2> DEFINE twice == Normalised(once, old)
  <2>2. once \in Navs(G) /\ At(once) \in G
    BY <1>1, <2>1
  <2>3. twice \in Navs(G) /\ At(twice) \in G
    BY <1>2, <2>2
  <2> HIDE DEF once, twice
  <2>4. useFts(twice, At(once)) \in Navs(G) /\ At(useFts(twice, At(once))) \in G
    BY <1>1, <2>3
  <2> QED
    BY <1>4, <2>4 DEF Effects, once, twice
<1> QED
  BY <1>3, <1>4

----------------------------------------------------------------------------
(* Pages within the list *)

\* What a text or a filter lets through.
LEMMA AcceptedFacts ==
    ASSUME NEW t \in Texts \cup Filters \cup {""}
    PROVE  Accepted(t) \subseteq Names /\ Accepted("") = Names
BY ListViewBounds DEF Accepted

\* What an address of the list asks for.
LEMMA ReachFacts ==
    ASSUME NEW u \in Type_url
    PROVE  /\ TextOf(u) \in Texts \cup {""} /\ PageOf(u) \in Nat /\ PageOf(u) >= 1
           /\ Reach(u) \subseteq Names /\ Cardinality(Reach(u)) \in Nat
           /\ \A S \in SUBSET Names : Reach(u) \subseteq S =>
                 Cardinality(S) \in Nat /\ Cardinality(Reach(u)) <= Cardinality(S)
<1>1. TextOf(u) \in Texts \cup {""} /\ u.filter \in Filters \cup {""}
  BY DEF TextOf, Type_url
<1>2. PageOf(u) \in Nat /\ PageOf(u) >= 1
  <2>1. u.page \in Nat
    BY DEF Type_url
  <2> QED
    BY <2>1 DEF PageOf
<1>3. Reach(u) \subseteq Names
  BY <1>1, AcceptedFacts DEF Reach
<1>4. ASSUME NEW S \in SUBSET Names, Reach(u) \subseteq S
      PROVE  /\ Cardinality(S) \in Nat /\ Cardinality(Reach(u)) \in Nat
             /\ Cardinality(Reach(u)) <= Cardinality(S)
  <2>1. IsFiniteSet(Names)
    BY ListViewBounds
  <2>2. IsFiniteSet(S)
    BY <2>1, FS_Subset
  <2> QED
    BY <1>4, <2>2, FS_Subset, FS_CardinalityType
<1> QED
  BY <1>1, <1>2, <1>3, <1>4

\* Whoever goes to the first page, or widens the search, stays in the list.
LEMMA InRangeFacts ==
    ASSUME NEW u \in Type_url, NEW v \in Type_url
    PROVE  /\ v.page \in {0, 1} => InRange(v)
           /\ InRange(u) /\ v.page = u.page /\ Reach(u) \subseteq Reach(v) => InRange(v)
<1>1. v.page \in {0, 1} => PageOf(v) = 1
  BY DEF PageOf
<1>2. ASSUME InRange(u), v.page = u.page, Reach(u) \subseteq Reach(v) PROVE InRange(v)
  <2>1. PageOf(v) = PageOf(u) /\ PageOf(u) \in Nat
    BY <1>2, ReachFacts DEF PageOf
  <2>2. Cardinality(Reach(u)) <= Cardinality(Reach(v))
        /\ Cardinality(Reach(u)) \in Nat /\ Cardinality(Reach(v)) \in Nat
    BY <1>2, ReachFacts
  <2> DEFINE lo == (PageOf(u) - 1) * PerPage
  <2>3. lo \in Int
    BY <2>1, Constants
  <2> HIDE DEF lo
  <2>4. lo < Cardinality(Reach(u)) => lo < Cardinality(Reach(v))
    BY <2>2, <2>3
  <2> QED
    BY <1>2, <2>1, <2>4 DEF InRange, lo
<1> QED
  BY <1>1, <1>2 DEF InRange

\* The rewriting effects keep pages within the list.
LEMMA UrlsClosed ==
    ASSUME hideInternalTopics \in BOOLEAN, NEW e \in BOOLEAN,
           NEW u \in Type_url, e => InRange(u)
    PROVE  /\ Initial(u) \in Type_url /\ (e => InRange(Initial(u)))
           /\ FirstOfSearch(u) \in Type_url /\ (e => InRange(FirstOfSearch(u)))
<1>1. /\ Initial(u) \in Type_url /\ Initial(u).page = u.page
      /\ Reach(Initial(u)) = Reach(u)
  BY DEF Initial, Type_url, Reach, TextOf
<1>2. FirstOfSearch(u) \in Type_url
  BY DEF FirstOfSearch, Type_url
<1>3. \/ FirstOfSearch(u).page = 1
      \/ FirstOfSearch(u).page = u.page /\ Reach(FirstOfSearch(u)) = Reach(u)
  BY DEF FirstOfSearch, Type_url, Reach, TextOf
<1> QED
  BY <1>1, <1>2, <1>3, InRangeFacts

----------------------------------------------------------------------------
(* Navigation *)

\* The key of an address.
LEMMA KeyTypes ==
    ASSUME list \in Lists, NEW u \in Type_url
    PROVE  KeyOf(u) \in Keys /\ KeyOf(u).q = TextOf(u)
<1>1. /\ TextOf(u) \in Texts \cup {""} /\ PageOf(u) \in Nat /\ PageOf(u) >= 1
      /\ u.hide \in BOOLEAN /\ u.desc \in BOOLEAN /\ u.filter \in Filters \cup {""}
  BY ReachFacts DEF Type_url
<1>2. CASE kind.server
  BY <1>1, <1>2 DEF KeyOf, Keys, Type_key
<1>3. CASE ~kind.server
  BY <1>1, <1>3 DEF KeyOf, Keys, Type_key
<1> QED
  BY <1>2, <1>3

\* The address shown and its query.
LEMMA UrlFacts ==
    ASSUME Types, OnPage
    PROVE  Url \in Urls /\ Url \in Type_url /\ Key \in Keys /\ Key.q = TextOf(Url)
<1>1. Urls \in SUBSET Type_url
  BY DEF Urls
<1>2. Url \in Urls
  BY <1>1, NavFacts DEF Types, OnPage, Url
<1> QED
  BY <1>1, <1>2, KeyTypes DEF Types, Key

\* The table remembers the last query that had data.
LEMMA RememberFacts ==
    ASSUME NEW K, Remember(K)
    PROVE  last' = last \/ last' \in K
BY DEF Remember

\* Fetches begin for queries that are not paused, and forget their failure.
LEMMA StartedFacts ==
    ASSUME Types, NEW K \in SUBSET Keys, Started(K), paused' = paused
    PROVE  /\ fetching' \subseteq Keys /\ failed' \subseteq Keys
           /\ fetching' \cap paused = {}
           /\ \A k \in fetching \cup paused \cup failed \cup DOMAIN cache :
                 k \in fetching' \cup paused \cup failed' \cup DOMAIN cache
           /\ K \subseteq fetching' \cup paused
BY DEF Started, Types, Fetched

\* What every navigation leaves.
LEMMA GoStep ==
    ASSUME Types, KeyKnown,
           NEW G \in SUBSET Type_url, NEW n \in Navs(G),
           \A u \in G : Initial(u) \in G /\ FirstOfSearch(u) \in G,
           NEW text \in Texts \cup {""}, NEW pending \in BOOLEAN,
           Go(n, text, pending)
    PROVE  /\ nav' \in Navs(G)
           /\ box' \in Texts \cup {""} /\ typing' \in BOOLEAN /\ (typing' => OnPage')
           /\ UNCHANGED <<list, cache, paused, asking, present>>
           /\ fetching' \subseteq Keys /\ failed' \subseteq Keys
           /\ fetching' \cap paused = {}
           /\ last' \in DOMAIN cache \cup {NoKey}
           /\ KeyKnown'
<1>1. /\ nav' = Effects(n, Url) /\ nav' \in Navs(G)
      /\ UNCHANGED <<list, cache, paused, asking, present>>
  BY EffectsNav DEF Go
<1>2. CASE At(n) = Elsewhere
  <2>1. /\ last' = NoKey /\ box' = "" /\ typing' = FALSE /\ UNCHANGED <<fetching, failed>>
        /\ ~OnPage'
    BY <1>1, <1>2, EffectsNav DEF Go, OnPage, Url
  <2> QED
    BY <1>1, <2>1 DEF Types, KeyKnown
<1>3. CASE At(n) # Elsewhere
  <2> DEFINE k == KeyOf(At(nav'))
  <2> DEFINE first == KeyOf(At(n))
  <2> DEFINE old == IF OnPage THEN {Key} ELSE {}
  <2>1. At(n) \in Type_url /\ At(nav') \in Type_url
    BY <1>1, <1>3, EffectsNav, NavFacts
  <2>2. k \in Keys /\ first \in Keys /\ TextOf(At(n)) \in Texts \cup {""}
    BY <2>1, KeyTypes, ReachFacts DEF Types
  <2>3. /\ Started({k, first} \ old)
        /\ Remember(IF Fetched(k) THEN {k} ELSE {first} \cap DOMAIN cache)
        /\ box' = IF OnPage THEN text ELSE TextOf(At(n))
        /\ typing' = (OnPage /\ pending)
    BY <1>3 DEF Go
  <2>4. Key' = k /\ OnPage'
    BY <1>1, <2>1, ListUrl DEF Key, KeyOf, kind, Url, OnPage
  <2> HIDE DEF k, first
  <2>5. last' \in DOMAIN cache \cup {NoKey}
    BY <2>3, RememberFacts DEF Types, Fetched
  <2>6. /\ fetching' \subseteq Keys /\ failed' \subseteq Keys /\ fetching' \cap paused = {}
        /\ \A x \in fetching \cup paused \cup failed \cup DOMAIN cache :
              x \in fetching' \cup paused \cup failed' \cup DOMAIN cache
        /\ {k, first} \ old \subseteq fetching' \cup paused
    BY <1>1, <2>2, <2>3, StartedFacts
  <2>7. k \in fetching' \cup paused \cup failed' \cup DOMAIN cache
    BY <2>6 DEF KeyKnown
  <2> QED
    BY <1>1, <2>2, <2>3, <2>4, <2>5, <2>6, <2>7 DEF KeyKnown
<1> QED
  BY <1>2, <1>3

----------------------------------------------------------------------------
(* The ways to navigate *)

\* A navigation within the list, after which ticks stay or go.
Moved ==
    /\ \E n \in Navs(Urls'), text \in Texts \cup {""}, pending \in BOOLEAN :
          Go(n, text, pending)
    /\ \E sel \in {rowSelection, {}} :
          rowSelection' = IF Shown' /\ Key' = Key THEN sel ELSE {}
    /\ hideInternalTopics' \in BOOLEAN /\ leaving' \in BOOLEAN
    /\ strayed' \in BOOLEAN /\ (strayed => strayed')
    /\ ops' \in 0..MaxOps /\ faults' = faults

\* Addresses of the list stay what they are.
LEMMA UrlsGrow ==
    ASSUME list' = list, strayed => strayed'
    PROVE  /\ Urls \subseteq Urls' /\ Navs(Urls) \subseteq Navs(Urls')
           /\ Urls' \in SUBSET Type_url
<1>1. Urls \subseteq Urls' /\ Urls' \subseteq Type_url
  BY DEF Urls, Exact, kind
<1>2. Navs(Urls) \subseteq Navs(Urls')
  BY <1>1 DEF Navs
<1> QED
  BY <1>1, <1>2

\* Visiting an address of the list.
LEMMA VisitNav ==
    ASSUME Types, list' = list, strayed => strayed', NEW u \in Urls'
    PROVE  Pushed(nav, u) \in Navs(Urls')
BY UrlsGrow, PushedNav DEF Types

\* The bound on changes of the address.
LEMMA CountedFacts == ASSUME Types, Counted PROVE ops' \in 0..MaxOps
<1>1. ops \in 0..MaxOps /\ MaxOps \in Nat
  BY Constants DEF Types
<1> QED
  BY <1>1 DEF Counted

\* The pages the footer offers begin at a row of the search.
LEMMA OfferedPage ==
    ASSUME IInv, OnPage, Shown, Exact, Source = Key, NEW p \in Nat, 1 <= p, p <= Count
    PROVE  (p - 1) * PerPage < Cardinality(Reach(Url))
<1>1. ~kind.server /\ Url \in Type_url /\ Key.q = TextOf(Url)
  BY UrlFacts DEF IInv, Exact
<1>2. Key \in DOMAIN cache /\ ToSet(cache[Key].rows) = Accepted(Key.q)
  BY DEF IInv, CacheOK, Types, Shown, Source, Fetched
<1>3. Filtered = Ordered(Reach(Url), Url.desc)
  BY <1>1, <1>2 DEF Filtered, Reach
<1>4. Reach(Url) \in SUBSET Names /\ Url.desc \in BOOLEAN
  BY <1>1, ReachFacts DEF Type_url
<1>5. Filtered \in Seq(Names) /\ Len(Filtered) = Cardinality(Reach(Url))
  BY <1>3, <1>4, OrderedFacts
<1>6. Count = PageCount(Filtered)
  BY <1>1 DEF Count
<1> QED
  BY <1>5, <1>6, PageStarts

\* Unless something strays, the addresses are the same.
LEMMA UrlsSame == ASSUME strayed' = strayed, list' = list PROVE Urls' = Urls
BY DEF Urls, Exact, kind

\* Back and Forward.
LEMMA TraverseMoves ==
    ASSUME Types, NEW step \in {-1, 1}, Traverse(step)
    PROVE  Moved
<1> DEFINE n == [nav EXCEPT !.at = @ + step]
<1>1. /\ Go(n, box, typing) /\ Followed /\ nav.at + step \in 1..Len(nav.entries)
      /\ UNCHANGED <<hideInternalTopics, strayed, leaving, faults>>
      /\ ops' = ops \/ Counted
  BY DEF Traverse
<1>2. list' = list
  BY <1>1 DEF Go
<1>3. /\ nav \in [entries : Seq(Urls \cup {Elsewhere}), at : Nat]
      /\ nav.entries[1] = Elsewhere
      /\ \A i \in 2..Len(nav.entries) : nav.entries[i] \in Urls
  BY DEF Types, Navs
<1>4. nav.at + step \in Nat
  BY <1>1, <1>3
<1>5. n.entries = nav.entries /\ n.at = nav.at + step
      /\ n \in [entries : Seq(Urls \cup {Elsewhere}), at : Nat]
  BY <1>3, <1>4
<1> HIDE DEF n
<1>6. n \in Navs(Urls')
  BY <1>1, <1>2, <1>3, <1>5, UrlsSame DEF Navs
<1> QED
  BY <1>1, <1>6, CountedFacts DEF Moved, Followed, Kept, Types

\* The footer of the table.
LEMMA PageMoves ==
    ASSUME IInv, NEW p \in 1..(Cardinality(Names) + 1), onPaginationChange(p)
    PROVE  Moved
<1> DEFINE u == updatePaginationState(Url, p)
<1>1. /\ OnPage /\ Shown /\ Go(Pushed(nav, u), box, typing) /\ Kept({}) /\ Counted
      /\ strayed' = (strayed \/ p > Count \/ Source # Key)
      /\ UNCHANGED <<hideInternalTopics, leaving, faults>>
  BY DEF onPaginationChange, Visit, Browsing
<1>2. p \in Nat /\ 1 <= p
  <2>1. Cardinality(Names) \in Nat
    BY ListViewBounds, FS_CardinalityType
  <2> QED
    BY <2>1
<1>3. list' = list /\ Url \in Type_url
  BY <1>1, UrlFacts DEF Go, IInv
<1>4. u \in Type_url /\ u.page = p /\ u.q = Url.q /\ u.filter = Url.filter
  BY <1>2, <1>3 DEF updatePaginationState, Type_url
<1> HIDE DEF u
<1>5. Reach(u) = Reach(Url) /\ PageOf(u) = p
  BY <1>2, <1>4 DEF Reach, TextOf, PageOf
<1>6. ASSUME Exact' PROVE Exact /\ ~(p > Count) /\ Source = Key
  BY <1>1, <1>3, <1>6 DEF Exact, kind
<1>7. ASSUME Exact PROVE Count \in Nat
  <2>1. ToSet(cache[Source].rows) \cap Accepted(Url.filter) \in SUBSET Names
        /\ Url.desc \in BOOLEAN
    BY <1>3, AcceptedFacts DEF Type_url
  <2>2. Count = PageCount(Filtered) /\ Filtered \in Seq(Names)
    BY <1>7, <2>1, OrderedFacts DEF Count, Filtered, Exact
  <2> QED
    BY <2>2, PageStarts
<1>8. ASSUME Exact' PROVE InRange(u)
  <2>1. p <= Count
    BY <1>2, <1>6, <1>7, <1>8
  <2> QED
    BY <1>1, <1>2, <1>5, <1>6, <1>8, <2>1, OfferedPage DEF InRange
<1>9. u \in Urls'
  <2>1. Urls' = {x \in Type_url : Exact' => InRange(x)}
    BY DEF Urls, InRange, Reach, TextOf, PageOf
  <2> QED
    BY <1>4, <1>8, <2>1
<1>10. Pushed(nav, u) \in Navs(Urls')
  BY <1>1, <1>3, <1>9, VisitNav DEF IInv
<1> QED
  BY <1>1, <1>10, CountedFacts DEF Moved, Kept, IInv, Types, u

\* The others.
LEMMA MoveSteps ==
    ASSUME IInv,
           \/ Open \/ \E step \in {-1, 1} : Traverse(step)
           \/ handleChange \/ (clearSearchValue /\ TextOf(Url) # "") \/ handleSwitch
           \/ onSortingChange
           \/ \E p \in 1..(Cardinality(Names) + 1) : onPaginationChange(p)
           \/ \E f \in Filters \cup {""} : onFilterChange(f)
    PROVE  Moved
<1> USE DEF IInv
<1>0. /\ box \in Texts \cup {""} /\ typing \in BOOLEAN
      /\ hideInternalTopics \in BOOLEAN /\ leaving \in BOOLEAN
      /\ strayed \in BOOLEAN /\ ops \in 0..MaxOps /\ list \in Lists
      /\ TRUE \in BOOLEAN /\ FALSE \in BOOLEAN
  BY DEF Types
<1>1. ASSUME strayed' = strayed, list' = list PROVE Urls' = Urls
  BY <1>1 DEF Urls, Exact, kind
<1>2. OnPage => Url \in Urls /\ Url \in Type_url
  BY UrlFacts
<1>3. ASSUME NEW u \in Type_url, u.page \in {0, 1} PROVE u \in Urls
  BY <1>3, InRangeFacts DEF Urls
<1>4. CASE Open
  <2>1. Linked \in Type_url /\ Linked.page = 0
    BY DEF Linked, Type_url
  <2>2. /\ Go(Pushed(nav, Linked), box, typing) /\ Kept({})
        /\ UNCHANGED <<hideInternalTopics, strayed, leaving, faults>> /\ Counted
    BY <1>4 DEF Open
  <2>3. list' = list
    BY <2>2 DEF Go
  <2>4. Pushed(nav, Linked) \in Navs(Urls')
    BY <1>1, <1>3, <2>1, <2>2, <2>3, VisitNav
  <2> QED
    BY <1>0, <2>2, <2>4, CountedFacts DEF Moved, Kept
<1>5. ASSUME NEW step \in {-1, 1}, Traverse(step) PROVE Moved
  BY <1>5, TraverseMoves
<1>6. ASSUME NEW u \in Urls, NEW text \in Texts \cup {""}, NEW pending \in BOOLEAN,
             Go(Pushed(nav, u), text, pending), Followed, strayed' = strayed,
             hideInternalTopics' \in BOOLEAN, leaving' = leaving, faults' = faults,
             ops' = ops \/ Counted
      PROVE  Moved
  <2>1. list' = list
    BY <1>6 DEF Go
  <2>2. Pushed(nav, u) \in Navs(Urls')
    BY <1>1, <1>6, <2>1, VisitNav
  <2> QED
    BY <1>0, <1>6, <2>2, CountedFacts DEF Moved, Followed, Kept
<1>7. CASE handleChange
  <2>1. OnPage /\ Searched(Url) \in Type_url /\ Searched(Url).page \in {0, 1}
    BY <1>0, <1>2, <1>7 DEF handleChange, Types, Searched, Type_url
  <2> QED
    BY <1>0, <1>3, <1>6, <1>7, <2>1 DEF handleChange
<1>8. CASE clearSearchValue /\ TextOf(Url) # ""
  <2> DEFINE u == [Url EXCEPT !.q = ""]
  <2>1. Url \in Urls /\ u \in Type_url /\ u.page = Url.page
        /\ TextOf(u) = "" /\ u.filter = Url.filter
    BY <1>2, <1>8 DEF clearSearchValue, Browsing, Type_url, TextOf
  <2>2. Reach(Url) \subseteq Reach(u)
    BY <1>2, <1>8, <2>1, AcceptedFacts, ReachFacts
    DEF Reach, clearSearchValue, Browsing
  <2>3. u \in Urls
    BY <2>1, <2>2, InRangeFacts DEF Urls
  <2>4. Go(Pushed(nav, u), "", typing) /\ Followed /\ Counted
        /\ UNCHANGED <<hideInternalTopics, strayed, leaving, faults>>
    BY <1>8 DEF clearSearchValue
  <2> HIDE DEF u
  <2> QED
    BY <1>0, <1>6, <2>3, <2>4
<1>9. CASE handleSwitch
  <2> DEFINE u == [Url EXCEPT !.hide = ~@, !.page = 1]
  <2>1. u \in Type_url /\ u.page = 1 /\ hideInternalTopics' \in BOOLEAN
    BY <1>2, <1>9 DEF handleSwitch, Browsing, Type_url
  <2>2. Go(Pushed(nav, u), box, typing) /\ Followed /\ Counted
        /\ UNCHANGED <<strayed, leaving, faults>>
    BY <1>9 DEF handleSwitch, Visit
  <2> HIDE DEF u
  <2> QED
    BY <1>0, <1>3, <1>6, <2>1, <2>2
<1>10. CASE onSortingChange
  <2> DEFINE u == updateSortingState(Url)
  <2>1. u \in Type_url /\ u.page = Url.page /\ Reach(u) = Reach(Url) /\ Url \in Urls
    BY <1>2, <1>10
    DEF onSortingChange, Browsing, updateSortingState, Type_url, Reach, TextOf
  <2>2. Go(Pushed(nav, u), box, typing) /\ Followed /\ Counted
        /\ UNCHANGED <<hideInternalTopics, strayed, leaving, faults>>
    BY <1>10 DEF onSortingChange, Visit
  <2> HIDE DEF u
  <2>3. u \in Urls
    BY <2>1, InRangeFacts DEF Urls
  <2> QED
    BY <1>0, <1>6, <2>2, <2>3
<1>11. ASSUME NEW p \in 1..(Cardinality(Names) + 1), onPaginationChange(p)
       PROVE  Moved
  BY <1>11, PageMoves
<1>12. ASSUME NEW f \in Filters \cup {""}, onFilterChange(f) PROVE Moved
  <2> DEFINE u == update(Url, f)
  <2>1. u \in Type_url /\ u.page = 0
    BY <1>2, <1>12 DEF onFilterChange, Browsing, update, Type_url
  <2>2. Go(Pushed(nav, u), box, typing) /\ Followed /\ Counted
        /\ UNCHANGED <<hideInternalTopics, strayed, leaving, faults>>
    BY <1>12 DEF onFilterChange, Visit
  <2> HIDE DEF u
  <2> QED
    BY <1>0, <1>3, <1>6, <2>1, <2>2
<1> QED
  BY <1>4, <1>5, <1>7, <1>8, <1>9, <1>10, <1>11, <1>12

----------------------------------------------------------------------------
(* What the steps do *)

\* A tab shows one list.
LEMMA ListStays == ASSUME [Next]_vars PROVE list' = list
BY DEF Next, User, Environment, vars, Open, Traverse, GiveUp, Type,
       clearSearchValue, handleSwitch, onSortingChange, onPaginationChange,
       onFilterChange, Tick, Ask, Cancel, Confirm, handleDownload, Answer, Fail,
       Pause, Continue, Refetch, Vanish, Done, Refused, Downloaded, DownloadFails,
       handleChange, Visit, Go, pages, others

\* Steps on the page that fetch nothing and tick nothing.
Asks ==
    \/ GiveUp \/ \E text \in Texts \cup {""} : Type(text)
    \/ (clearSearchValue /\ TextOf(Url) = "")
    \/ \E action \in {"delete", "purge"} : Ask(action)
    \/ Cancel \/ Confirm \/ handleDownload \/ Downloaded \/ DownloadFails
\* Steps of queries and requests.
Fetches ==
    \/ \E k \in fetching : Answer(k) \/ Fail(k) \/ Pause(k)
    \/ \E k \in paused : Continue(k)
    \/ Refetch \/ \E r \in batch : Done(r) \/ Refused(r)
Ticks == \E S \in SUBSET Names : Tick(S)
Vanishes == \E i \in Names : Vanish(i)

\* Every step is one of these.
LEMMA NextCases ==
    ASSUME IInv, [Next]_vars
    PROVE  \/ UNCHANGED vars \/ Moved \/ Asks \/ Fetches \/ Ticks \/ Vanishes
BY MoveSteps DEF Next, User, Environment, Asks, Fetches, Ticks, Vanishes

\* A page that is not left.
LEMMA StillFrame ==
    ASSUME list' = list, nav' = nav
    PROVE  Key' = Key /\ OnPage' = OnPage /\ Url' = Url /\ Keys' = Keys /\ kind' = kind
BY DEF Key, KeyOf, kind, OnPage, Url, Keys

\* A history that is not touched.
LEMMA StillNav ==
    ASSUME Types, list' = list, nav' = nav, strayed => strayed'
    PROVE  (nav \in Navs(Urls))'
BY UrlsGrow DEF Types

\* The bound on faults.
LEMMA FaultFacts == ASSUME Types, Fault PROVE faults' \in 0..MaxFaults
<1>1. faults \in 0..MaxFaults /\ MaxFaults \in Nat
  BY Constants DEF Types
<1> QED
  BY <1>1 DEF Fault

\* An answer of the servers.
LEMMA ResponseFacts ==
    ASSUME list \in Lists, present \subseteq Names, NEW k \in Keys
    PROVE  /\ Response(k) \in Answers
           /\ kind.server /\ Response(k).rows = <<>> => Response(k).total = 0
           /\ ~kind.server /\ present = Names => ToSet(Response(k).rows) = Accepted(k.q)
<1>1. /\ k.desc \in BOOLEAN /\ k.hide \in BOOLEAN /\ k.page \in Nat
      /\ k.q \in Texts \cup {""} /\ k.filter \in Filters \cup {""}
      /\ kind.server => k.page >= 1
      /\ ~kind.server => k.filter = "" /\ k.hide = FALSE
  BY DEF Keys, Type_key
<1>2. Matches(k) \in SUBSET Names
  BY DEF Matches
<1>3. CASE kind.server
  <2> DEFINE rows == Ordered(Matches(k), k.desc)
  <2> DEFINE count == PageCount(rows)
  <2> DEFINE p == Clamped(k.page, count)
  <2>1. Response(k) = [rows |-> Cut(rows, p), count |-> count, total |-> Len(rows)]
    BY <1>3 DEF Response, filterSortPage
  <2>2. rows \in Seq(Names)
    BY <1>1, <1>2, OrderedFacts
  <2> HIDE DEF rows
  <2>3. Len(rows) \in Nat
    BY <2>2
  <2>4. /\ count \in Nat /\ (count = 0 => Len(rows) = 0)
        /\ \A x \in Nat : 1 <= x /\ x <= count => (x - 1) * PerPage < Len(rows)
    BY <2>2, PageStarts
  <2> HIDE DEF count
  <2>5. p \in Nat /\ 1 <= p /\ (count > 0 => p <= count)
    <3>1. count \in Nat /\ k.page \in Nat /\ k.page >= 1
      BY <1>1, <1>3, <2>4, Zenon
    <3> QED
      BY <3>1 DEF Clamped
  <2> HIDE DEF p
  <2>6. /\ Cut(rows, p) \in Seq(Names)
        /\ (p - 1) * PerPage < Len(rows) => Cut(rows, p) # <<>>
    BY <2>2, <2>5, CutFacts
  <2>7. Cut(rows, p) = <<>> => Len(rows) = 0
    BY <2>4, <2>5, <2>6
  <2> QED
    BY <1>3, <2>1, <2>3, <2>4, <2>6, <2>7 DEF Answers
<1>4. CASE ~kind.server
  <2> DEFINE rows == Ordered(Matches(k), FALSE)
  <2>1. Response(k) = [rows |-> rows, count |-> 0, total |-> Len(rows)]
    BY <1>4 DEF Response, Unpaged
  <2>2. rows \in Seq(Names) /\ ToSet(rows) = Matches(k)
    <3>1. FALSE \in BOOLEAN
      OBVIOUS
    <3> QED
      BY <1>2, <3>1, OrderedFacts
  <2>3. present = Names => Matches(k) = Accepted(k.q)
    BY <1>1, <1>4, AcceptedFacts DEF Matches
  <2> HIDE DEF rows
  <2>4. Len(rows) \in Nat
    BY <2>2
  <2> QED
    BY <1>4, <2>1, <2>2, <2>3, <2>4 DEF Answers
<1> QED
  BY <1>3, <1>4

----------------------------------------------------------------------------
(* Types *)

\* What a navigation leaves, for the invariant.
LEMMA MovedFacts ==
    ASSUME IInv, Moved
    PROVE  /\ nav' \in Navs(Urls')
           /\ box' \in Texts \cup {""} /\ typing' \in BOOLEAN /\ (typing' => OnPage')
           /\ UNCHANGED <<list, cache, paused, asking, present>>
           /\ fetching' \subseteq Keys /\ failed' \subseteq Keys
           /\ fetching' \cap paused = {}
           /\ last' \in DOMAIN cache \cup {NoKey}
           /\ KeyKnown'
<1>1. PICK n \in Navs(Urls'), text \in Texts \cup {""}, pending \in BOOLEAN :
         Go(n, text, pending)
  BY DEF Moved
<1>2. Urls' = {u \in Type_url : Exact' => InRange(u)}
  BY DEF Urls, InRange, Reach, TextOf, PageOf
<1>3. Urls' \in SUBSET Type_url
  BY <1>2
<1>4. Exact' \in BOOLEAN
  BY DEF Exact
<1>5. hideInternalTopics \in BOOLEAN
  BY DEF IInv, Types
<1>6. ASSUME NEW u \in Urls'
      PROVE  Initial(u) \in Urls' /\ FirstOfSearch(u) \in Urls'
  <2>1. u \in Type_url /\ (Exact' => InRange(u))
    BY <1>2
  <2> QED
    BY <1>2, <1>4, <1>5, <2>1, UrlsClosed
<1>7. Types /\ KeyKnown
  BY DEF IInv
<1> QED
  BY <1>1, <1>3, <1>6, <1>7, GoStep

\* Types after a navigation.
LEMMA MovedTypes == ASSUME IInv, Moved PROVE Types'
<1>1. list' = list /\ UNCHANGED <<cache, paused, asking, present>>
  BY MovedFacts
<1>2. Keys' = Keys
  BY <1>1 DEF Keys, kind
<1>3. /\ rowSelection' \in {rowSelection, {}}
      /\ hideInternalTopics' \in BOOLEAN /\ leaving' \in BOOLEAN /\ strayed' \in BOOLEAN
      /\ ops' \in 0..MaxOps /\ faults' = faults
  BY DEF Moved
<1> QED
  BY <1>1, <1>2, <1>3, MovedFacts DEF IInv, Types, asking

\* Types after a step of the dialog, the box or an export.
LEMMA AsksTypes == ASSUME IInv, Asks PROVE Types'
<1> USE DEF IInv
<1>1. /\ UNCHANGED <<list, nav, hideInternalTopics, present, data, strayed>>
      /\ rowSelection' \in {rowSelection, {}}
  BY DEF Asks, GiveUp, Type, clearSearchValue, Followed, Kept, Ask, Cancel,
         Confirm, handleDownload, Downloaded, DownloadFails, others, data
<1>2. Keys' = Keys /\ (nav \in Navs(Urls))' /\ OnPage' = OnPage
  BY <1>1, StillFrame, StillNav
<1>3. box' \in Texts \cup {""} /\ typing' \in BOOLEAN /\ (typing' => OnPage)
  <2>1. ASSUME NEW text \in Texts \cup {""}, Type(text)
        PROVE  box' = text /\ typing' = TRUE /\ OnPage
    BY <2>1 DEF Type, Browsing
  <2>2. ASSUME clearSearchValue, TextOf(Url) = "" PROVE box' = "" /\ typing' = typing
    BY <2>2 DEF clearSearchValue
  <2>3. \/ UNCHANGED <<box, typing>>
        \/ \E text \in Texts \cup {""} : Type(text)
        \/ clearSearchValue /\ TextOf(Url) = ""
    BY DEF Asks, GiveUp, Ask, Cancel, Confirm, handleDownload, Downloaded,
           DownloadFails, others, input
  <2>4. box \in Texts \cup {""} /\ typing \in BOOLEAN /\ (typing => OnPage)
    BY DEF Types
  <2>5. CASE UNCHANGED <<box, typing>>
    BY <2>4, <2>5
  <2>6. CASE \E text \in Texts \cup {""} : Type(text)
    BY <2>1, <2>6
  <2>7. CASE clearSearchValue /\ TextOf(Url) = ""
    <3>1. box' = "" /\ typing' = typing
      BY <2>2, <2>7, Zenon
    <3> QED
      BY <2>4, <3>1
  <2> QED
    BY <2>3, <2>5, <2>6, <2>7
<1>4. leaving' \in BOOLEAN
  BY DEF Asks, GiveUp, Type, clearSearchValue, Ask, Cancel, Confirm,
         handleDownload, Downloaded, DownloadFails, others, Types
<1>5. ops' \in 0..MaxOps
  <2>1. ops' = ops \/ Counted
    BY DEF Asks, GiveUp, Type, clearSearchValue, Ask, Cancel, Confirm,
           handleDownload, Downloaded, DownloadFails
  <2> QED
    BY <2>1, CountedFacts DEF Types
<1>6. faults' \in 0..MaxFaults
  <2>1. faults' = faults \/ Fault
    BY DEF Asks, GiveUp, Type, clearSearchValue, Ask, Cancel, Confirm,
           handleDownload, Downloaded, DownloadFails, others
  <2> QED
    BY <2>1, FaultFacts DEF Types
<1>7. dialog' \in Dialogs /\ batch' \subseteq Requests
  <2>1. dialog \in Dialogs /\ batch \subseteq Requests /\ NoDialog \in Dialogs
    BY DEF Types, Dialogs, NoDialog
  <2>2. ASSUME NEW action \in {"delete", "purge"}, Ask(action)
        PROVE  dialog' \in Dialogs /\ batch' = batch
    <3>1. selectedTopics \subseteq Names \ Internal
      BY DEF Types, selectedTopics
    <3> QED
      BY <2>2, <3>1 DEF Ask, NoDialog, Dialogs
  <2>3. ASSUME Confirm PROVE dialog' \in Dialogs /\ batch' \subseteq Requests
    <3>1. dialog.names \subseteq Names /\ dialog.action \in {"", "delete", "purge"}
          /\ [dialog EXCEPT !.running = TRUE] \in Dialogs
      BY <2>1 DEF Dialogs
    <3>2. ASSUME NEW i \in dialog.names
          PROVE  [name |-> i, action |-> dialog.action, awaited |-> TRUE] \in Requests
      BY <3>1 DEF Requests
    <3>3. batch' = batch \cup {[name |-> i, action |-> dialog.action,
                                awaited |-> TRUE] : i \in dialog.names}
      BY <2>3 DEF Confirm, Batch
    <3>4. dialog' \in {NoDialog, [dialog EXCEPT !.running = TRUE]}
      BY <2>3 DEF Confirm
    <3> QED
      BY <2>1, <3>1, <3>2, <3>3, <3>4
  <2>4. CASE UNCHANGED <<dialog, batch>>
    BY <2>1, <2>4
  <2>5. CASE Cancel
    BY <2>1, <2>5 DEF Cancel
  <2>6. \/ UNCHANGED <<dialog, batch>> \/ Cancel \/ Confirm
        \/ \E action \in {"delete", "purge"} : Ask(action)
    BY DEF Asks, GiveUp, Type, clearSearchValue, handleDownload, Downloaded,
           DownloadFails, asking
  <2> QED
    BY <2>1, <2>2, <2>3, <2>4, <2>5, <2>6
<1> QED
  BY <1>1, <1>2, <1>3, <1>4, <1>5, <1>6, <1>7 DEF Types, data

\* Types after a tick.
LEMMA TicksTypes == ASSUME IInv, Ticks PROVE Types'
<1>1. PICK S \in SUBSET Names : Tick(S)
  BY DEF Ticks
<1>2. /\ UNCHANGED <<list, nav, box, typing, hideInternalTopics, present, data,
                     strayed, leaving, faults, dialog, batch>>
      /\ Counted /\ rowSelection' = SymDiff(rowSelection, S) /\ S \subseteq Selectable
  BY <1>1 DEF Tick, others, input, asking
<1>3. Keys' = Keys /\ (nav \in Navs(Urls))' /\ OnPage' = OnPage
  BY <1>2, StillFrame, StillNav DEF IInv
<1>4. ops' \in 0..MaxOps
  BY <1>2, CountedFacts DEF IInv
<1>5. rowSelection' \subseteq Names \ Internal
  BY <1>1, <1>2 DEF IInv, Types, SymDiff, Selectable
<1> QED
  BY <1>2, <1>3, <1>4, <1>5 DEF IInv, Types, data

\* Types after an item has vanished.
LEMMA VanishesTypes == ASSUME IInv, Vanishes PROVE Types'
<1>1. PICK i \in Names : Vanish(i)
  BY DEF Vanishes
<1>2. /\ UNCHANGED <<list, nav, box, typing, hideInternalTopics, data, leaving, ops,
                     dialog, batch, rowSelection>>
      /\ Fault /\ present' \subseteq present /\ strayed' = TRUE
  BY <1>1 DEF Vanish, input, asking
<1>3. Keys' = Keys /\ (nav \in Navs(Urls))' /\ OnPage' = OnPage
  BY <1>2, StillFrame, StillNav DEF IInv
<1>4. faults' \in 0..MaxFaults
  BY <1>2, FaultFacts DEF IInv
<1> QED
  BY <1>2, <1>3, <1>4 DEF IInv, Types, data

\* What the steps of queries and requests leave alone.
LEMMA FetchesFrame ==
    ASSUME IInv, Fetches
    PROVE  /\ UNCHANGED <<list, nav, box, typing, hideInternalTopics, strayed, leaving,
                          ops, agreed, download>>
           /\ rowSelection' \in {rowSelection, {}}
           /\ rowSelection' # {} => Shown'
           /\ faults' \in 0..MaxFaults
           /\ Keys' = Keys /\ Key' = Key /\ OnPage' = OnPage /\ Url' = Url /\ kind' = kind
<1>1. /\ UNCHANGED <<list, nav, box, typing, hideInternalTopics, strayed, leaving,
                     ops, agreed, download>>
      /\ \E sel \in {rowSelection, {}} : Kept(sel)
      /\ faults' = faults \/ Fault
  BY DEF Fetches, Answer, Fail, Pause, Continue, Refetch, Done, Refused, pages,
         input, asking
<1>2. faults' \in 0..MaxFaults
  BY <1>1, FaultFacts DEF IInv, Types
<1>3. rowSelection' \in {rowSelection, {}} /\ (rowSelection' # {} => Shown')
  BY <1>1 DEF Kept
<1> QED
  BY <1>1, <1>2, <1>3, StillFrame

\* What an answer of a query changes.
LEMMA AnswerFacts ==
    ASSUME IInv, NEW k \in fetching, Answer(k)
    PROVE  /\ fetching' = fetching \ {k} /\ failed' = failed \ {k}
           /\ UNCHANGED <<present, paused, dialog, batch>>
           /\ DOMAIN cache' = DOMAIN cache \cup {k}
           /\ cache'[k] = Response(k) /\ k \in Keys
           /\ \A x \in DOMAIN cache : x # k => cache'[x] = cache[x]
           /\ cache' \in [DOMAIN cache' -> Answers]
           /\ last' = last \/ (OnPage /\ k = Key /\ last' = k)
<1>1. /\ fetching' = fetching \ {k} /\ failed' = failed \ {k}
      /\ UNCHANGED <<present, paused, dialog, batch>>
      /\ cache' = [x \in DOMAIN cache \cup {k} |-> IF x = k THEN Response(k) ELSE cache[x]]
      /\ Remember(IF OnPage THEN {Key} \cap {k} ELSE {})
  BY DEF Answer, pages, asking
<1>2. k \in Keys /\ list \in Lists /\ present \subseteq Names
      /\ cache \in [DOMAIN cache -> Answers]
  BY DEF IInv, Types
<1>3. Response(k) \in Answers
  BY <1>2, ResponseFacts
<1>4. last' = last \/ last' \in (IF OnPage THEN {Key} \cap {k} ELSE {})
  BY <1>1, RememberFacts
<1> QED
  BY <1>1, <1>2, <1>3, <1>4

\* What the others change.
LEMMA OtherFetches ==
    ASSUME IInv, Fetches, ~\E k \in fetching : Answer(k)
    PROVE  /\ UNCHANGED <<cache, last>>
           /\ fetching' \subseteq Keys /\ paused' \subseteq Keys /\ failed' \subseteq Keys
           /\ fetching' \cap paused' = {}
           /\ \A k \in fetching \cup paused \cup failed \cup DOMAIN cache :
                 k \in fetching' \cup paused' \cup failed' \cup DOMAIN cache
<1>1. UNCHANGED <<cache, last>>
  BY DEF Fetches, Fail, Pause, Continue, Refetch, Done, Refused
<1>2. fetching \subseteq Keys /\ paused \subseteq Keys /\ failed \subseteq Keys
      /\ fetching \cap paused = {}
  BY DEF IInv, Types
<1>3. CASE \E k \in fetching : Fail(k) \/ Pause(k)
  BY <1>1, <1>2, <1>3 DEF Fail, Pause
<1>4. CASE \E k \in paused : Continue(k)
  BY <1>1, <1>2, <1>4 DEF Continue
<1>5. CASE /\ paused' = paused
           /\ UNCHANGED <<fetching, failed>> \/ (OnPage /\ Started({Key}))
  <2>1. OnPage => {Key} \in SUBSET Keys
    BY UrlFacts DEF IInv
  <2> QED
    BY <1>1, <1>2, <1>5, <2>1, StartedFacts DEF IInv
<1>6. \/ \E k \in fetching : Fail(k) \/ Pause(k)
      \/ \E k \in paused : Continue(k)
      \/ /\ paused' = paused
         /\ UNCHANGED <<fetching, failed>> \/ (OnPage /\ Started({Key}))
  BY DEF Fetches, Refetch, Done, Refused, Invalidate
<1> QED
  BY <1>3, <1>4, <1>5, <1>6

\* What becomes of the requests.
LEMMA RequestFacts ==
    ASSUME IInv, Fetches
    PROVE  /\ dialog' \in {dialog, NoDialog} /\ batch' \subseteq Requests
           /\ present' \subseteq present
           /\ present' # present => batch # {}
<1>1. batch \subseteq Requests
  BY DEF IInv, Types
<1>2. ASSUME NEW r \in batch, Done(r)
      PROVE  /\ dialog' \in {dialog, NoDialog} /\ batch' \subseteq Requests
             /\ present' \subseteq present
  BY <1>1, <1>2 DEF Done
<1>3. ASSUME NEW r \in batch, Refused(r)
      PROVE  /\ dialog' \in {dialog, NoDialog} /\ batch' \subseteq Requests
             /\ present' = present
  <2>1. ASSUME NEW x \in Requests PROVE [x EXCEPT !.awaited = FALSE] \in Requests
    BY <2>1 DEF Requests
  <2> QED
    BY <1>1, <1>3, <2>1 DEF Refused
<1>4. \/ UNCHANGED <<dialog, batch, present>>
      \/ \E r \in batch : Done(r) \/ Refused(r)
  BY DEF Fetches, Answer, Fail, Pause, Continue, Refetch, pages, asking
<1> QED
  BY <1>1, <1>2, <1>3, <1>4

\* Types after a step of a query or a request.
LEMMA FetchesTypes == ASSUME IInv, Fetches PROVE Types'
<1>1. /\ dialog' \in Dialogs /\ batch' \subseteq Requests /\ present' \subseteq Names
  <2>1. NoDialog \in Dialogs
    BY DEF NoDialog, Dialogs
  <2> QED
    BY <2>1, RequestFacts DEF IInv, Types
<1>2. (nav \in Navs(Urls))'
  BY FetchesFrame, StillNav DEF IInv
<1>3. /\ fetching' \subseteq Keys /\ paused' \subseteq Keys /\ failed' \subseteq Keys
      /\ fetching' \cap paused' = {}
      /\ DOMAIN cache' \subseteq Keys /\ cache' \in [DOMAIN cache' -> Answers]
      /\ last' \in DOMAIN cache' \cup {NoKey}
  <2>1. CASE \E k \in fetching : Answer(k)
    <3>1. PICK k \in fetching : Answer(k)
      BY <2>1
    <3>2. /\ fetching' = fetching \ {k} /\ failed' = failed \ {k} /\ paused' = paused
          /\ DOMAIN cache' = DOMAIN cache \cup {k} /\ k \in Keys
          /\ cache' \in [DOMAIN cache' -> Answers]
          /\ last' \in {last, k}
      BY <3>1, AnswerFacts
    <3>3. /\ fetching \subseteq Keys /\ paused \subseteq Keys /\ failed \subseteq Keys
          /\ fetching \cap paused = {} /\ DOMAIN cache \subseteq Keys
          /\ last \in DOMAIN cache \cup {NoKey}
      BY DEF IInv, Types
    <3> QED
      BY <3>2, <3>3
  <2>2. CASE ~\E k \in fetching : Answer(k)
    BY <2>2, OtherFetches DEF IInv, Types
  <2> QED
    BY <2>1, <2>2
<1>4. /\ list' \in Lists /\ box' \in Texts \cup {""} /\ typing' \in BOOLEAN
      /\ (typing' => OnPage') /\ hideInternalTopics' \in BOOLEAN
      /\ rowSelection' \subseteq Names \ Internal
      /\ strayed' \in BOOLEAN /\ leaving' \in BOOLEAN
      /\ ops' \in 0..MaxOps /\ faults' \in 0..MaxFaults /\ Keys' = Keys
  <2>1. /\ UNCHANGED <<list, box, typing, hideInternalTopics, strayed, leaving, ops>>
        /\ rowSelection' \in {rowSelection, {}} /\ faults' \in 0..MaxFaults
        /\ Keys' = Keys /\ OnPage' = OnPage
    BY FetchesFrame
  <2>2. /\ list \in Lists /\ box \in Texts \cup {""} /\ typing \in BOOLEAN
        /\ (typing => OnPage) /\ hideInternalTopics \in BOOLEAN
        /\ rowSelection \subseteq Names \ Internal
        /\ strayed \in BOOLEAN /\ leaving \in BOOLEAN /\ ops \in 0..MaxOps
    BY DEF IInv, Types
  <2>3. typing' \in BOOLEAN /\ (typing' => OnPage')
    BY <2>1, <2>2
  <2> QED
    BY <2>1, <2>2, <2>3
<1> QED
  BY <1>1, <1>2, <1>3, <1>4 DEF Types

\* Every step keeps the types.
LEMMA NextTypes == ASSUME IInv, [Next]_vars PROVE Types'
<1>1. CASE UNCHANGED vars
  <2>1. UNCHANGED <<list, nav, input, hideInternalTopics, present, data, rowSelection,
                    asking, strayed, leaving, ops, faults>>
    BY <1>1 DEF vars
  <2>2. Keys' = Keys /\ (nav \in Navs(Urls))' /\ OnPage' = OnPage
    BY <2>1, StillFrame, StillNav DEF IInv
  <2> QED
    BY <2>1, <2>2 DEF IInv, Types, input, data, asking
<1> QED
  BY <1>1, NextCases, MovedTypes, AsksTypes, FetchesTypes, TicksTypes, VanishesTypes

----------------------------------------------------------------------------
(* The caches *)

\* Steps that leave the answers and the cluster alone.
LEMMA CacheKept ==
    ASSUME CacheOK, UNCHANGED <<list, cache, present>>, strayed => strayed'
    PROVE  CacheOK'
<1>1. kind' = kind /\ (Exact' => Exact)
  BY DEF kind, Exact
<1> QED
  BY <1>1 DEF CacheOK

\* Only the topics are deleted from here.
LEMMA SameCluster ==
    ASSUME IInv, Fetches, Exact
    PROVE  present' = present
<1>1. ~kind.selectable
  BY KindFacts DEF IInv, Types, Exact
<1>2. batch = {}
  BY <1>1 DEF IInv, BatchOK
<1> QED
  BY <1>2, RequestFacts

\* Every step keeps what the caches say.
LEMMA NextCache == ASSUME IInv, [Next]_vars PROVE CacheOK'
<1>1. list' = list
  BY ListStays
<1>2. CASE Moved
  <2>1. UNCHANGED <<cache, present>> /\ (strayed => strayed')
    BY <1>2, MovedFacts DEF Moved
  <2> QED
    BY <1>1, <2>1, CacheKept DEF IInv
<1>3. CASE UNCHANGED vars \/ Asks \/ Ticks
  <2>1. UNCHANGED <<cache, present, strayed>>
    BY <1>3 DEF vars, Asks, GiveUp, Type, clearSearchValue, Ask, Cancel, Confirm,
                handleDownload, Downloaded, DownloadFails, Ticks, Tick, others, data
  <2> QED
    BY <1>1, <2>1, CacheKept DEF IInv
<1>4. CASE Fetches
  <2>1. kind' = kind /\ Exact' = Exact
    BY <1>4, FetchesFrame DEF Exact
  <2>2. Exact => present' = Names
    BY <1>4, SameCluster DEF IInv, CacheOK
  <2>3. CASE \E k \in fetching : Answer(k)
    <3>1. PICK k \in fetching : Answer(k)
      BY <2>3
    <3>2. /\ DOMAIN cache' = DOMAIN cache \cup {k}
          /\ cache'[k] = Response(k) /\ k \in Keys
          /\ \A x \in DOMAIN cache : x # k => cache'[x] = cache[x]
      BY <3>1, AnswerFacts
    <3>3. /\ kind.server /\ Response(k).rows = <<>> => Response(k).total = 0
          /\ Exact => ToSet(Response(k).rows) = Accepted(k.q)
      BY <3>2, ResponseFacts DEF IInv, Types, CacheOK, Exact
    <3>4. ASSUME kind.server, NEW x \in DOMAIN cache', cache'[x].rows = <<>>
          PROVE  cache'[x].total = 0
      BY <3>2, <3>3, <3>4 DEF IInv, CacheOK
    <3>5. ASSUME Exact, NEW x \in DOMAIN cache'
          PROVE  ToSet(cache'[x].rows) = Accepted(x.q)
      BY <3>2, <3>3, <3>5 DEF IInv, CacheOK
    <3> QED
      BY <2>1, <2>2, <3>4, <3>5 DEF CacheOK
  <2>4. CASE ~\E k \in fetching : Answer(k)
    <3>1. cache' = cache
      BY <1>4, <2>4, OtherFetches
    <3> QED
      BY <2>1, <2>2, <3>1 DEF IInv, CacheOK
  <2> QED
    BY <2>3, <2>4
<1>5. CASE Vanishes
  <2>1. cache' = cache /\ strayed' = TRUE
    BY <1>5 DEF Vanishes, Vanish, data
  <2>2. kind' = kind /\ ~Exact'
    BY <1>1, <2>1 DEF kind, Exact
  <2> QED
    BY <2>1, <2>2 DEF IInv, CacheOK
<1> QED
  BY <1>2, <1>3, <1>4, <1>5, NextCases

----------------------------------------------------------------------------
(* The query of the address *)

\* The query of the address stays known.
LEMMA NextKey == ASSUME IInv, [Next]_vars PROVE KeyKnown'
<1>1. CASE Moved
  BY <1>1, MovedFacts
<1>2. CASE UNCHANGED vars \/ Asks \/ Ticks \/ Vanishes
  <2>1. UNCHANGED <<list, nav, cache, fetching, paused, failed>>
    BY <1>2 DEF vars, Asks, GiveUp, Type, clearSearchValue, Ask, Cancel, Confirm,
                handleDownload, Downloaded, DownloadFails, Ticks, Tick, Vanishes,
                Vanish, others, data
  <2> QED
    BY <2>1, StillFrame DEF IInv, KeyKnown
<1>3. CASE Fetches
  <2>1. Key' = Key /\ OnPage' = OnPage
    BY <1>3, FetchesFrame
  <2>2. CASE \E k \in fetching : Answer(k)
    <3>1. PICK k \in fetching : Answer(k)
      BY <2>2
    <3> QED
      BY <2>1, <3>1, AnswerFacts DEF IInv, KeyKnown
  <2>3. CASE ~\E k \in fetching : Answer(k)
    BY <1>3, <2>1, <2>3, OtherFetches DEF IInv, KeyKnown
  <2> QED
    BY <2>2, <2>3
<1> QED
  BY <1>1, <1>2, <1>3, NextCases

----------------------------------------------------------------------------
(* Ticks *)

\* Behind the loader and the error page, the table of the topics shows the rows
\* of its own query.
LEMMA ShownKey ==
    ASSUME IInv, Shown, isFetching => kind.loader, Key \notin paused
    PROVE  Key \in DOMAIN cache /\ Source = Key
<1>1. OnPage /\ Key \notin failed /\ Key \notin fetching
  BY DEF Shown, isLoaderShown, isFetching
<1>2. Key \in DOMAIN cache
  BY <1>1 DEF IInv, KeyKnown
<1> QED
  BY <1>2 DEF Source, Fetched

\* The table of a page and of answers that stay.
LEMMA TableFrame ==
    ASSUME UNCHANGED <<list, nav, data>>
    PROVE  /\ Shown' = Shown /\ Selectable' = Selectable /\ Key' = Key
           /\ paused' = paused /\ kind' = kind /\ Rows' = Rows /\ Source' = Source
           /\ Url' = Url /\ Filtered' = Filtered
<1>1. /\ Key' = Key /\ OnPage' = OnPage /\ Url' = Url /\ kind' = kind
      /\ UNCHANGED <<cache, fetching, paused, failed, last>>
  BY StillFrame DEF data
<1>2. Source' = Source
  BY <1>1 DEF Source, Fetched
<1>3. Shown' = Shown
  BY <1>1, <1>2 DEF Shown, isLoaderShown, isFetching
<1>4. Filtered' = Filtered
  BY <1>1, <1>2 DEF Filtered
<1>5. Rows' = Rows
  BY <1>1, <1>2, <1>4 DEF Rows
<1> QED
  BY <1>1, <1>2, <1>3, <1>4, <1>5 DEF Selectable

\* The rows of the topics' table whose answer stays.
LEMMA SelectableKept ==
    ASSUME kind.server, kind' = kind, Key' = Key,
           Key \in DOMAIN cache, Key \in DOMAIN cache', cache'[Key] = cache[Key]
    PROVE  Selectable' = Selectable
<1>1. Source = Key /\ Source' = Key
  BY DEF Source, Fetched
<1>2. Rows = cache[Key].rows /\ Rows' = cache[Key].rows
  BY <1>1 DEF Rows
<1> QED
  BY <1>2 DEF Selectable

\* A fetch that waits goes on waiting or is made.
LEMMA PausedFacts ==
    ASSUME Fetches PROVE \A k \in paused : k \in paused' \/ k \in fetching'
BY DEF Fetches, Answer, Fail, Pause, Continue, Refetch, Done, Refused

\* Every step keeps the ticks on rows that are shown.
LEMMA NextTicks == ASSUME IInv, [Next]_vars PROVE TicksOK'
<1>1. list' = list
  BY ListStays
<1>2. kind' = kind
  BY <1>1 DEF kind
<1>3. CASE UNCHANGED vars \/ Asks \/ Vanishes
  <2>1. UNCHANGED <<list, nav, data>> /\ rowSelection' \in {rowSelection, {}}
    BY <1>1, <1>3
    DEF vars, Asks, GiveUp, Type, clearSearchValue, Followed, Kept, Ask, Cancel,
        Confirm, handleDownload, Downloaded, DownloadFails, Vanishes, Vanish, others
  <2> QED
    BY <1>2, <2>1, TableFrame DEF IInv, TicksOK, SelectionShown
<1>4. CASE Ticks
  <2>1. PICK S \in SUBSET Names : Tick(S)
    BY <1>4 DEF Ticks
  <2>2. /\ UNCHANGED <<list, nav, data>> /\ Shown /\ kind.selectable
        /\ S \subseteq Selectable /\ rowSelection' = SymDiff(rowSelection, S)
    BY <2>1 DEF Tick, others
  <2>3. Key \notin paused => rowSelection \subseteq Selectable
    BY DEF IInv, TicksOK, SelectionShown
  <2>4. Key \notin paused => rowSelection' \subseteq Selectable
    BY <2>2, <2>3 DEF SymDiff
  <2> QED
    BY <1>2, <2>2, <2>4, TableFrame DEF TicksOK, SelectionShown
<1>5. ASSUME Moved \/ Fetches, rowSelection' # {}
      PROVE  Shown' /\ (Key' \notin paused' => rowSelection' \subseteq Selectable')
             /\ kind.selectable
  <2>1. Shown' /\ Key' = Key /\ rowSelection' = rowSelection
    BY <1>5, FetchesFrame DEF Moved
  <2>2. /\ Shown /\ (Key \notin paused => rowSelection \subseteq Selectable)
        /\ kind.selectable
    BY <1>5, <2>1 DEF IInv, TicksOK, SelectionShown
  <2>3. kind.loader /\ kind.server
    BY <2>2, KindFacts DEF IInv, Types
  <2>4. ASSUME Key' \notin paused' PROVE rowSelection' \subseteq Selectable'
    <3>1. Key \notin fetching' /\ Key \notin fetching
      BY <1>2, <2>1, <2>2, <2>3 DEF Shown, isLoaderShown, isFetching
    <3>2. Key \notin paused
      <4>1. CASE Moved
        BY <2>1, <2>4, <4>1, MovedFacts
      <4>2. CASE Fetches
        BY <2>1, <2>4, <3>1, <4>2, PausedFacts
      <4> QED
        BY <1>5, <4>1, <4>2
    <3>3. Key \in DOMAIN cache
      BY <2>2, <2>3, <3>2, ShownKey
    <3>4. Key \in DOMAIN cache' /\ cache'[Key] = cache[Key]
      <4>1. CASE Moved
        BY <3>3, <4>1, MovedFacts
      <4>2. CASE \E k \in fetching : Answer(k)
        BY <3>1, <3>3, <4>2, AnswerFacts
      <4>3. CASE Fetches /\ ~\E k \in fetching : Answer(k)
        BY <3>3, <4>3, OtherFetches
      <4> QED
        BY <1>5, <4>1, <4>2, <4>3
    <3> QED
      BY <1>2, <2>1, <2>2, <2>3, <3>2, <3>3, <3>4, SelectableKept
  <2> QED
    BY <2>1, <2>2, <2>4
<1>6. CASE Moved \/ Fetches
  BY <1>2, <1>5, <1>6 DEF TicksOK, SelectionShown
<1> QED
  BY <1>3, <1>4, <1>6, NextCases

----------------------------------------------------------------------------
(* Batch actions and files *)

\* Every step keeps the dialog about what was agreed to.
LEMMA NextBatch == ASSUME IInv, [Next]_vars PROVE BatchOK'
<1>1. kind' = kind
  BY ListStays DEF kind
<1>2. BatchOK
  BY DEF IInv
<1>3. CASE UNCHANGED <<dialog, batch, agreed>>
  BY <1>1, <1>2, <1>3 DEF BatchOK
<1>4. ASSUME NEW action \in {"delete", "purge"}, Ask(action) PROVE BatchOK'
  <2>1. /\ dialog'.names = selectedTopics /\ agreed' = selectedTopics
        /\ batch' = batch /\ ~dialog.open /\ selectedTopics # {}
    BY <1>4 DEF Ask, Browsing, NoDialog
  <2>2. kind.selectable
    BY <2>1 DEF IInv, TicksOK, selectedTopics
  <2>3. \A x \in batch : ~x.awaited
    BY <1>2, <2>1 DEF BatchOK
  <2> QED
    BY <1>1, <2>1, <2>2, <2>3 DEF BatchOK
<1>5. CASE Cancel
  <2>1. dialog' = NoDialog /\ ~dialog.running /\ batch' = batch
    BY <1>5 DEF Cancel
  <2>2. \A x \in batch : ~x.awaited
    BY <1>2, <2>1 DEF BatchOK
  <2> QED
    BY <1>1, <1>2, <2>1, <2>2 DEF BatchOK, NoDialog
<1>6. CASE Confirm
  <2>1. /\ dialog.open /\ ~dialog.running /\ agreed' = agreed
        /\ batch' = batch \cup {[name |-> i, action |-> dialog.action,
                                 awaited |-> TRUE] : i \in dialog.names}
        /\ dialog' = IF dialog.names = {} THEN NoDialog
                     ELSE [dialog EXCEPT !.running = TRUE]
    BY <1>6 DEF Confirm, Batch
  <2>2. kind.selectable /\ dialog.names = agreed /\ \A x \in batch : ~x.awaited
    BY <1>2, <2>1 DEF BatchOK
  <2>3. CASE dialog.names = {}
    BY <1>1, <2>1, <2>2, <2>3 DEF BatchOK, NoDialog
  <2>4. CASE dialog.names # {}
    <3>1. dialog \in Dialogs
      BY DEF IInv, Types
    <3>2. dialog'.open /\ dialog'.running /\ dialog'.names = dialog.names
      BY <2>1, <2>4, <3>1 DEF Dialogs
    <3> QED
      BY <1>1, <2>1, <2>2, <3>2 DEF BatchOK
  <2> QED
    BY <2>3, <2>4
<1>7. ASSUME NEW r \in batch, Done(r) PROVE BatchOK'
  <2>1. /\ batch' = batch \ {r} /\ agreed' = agreed
        /\ dialog' = IF r.awaited /\ ~\E x \in batch' : x.awaited
                     THEN NoDialog ELSE dialog
    BY <1>7 DEF Done
  <2>2. CASE r.awaited /\ ~\E x \in batch' : x.awaited
    BY <1>1, <1>2, <2>1, <2>2 DEF BatchOK, NoDialog
  <2>3. CASE ~(r.awaited /\ ~\E x \in batch' : x.awaited)
    BY <1>1, <1>2, <2>1, <2>3 DEF BatchOK
  <2> QED
    BY <2>2, <2>3
<1>8. ASSUME NEW r \in batch, Refused(r) PROVE BatchOK'
  <2>1. agreed' = agreed /\ batch \subseteq Requests /\ kind.selectable
    BY <1>2, <1>8 DEF Refused, IInv, Types, BatchOK
  <2>2. CASE r.awaited
    <3>1. /\ dialog' = NoDialog
          /\ batch' = {[x EXCEPT !.awaited = FALSE] : x \in batch \ {r}}
      BY <1>8, <2>2 DEF Refused
    <3>2. \A x \in Requests : ~[x EXCEPT !.awaited = FALSE].awaited
      BY DEF Requests
    <3> QED
      BY <1>1, <2>1, <3>1, <3>2 DEF BatchOK, NoDialog
  <2>3. CASE ~r.awaited
    <3>1. dialog' = dialog /\ batch' = batch \ {r}
      BY <1>8, <2>3 DEF Refused
    <3> QED
      BY <1>1, <1>2, <2>1, <3>1 DEF BatchOK
  <2> QED
    BY <2>2, <2>3
<1>9. \/ UNCHANGED <<dialog, batch, agreed>>
      \/ \E action \in {"delete", "purge"} : Ask(action)
      \/ Cancel \/ Confirm \/ \E r \in batch : Done(r) \/ Refused(r)
  <2>1. Moved => UNCHANGED <<dialog, batch, agreed>>
    BY MovedFacts DEF asking
  <2> QED
    BY <2>1, NextCases
    DEF vars, Asks, GiveUp, Type, clearSearchValue, handleDownload, Downloaded,
        DownloadFails, Ticks, Tick, Vanishes, Vanish, Fetches, Answer, Fail, Pause,
        Continue, Refetch, pages, asking
<1> QED
  BY <1>3, <1>4, <1>5, <1>6, <1>7, <1>8, <1>9

\* Only two lists have files.
LEMMA NextDownload == ASSUME IInv, [Next]_vars PROVE DownloadOK'
<1>1. list' = list
  BY ListStays
<1>2. download' \in {download, NoKey} \/ handleDownload
  <2>1. Moved => download' = download
    BY MovedFacts DEF asking
  <2>2. Fetches => download' = download
    BY FetchesFrame
  <2> QED
    BY <2>1, <2>2, NextCases
    DEF vars, Asks, GiveUp, Type, clearSearchValue, Ask, Cancel, Confirm, Downloaded,
        DownloadFails, Ticks, Tick, Vanishes, Vanish, asking
<1> QED
  BY <1>1, <1>2 DEF IInv, DownloadOK, handleDownload

----------------------------------------------------------------------------
(* The theorems *)

\* The invariant holds at the start.
LEMMA InitInv == Init => IInv
<1> SUFFICES ASSUME Init PROVE IInv
  OBVIOUS
<1>1. /\ list \in Lists /\ nav = [entries |-> <<Elsewhere>>, at |-> 1]
      /\ box = "" /\ typing = FALSE
      /\ hideInternalTopics \in {FALSE, Kinds[list].switch}
      /\ present = Names /\ cache = <<>>
      /\ fetching = {} /\ paused = {} /\ failed = {} /\ last = NoKey
      /\ rowSelection = {} /\ dialog = NoDialog /\ batch = {} /\ download = NoKey
      /\ strayed = FALSE /\ leaving = FALSE /\ ops = 0 /\ faults = 0
  BY DEF Init
<1>2. ~OnPage
  BY <1>1 DEF OnPage, Url, At
<1>3. nav \in Navs(Urls)
  <2> DEFINE e == <<Elsewhere>>
  <2>1. nav = [entries |-> e, at |-> 1]
    BY <1>1
  <2>2. e \in Seq(Urls \cup {Elsewhere}) /\ Len(e) = 1 /\ e[1] = Elsewhere
    OBVIOUS
  <2> HIDE DEF e
  <2> QED
    BY <2>1, <2>2 DEF Navs
<1>4. Kinds[list].switch \in BOOLEAN
  <2>1. list \in {"Topics", "Groups", "Schemas", "Connectors", "Acls"}
    BY <1>1, Constants
  <2>2. /\ Kinds["Topics"] = TopicsList /\ Kinds["Groups"] = GroupsList
        /\ Kinds["Schemas"] = SchemasList /\ Kinds["Connectors"] = ConnectorsList
        /\ Kinds["Acls"] = AclsList
    BY DEF Kinds
  <2>3. /\ Kinds["Topics"].switch = TRUE /\ Kinds["Groups"].switch = FALSE
        /\ Kinds["Schemas"].switch = FALSE /\ Kinds["Connectors"].switch = FALSE
        /\ Kinds["Acls"].switch = FALSE
    BY <2>2 DEF List, TopicsList, GroupsList, SchemasList, ConnectorsList, AclsList
  <2> QED
    BY <2>1, <2>3
<1>5. DOMAIN cache = {} /\ cache \in [DOMAIN cache -> Answers]
  <2>1. cache \in Seq(Answers) /\ Len(cache) = 0
    <3>1. cache = <<>>
      BY <1>1, Zenon
    <3> QED
      BY <3>1
  <2>2. 1..0 = {}
    OBVIOUS
  <2> QED
    BY <2>1, <2>2
<1>6. NoDialog \in Dialogs /\ ~NoDialog.open
  BY DEF NoDialog, Dialogs
<1>7. MaxOps \in Nat /\ MaxFaults \in Nat
  BY Constants
<1>8. Types
  <2>1. /\ list \in Lists /\ nav \in Navs(Urls) /\ dialog \in Dialogs
        /\ hideInternalTopics \in BOOLEAN /\ last \in DOMAIN cache \cup {NoKey}
    BY <1>1, <1>3, <1>4, <1>6
  <2>2. box \in Texts \cup {""} /\ typing \in BOOLEAN /\ (typing => OnPage)
    BY <1>1
  <2>3. /\ present \subseteq Names /\ fetching \subseteq Keys /\ paused \subseteq Keys
        /\ failed \subseteq Keys /\ fetching \cap paused = {}
        /\ DOMAIN cache \subseteq Keys
        /\ rowSelection \subseteq Names \ Internal /\ batch \subseteq Requests
    BY <1>1, <1>5
  <2>4. /\ strayed \in BOOLEAN /\ leaving \in BOOLEAN
        /\ ops \in 0..MaxOps /\ faults \in 0..MaxFaults
    <3>1. strayed = FALSE /\ leaving = FALSE /\ ops = 0 /\ faults = 0
      BY <1>1, Zenon
    <3>2. strayed \in BOOLEAN /\ leaving \in BOOLEAN
      BY <3>1
    <3>3. 0 \in 0..MaxOps /\ 0 \in 0..MaxFaults
      BY <1>7
    <3> QED
      BY <3>1, <3>2, <3>3, Zenon
  <2> QED
    BY <1>5, <2>1, <2>2, <2>3, <2>4 DEF Types
<1>9. CacheOK /\ KeyKnown /\ TicksOK
  BY <1>1, <1>2, <1>5 DEF CacheOK, KeyKnown, TicksOK, SelectionShown
<1>10. BatchOK /\ DownloadOK
  BY <1>1, <1>6 DEF BatchOK, DownloadOK
<1> QED
  BY <1>8, <1>9, <1>10 DEF IInv

\* The invariant holds always.
LEMMA Invariance == Spec => []IInv
<1>1. IInv /\ [Next]_vars => IInv'
  BY NextTypes, NextCache, NextKey, NextTicks, NextBatch, NextDownload DEF IInv
<1> QED
  BY <1>1, InitInv, PTL DEF Spec

\* The types are those the runs check.
LEMMA TypesImply == Types => TypeOK
<1> SUFFICES ASSUME Types PROVE TypeOK
  OBVIOUS
<1>1. Keys \subseteq Type_key /\ Urls \subseteq Type_url
  BY DEF Keys, Urls
<1>2. /\ nav.at \in 1..Len(nav.entries)
      /\ \A i \in 2..Len(nav.entries) : nav.entries[i] \in Type_url
  BY <1>1 DEF Types, Navs
<1>3. dialog.names \subseteq Names \ Internal
  BY DEF Types, Dialogs
<1>4. DOMAIN cache \cup fetching \cup paused \cup failed \subseteq Type_key
      /\ last \in Type_key \cup {NoKey}
  BY <1>1 DEF Types
<1> QED
  BY <1>2, <1>3, <1>4 DEF Types, TypeOK

\* A table is empty only where nothing matches.
LEMMA NotEmpty == IInv => NoEmptyPage
<1> SUFFICES ASSUME IInv, Shown, Rows = <<>>
             PROVE  IF kind.server THEN cache[Source].total = 0
                    ELSE Filtered = <<>> \/ strayed \/ Source # Key
  BY DEF NoEmptyPage
<1>1. Source \in DOMAIN cache /\ OnPage
  BY DEF IInv, Types, Shown, Source, Fetched
<1>2. CASE kind.server
  BY <1>1, <1>2 DEF IInv, CacheOK, Rows
<1>3. ASSUME ~kind.server, ~strayed, Source = Key PROVE Filtered = <<>>
  <2>1. Exact
    BY <1>3 DEF Exact
  <2>2. /\ Url \in Urls /\ Url \in Type_url /\ Key.q = TextOf(Url)
        /\ Url.desc \in BOOLEAN
    BY <1>1, UrlFacts DEF IInv, Type_url
  <2>3. ToSet(cache[Key].rows) = Accepted(Key.q)
    BY <1>1, <1>3, <2>1 DEF IInv, CacheOK
  <2>4. Filtered = Ordered(Reach(Url), Url.desc)
    BY <1>3, <2>2, <2>3 DEF Filtered, Reach
  <2>5. Reach(Url) \in SUBSET Names /\ PageOf(Url) \in Nat /\ PageOf(Url) >= 1
    BY <2>2, ReachFacts
  <2>6. Filtered \in Seq(Names) /\ Len(Filtered) = Cardinality(Reach(Url))
    BY <2>2, <2>4, <2>5, OrderedFacts
  <2>7. InRange(Url)
    BY <2>1, <2>2 DEF Urls
  <2>8. Cut(Filtered, PageOf(Url)) = <<>>
    BY <1>3 DEF Rows
  <2> QED
    BY <2>5, <2>6, <2>7, <2>8, CutFacts DEF InRange
<1> QED
  BY <1>2, <1>3

\* The table, its selection and its page belong to the address, for any items,
\* searches, page size and history: ListPage, TopicTable, Table and
\* filterSortPage show the answer to the query in the address bar, a tick is a
\* row on the screen, and a table without rows means that nothing matches.
THEOREM ListFollowsAddress == Spec => []ListAsAsked
<1>1. IInv => ShownIsAsked
  BY ShownKey DEF ShownIsAsked
<1>2. IInv => SelectionShown
  BY DEF IInv, TicksOK
<1>3. IInv => ListAsAsked
  BY <1>1, <1>2, TypesImply, NotEmpty DEF IInv, ListAsAsked
<1> QED
  BY <1>3, Invariance, PTL

\* Confirming sends the requests of the rows that were agreed to.
LEMMA ConfirmFacts ==
    ASSUME IInv, Confirm
    PROVE  {r.name : r \in {x \in batch' : x.awaited}} = agreed
<1>1. /\ dialog.open /\ ~dialog.running
      /\ batch' = batch \cup {[name |-> i, action |-> dialog.action,
                               awaited |-> TRUE] : i \in dialog.names}
  BY DEF Confirm, Batch
<1>2. dialog.names = agreed /\ \A x \in batch : ~x.awaited
  BY <1>1 DEF IInv, BatchOK
<1> DEFINE request(i) == [name |-> i, action |-> dialog.action, awaited |-> TRUE]
<1>3. \A i \in agreed : request(i).name = i /\ request(i).awaited
  OBVIOUS
<1>4. batch' = batch \cup {request(i) : i \in agreed}
  BY <1>1, <1>2
<1> HIDE DEF request
<1>5. {x \in batch' : x.awaited} = {request(i) : i \in agreed}
  BY <1>2, <1>3, <1>4
<1> QED
  BY <1>3, <1>5

\* The page on the screen is a page of the file.
LEMMA FileFacts ==
    ASSUME IInv, download # NoKey, UpToDate, download = csvParams(Url), Url.filter = ""
    PROVE  LET file == fetchCsv(download)
           IN Rows = Cut(file, Clamped(PageOf(Url), PageCount(file)))
<1>1. list \in {"Topics", "Groups"} /\ kind.server
  BY KindFacts DEF IInv, Types, DownloadOK
<1>2. /\ Key = [q |-> TextOf(Url), page |-> PageOf(Url), hide |-> Url.hide,
                desc |-> Url.desc, filter |-> Url.filter]
      /\ download = [Key EXCEPT !.page = 0, !.filter = ""]
  BY <1>1 DEF Key, KeyOf, csvParams
<1>3. Matches(download) = Matches(Key) /\ download.desc = Key.desc
  BY <1>2 DEF Matches
<1> DEFINE file == Ordered(Matches(Key), Key.desc)
<1>4. fetchCsv(download) = file
  BY <1>3 DEF fetchCsv, getTopicsCsv, getConsumerGroupsCsv
<1>5. Rows = filterSortPage(Key).rows
  BY <1>1 DEF UpToDate, Rows, Response
<1>6. filterSortPage(Key).rows = Cut(file, Clamped(Key.page, PageCount(file)))
  BY DEF filterSortPage
<1> QED
  BY <1>2, <1>4, <1>5, <1>6

\* Batch actions and exports concern the rows the user was shown: whatever is
\* refetched between asking and confirming in BatchActionsBar, the requests are
\* those agreed to, and the files of DownloadCsvButton and exportTableCSV have
\* the table's page as a page of theirs.
THEOREM ActionsFollowAgreement == Spec => ActionsAsAgreed
<1>1. IInv /\ [Next]_vars =>
        [Confirm => {r.name : r \in {x \in batch' : x.awaited}} = agreed]_vars
  BY ConfirmFacts
<1>2. IInv /\ [Next]_vars =>
        [Downloaded /\ UpToDate /\ download = csvParams(Url) /\ Url.filter = ""
            => LET file == fetchCsv(download)
               IN Rows = Cut(file, Clamped(PageOf(Url), PageCount(file)))]_vars
  BY FileFacts DEF Downloaded
<1>3. IInv => (Shown /\ list = "Connectors" => Rows = Cut(exportTableCSV, PageOf(Url)))
  <2> SUFFICES ASSUME IInv, Shown, list = "Connectors"
               PROVE  Rows = Cut(exportTableCSV, PageOf(Url))
    OBVIOUS
  <2>1. rowSelection = {} /\ ~kind.server
    BY KindFacts DEF IInv, Types, TicksOK
  <2> QED
    BY <2>1 DEF exportTableCSV, Rows
<1>4. Spec => BatchAsAgreed
  BY <1>1, Invariance, PTL DEF Spec, BatchAsAgreed
<1>5. Spec => ExportAgrees
  BY <1>2, <1>3, Invariance, PTL DEF Spec, ExportAgrees
<1> QED
  BY <1>4, <1>5 DEF ActionsAsAgreed
=============================================================================
