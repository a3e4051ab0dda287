--------------------------- MODULE QueryCacheProofs ------------------------
(***************************************************************************)
(* What the cache of the web interface promises, for every page, any       *)
(* number of visits, mutations, refetches and failures.                    *)
(*                                                                         *)
(* The tables of Hooks, Api and Pages come first: they are finite, but     *)
(* the argument needs of them only that the controls and the reads of an   *)
(* area of the interface stay within it (SiteOK), and that what a mutation *)
(* changes is among what it invalidates, apart from the exceptions the     *)
(* properties name.  Then the cache: an entry that is not marked stale     *)
(* carries what was acknowledged, is being fetched, or has failed (Fresh). *)
(* The queries of a schema are invalidated by nobody; they are fresh       *)
(* because nobody shows them before the mutation is over (Flow).  Then     *)
(* what was typed into a form: it is lost only with the form (Signed,      *)
(* DraftShown).  Last, a mutation that waits for its refetches: what the   *)
(* page shows is among them, or is fetched by itself (Waiting).            *)
(***************************************************************************)
EXTENDS QueryCache, SequenceTheorems, FiniteSetTheorems, TLAPS

\* The controls that run one or two of hooks and then stay or go to one of pages.
ValidOffer(o, hooks, pages) ==
    /\ o.confirm \in BOOLEAN /\ o.then \in pages \cup {""}
    /\ \/ \E h \in hooks : o.steps = <<h>>
       \/ \E h, g \in hooks : o.steps = <<h, g>>
ValidView(v, reads, hooks, pages) ==
    /\ v = View(v.reads, v.offers) /\ v.reads \subseteq reads
    /\ \A o \in v.offers : ValidOffer(o, hooks, pages)
ValidPage(p, reads, hooks, pages) ==
    /\ p.quiet \subseteq p.gate
    /\ ValidView(p.outer, reads, hooks, pages)
    /\ ValidView(p.inner, reads, hooks, pages)

\* Each way to offer mutations gives a valid control, and controls a valid view.
LEMMA Controls ==
  ASSUME NEW hooks, NEW pages, NEW h \in hooks, NEW n \in pages \cup {""}, NEW f
  PROVE  /\ ValidOffer(Ask(h, n), hooks, pages) /\ ValidOffer(AskAlone(h), hooks, pages)
         /\ ValidOffer(Press(h, TRUE), hooks, pages)
         /\ ValidOffer(Press(h, FALSE), hooks, pages)
         /\ ValidOffer(Submit(f, <<h>>, n), hooks, pages)
         /\ \A g \in hooks : ValidOffer(Submit(f, <<h, g>>, n), hooks, pages)
         /\ ValidOffer(Offer(<<h>>, FALSE, FALSE, f, n), hooks, pages)
BY DEF ValidOffer, Offer, Ask, AskAlone, Press, Submit

\* A view of valid controls is valid.
LEMMA ViewOf ==
  ASSUME NEW R, NEW O, NEW reads, NEW hooks, NEW pages, R \subseteq reads,
         \A o \in O : ValidOffer(o, hooks, pages)
  PROVE  ValidView(View(R, O), reads, hooks, pages)
BY DEF ValidView, View

\* Two valid views shown together are a valid view.
LEMMA Together ==
  ASSUME NEW v, NEW w, NEW reads, NEW hooks, NEW pages,
         ValidView(v, reads, hooks, pages), ValidView(w, reads, hooks, pages)
  PROVE  ValidView(v \sqcup w, reads, hooks, pages)
BY DEF ValidView, View, \sqcup

TopicReads == {useTopics, useTopicDetails, useTopicConfig, useTopicConsumerGroups,
               useTopicConnectors, useTopicAcls, useTopicAnalysis, useSerdes,
                 useGetConsumerGroupsLag}
TopicHooks == {useCreateTopic, useUpdateTopic, useIncreaseTopicPartitionsCount,
               useUpdateTopicReplicationFactor, useDeleteTopic, useClearTopicMessages,
                 useRecreateTopic, useSendMessage, useAnalyzeTopic,
                   useCancelTopicAnalysis}

\* The pages of the topics.
LEMMA TopicNames == DOMAIN TopicPages = {"Topics", "TopicNew", "TopicOverview",
                                         "TopicSettings", "TopicConsumers",
                                           "TopicStatistics", "TopicAcls", "TopicEdit"}
BY DEF TopicPages

\* They read and change nothing but what is listed for the topics.
LEMMA TopicSite ==
  \A p \in DOMAIN TopicPages :
     ValidPage(TopicPages[p], TopicReads, TopicHooks, DOMAIN TopicPages)
<1>. DEFINE Control(o) == ValidOffer(o, TopicHooks, DOMAIN TopicPages)
            Shown(v) == ValidView(v, TopicReads, TopicHooks, DOMAIN TopicPages)
            Fine(p) == ValidPage(p, TopicReads, TopicHooks, DOMAIN TopicPages)
            names == DOMAIN TopicPages
<1>1. names = {"Topics", "TopicNew", "TopicOverview", "TopicSettings",
               "TopicConsumers", "TopicStatistics", "TopicAcls", "TopicEdit"}
  BY TopicNames
<1>2. \A h \in TopicHooks, n \in names \cup {""} : \A f :
        /\ Control(Ask(h, n)) /\ Control(AskAlone(h))
        /\ Control(Press(h, TRUE)) /\ Control(Press(h, FALSE))
        /\ Control(Submit(f, <<h>>, n))
        /\ \A g \in TopicHooks : Control(Submit(f, <<h, g>>, n))
        /\ Control(Offer(<<h>>, FALSE, FALSE, f, n))
  BY Controls
<1>3. ASSUME NEW W \in SUBSET TopicReads, NEW O, \A o \in O : Control(o)
      PROVE  Shown(View(W, O))
  BY <1>3, ViewOf
<1>4. ASSUME NEW v, NEW w, Shown(v), Shown(w) PROVE Shown(v \sqcup w)
  BY <1>4, Together
<1>5. ASSUME NEW v, NEW w, Shown(v), Shown(w), NEW G, NEW L, NEW F, NEW E
      PROVE  Fine(Page(v, G, G, w, L, F)) /\ Fine(Page(v, E, {}, w, L, F))
  BY <1>5 DEF Page, ValidPage
<1>. HIDE DEF Control, Shown, Fine, names
<1>6. /\ Shown(TopicTable)
      /\ Shown(TopicActionsCell)
      /\ Shown(BatchActionsBar)
      /\ Shown(TopicNew)
      /\ Shown(TopicFrame)
      /\ Shown(TopicActions)
      /\ Shown(SendMessage)
      /\ Shown(Overview)
      /\ Shown(OverviewActionsCell)
      /\ Shown(Settings)
      /\ Shown(TopicConsumerGroups)
      /\ Shown(Acls)
      /\ Shown(Statistics)
      /\ Shown(Metrics)
      /\ Shown(Edit)
      /\ Shown(DangerZone)
      /\ Shown(Nothing)
  <2>1. Shown(TopicTable)
    BY <1>1, <1>2, <1>3 DEF TopicTable, TopicReads, TopicHooks
  <2>2. Shown(TopicActionsCell)
    BY <1>1, <1>2, <1>3 DEF TopicActionsCell, TopicReads, TopicHooks
  <2>3. Shown(BatchActionsBar)
    BY <1>1, <1>2, <1>3 DEF BatchActionsBar, TopicReads, TopicHooks
  <2>4. Shown(TopicNew)
    BY <1>1, <1>2, <1>3 DEF TopicNew, TopicReads, TopicHooks
  <2>5. Shown(TopicFrame)
    BY <1>1, <1>2, <1>3 DEF TopicFrame, TopicReads, TopicHooks
  <2>6. Shown(TopicActions)
    BY <1>1, <1>2, <1>3 DEF TopicActions, TopicReads, TopicHooks
  <2>7. Shown(SendMessage)
    BY <1>1, <1>2, <1>3 DEF SendMessage, TopicReads, TopicHooks
  <2>8. Shown(Overview)
    BY <1>1, <1>2, <1>3 DEF Overview, TopicReads, TopicHooks
  <2>9. Shown(OverviewActionsCell)
    BY <1>1, <1>2, <1>3 DEF OverviewActionsCell, TopicReads, TopicHooks
  <2>10. Shown(Settings)
    BY <1>1, <1>2, <1>3 DEF Settings, TopicReads, TopicHooks
  <2>11. Shown(TopicConsumerGroups)
    BY <1>1, <1>2, <1>3 DEF TopicConsumerGroups, TopicReads, TopicHooks
  <2>12. Shown(Acls)
    BY <1>1, <1>2, <1>3 DEF Acls, TopicReads, TopicHooks
  <2>13. Shown(Statistics)
    BY <1>1, <1>2, <1>3 DEF Statistics, TopicReads, TopicHooks
  <2>14. Shown(Metrics)
    BY <1>1, <1>2, <1>3 DEF Metrics, TopicReads, TopicHooks
  <2>15. Shown(Edit)
    BY <1>1, <1>2, <1>3 DEF Edit, TopicReads, TopicHooks
  <2>16. Shown(DangerZone)
    BY <1>1, <1>2, <1>3 DEF DangerZone, TopicReads, TopicHooks
  <2>17. Shown(Nothing)
    BY <1>1, <1>2, <1>3 DEF Nothing, TopicReads, TopicHooks
  <2>. QED BY <2>1, <2>2, <2>3, <2>4, <2>5, <2>6, <2>7, <2>8, <2>9, <2>10, <2>11,
    <2>12, <2>13, <2>14, <2>15, <2>16, <2>17
<1>7. Fine(TopicPages["Topics"])
  BY <1>4, <1>5, <1>6 DEF TopicPages, TopicListPage, TopicTab, Framed, Plain
<1>8. Fine(TopicPages["TopicNew"])
  BY <1>4, <1>5, <1>6 DEF TopicPages, TopicListPage, TopicTab, Framed, Plain
<1>9. Fine(TopicPages["TopicOverview"])
  BY <1>4, <1>5, <1>6 DEF TopicPages, TopicListPage, TopicTab, Framed, Plain
<1>10. Fine(TopicPages["TopicSettings"])
  BY <1>4, <1>5, <1>6 DEF TopicPages, TopicListPage, TopicTab, Framed, Plain
<1>11. Fine(TopicPages["TopicConsumers"])
  BY <1>4, <1>5, <1>6 DEF TopicPages, TopicListPage, TopicTab, Framed, Plain
<1>12. Fine(TopicPages["TopicStatistics"])
  BY <1>4, <1>5, <1>6 DEF TopicPages, TopicListPage, TopicTab, Framed, Plain
<1>13. Fine(TopicPages["TopicAcls"])
  BY <1>4, <1>5, <1>6 DEF TopicPages, TopicListPage, TopicTab, Framed, Plain
<1>14. Fine(TopicPages["TopicEdit"])
  BY <1>4, <1>5, <1>6 DEF TopicPages, TopicListPage, TopicTab, Framed, Plain
<1>15. \A p \in names : Fine(TopicPages[p])
  BY <1>1, <1>7, <1>8, <1>9, <1>10, <1>11, <1>12, <1>13, <1>14
<1>. QED BY <1>15 DEF names, Fine

ConnectReads == {useConnects("withStats"), useConnects(""), useConnectors,
                 useConnector, useConnectorTasks, useConnectorConfig}
ConnectHooks == {useUpdateConnectorState, useRestartConnectorTask,
                 useUpdateConnectorConfig, useCreateConnector, useDeleteConnector,
                   useResetConnectorOffsets}

\* The pages of the connectors.
LEMMA ConnectNames == DOMAIN ConnectPages = {"Connects", "Connectors", "ConnectorNew",
                                             "ConnectorTasks", "ConnectorConfig",
                                               "ConnectorTopics"}
BY DEF ConnectPages

\* They read and change nothing but what is listed for the connectors.
LEMMA ConnectSite ==
  \A p \in DOMAIN ConnectPages :
     ValidPage(ConnectPages[p], ConnectReads, ConnectHooks, DOMAIN ConnectPages)
<1>. DEFINE Control(o) == ValidOffer(o, ConnectHooks, DOMAIN ConnectPages)
            Shown(v) == ValidView(v, ConnectReads, ConnectHooks, DOMAIN ConnectPages)
            Fine(p) == ValidPage(p, ConnectReads, ConnectHooks, DOMAIN ConnectPages)
            names == DOMAIN ConnectPages
<1>1. names = {"Connects", "Connectors", "ConnectorNew", "ConnectorTasks",
               "ConnectorConfig", "ConnectorTopics"}
  BY ConnectNames
<1>2. \A h \in ConnectHooks, n \in names \cup {""} : \A f :
        /\ Control(Ask(h, n)) /\ Control(AskAlone(h))
        /\ Control(Press(h, TRUE)) /\ Control(Press(h, FALSE))
        /\ Control(Submit(f, <<h>>, n))
        /\ \A g \in ConnectHooks : Control(Submit(f, <<h, g>>, n))
        /\ Control(Offer(<<h>>, FALSE, FALSE, f, n))
  BY Controls
<1>3. ASSUME NEW W \in SUBSET ConnectReads, NEW O, \A o \in O : Control(o)
      PROVE  Shown(View(W, O))
  BY <1>3, ViewOf
<1>4. ASSUME NEW v, NEW w, Shown(v), Shown(w) PROVE Shown(v \sqcup w)
  BY <1>4, Together
<1>5. ASSUME NEW v, NEW w, Shown(v), Shown(w), NEW G, NEW L, NEW F, NEW E
      PROVE  Fine(Page(v, G, G, w, L, F)) /\ Fine(Page(v, E, {}, w, L, F))
  BY <1>5 DEF Page, ValidPage
<1>. HIDE DEF Control, Shown, Fine, names
<1>6. /\ Shown(ConnectHeader)
      /\ Shown(Clusters)
      /\ Shown(ConnectorsTable)
      /\ Shown(ConnectorStateItems)
      /\ Shown(ConnectorDangerItems)
      /\ Shown(ConnectorNew)
      /\ Shown(ConnectorDetailsPage)
      /\ Shown(RestartMenu)
      /\ Shown(DangerMenu)
      /\ Shown(ConnectorTasks)
      /\ Shown(ActionsCellTasks)
      /\ Shown(ConnectorConfig)
      /\ Shown(ConnectorTopics)
      /\ Shown(Nothing)
  <2>1. Shown(ConnectHeader)
    BY <1>1, <1>2, <1>3 DEF ConnectHeader, ConnectReads, ConnectHooks
  <2>2. Shown(Clusters)
    BY <1>1, <1>2, <1>3 DEF Clusters, ConnectReads, ConnectHooks
  <2>3. Shown(ConnectorsTable)
    BY <1>1, <1>2, <1>3 DEF ConnectorsTable, ConnectReads, ConnectHooks
  <2>4. Shown(ConnectorStateItems)
    BY <1>1, <1>2, <1>3 DEF ConnectorStateItems, ConnectReads, ConnectHooks
  <2>5. Shown(ConnectorDangerItems)
    BY <1>1, <1>2, <1>3 DEF ConnectorDangerItems, ConnectReads, ConnectHooks
  <2>6. Shown(ConnectorNew)
    BY <1>1, <1>2, <1>3 DEF ConnectorNew, ConnectReads, ConnectHooks
  <2>7. Shown(ConnectorDetailsPage)
    BY <1>1, <1>2, <1>3 DEF ConnectorDetailsPage, ConnectReads, ConnectHooks
  <2>8. Shown(RestartMenu)
    BY <1>1, <1>2, <1>3 DEF RestartMenu, ConnectReads, ConnectHooks
  <2>9. Shown(DangerMenu)
    BY <1>1, <1>2, <1>3 DEF DangerMenu, ConnectReads, ConnectHooks
  <2>10. Shown(ConnectorTasks)
    BY <1>1, <1>2, <1>3 DEF ConnectorTasks, ConnectReads, ConnectHooks
  <2>11. Shown(ActionsCellTasks)
    BY <1>1, <1>2, <1>3 DEF ActionsCellTasks, ConnectReads, ConnectHooks
  <2>12. Shown(ConnectorConfig)
    BY <1>1, <1>2, <1>3 DEF ConnectorConfig, ConnectReads, ConnectHooks
  <2>13. Shown(ConnectorTopics)
    BY <1>1, <1>2, <1>3 DEF ConnectorTopics, ConnectReads, ConnectHooks
  <2>14. Shown(Nothing)
    BY <1>1, <1>2, <1>3 DEF Nothing, ConnectReads, ConnectHooks
  <2>. QED BY <2>1, <2>2, <2>3, <2>4, <2>5, <2>6, <2>7, <2>8, <2>9, <2>10, <2>11,
    <2>12, <2>13, <2>14
<1>7. Fine(ConnectPages["Connects"])
  BY <1>4, <1>5, <1>6
     DEF ConnectPages, ConnectorTab, Framed, Plain, ConnectorActionsCell,
         ConnectorActions
<1>8. Fine(ConnectPages["Connectors"])
  BY <1>4, <1>5, <1>6
     DEF ConnectPages, ConnectorTab, Framed, Plain, ConnectorActionsCell,
         ConnectorActions
<1>9. Fine(ConnectPages["ConnectorNew"])
  BY <1>4, <1>5, <1>6
     DEF ConnectPages, ConnectorTab, Framed, Plain, ConnectorActionsCell,
         ConnectorActions
<1>10. Fine(ConnectPages["ConnectorTasks"])
  BY <1>4, <1>5, <1>6
     DEF ConnectPages, ConnectorTab, Framed, Plain, ConnectorActionsCell,
         ConnectorActions
<1>11. Fine(ConnectPages["ConnectorConfig"])
  BY <1>4, <1>5, <1>6
     DEF ConnectPages, ConnectorTab, Framed, Plain, ConnectorActionsCell,
         ConnectorActions
<1>12. Fine(ConnectPages["ConnectorTopics"])
  BY <1>4, <1>5, <1>6
     DEF ConnectPages, ConnectorTab, Framed, Plain, ConnectorActionsCell,
         ConnectorActions
<1>13. \A p \in names : Fine(ConnectPages[p])
  BY <1>1, <1>7, <1>8, <1>9, <1>10, <1>11, <1>12
<1>. QED BY <1>13 DEF names, Fine

GroupReads == {useConsumerGroups, useConsumerGroupDetails, useGetConsumerGroupsLag}
GroupHooks == {useDeleteConsumerGroupMutation, useResetConsumerGroupOffsetsMutation,
               useDeleteConsumerGroupOffsetsMutation}

\* The pages of the consumer groups.
LEMMA GroupNames == DOMAIN GroupPages = {"Groups", "Group", "GroupReset"}
BY DEF GroupPages

\* They read and change nothing but what is listed for the consumer groups.
LEMMA GroupSite ==
  \A p \in DOMAIN GroupPages :
     ValidPage(GroupPages[p], GroupReads, GroupHooks, DOMAIN GroupPages)
<1>. DEFINE Control(o) == ValidOffer(o, GroupHooks, DOMAIN GroupPages)
            Shown(v) == ValidView(v, GroupReads, GroupHooks, DOMAIN GroupPages)
            Fine(p) == ValidPage(p, GroupReads, GroupHooks, DOMAIN GroupPages)
            names == DOMAIN GroupPages
<1>1. names = {"Groups", "Group", "GroupReset"} BY GroupNames
<1>2. \A h \in GroupHooks, n \in names \cup {""} : \A f :
        /\ Control(Ask(h, n)) /\ Control(AskAlone(h))
        /\ Control(Press(h, TRUE)) /\ Control(Press(h, FALSE))
        /\ Control(Submit(f, <<h>>, n))
        /\ \A g \in GroupHooks : Control(Submit(f, <<h, g>>, n))
        /\ Control(Offer(<<h>>, FALSE, FALSE, f, n))
  BY Controls
<1>3. ASSUME NEW W \in SUBSET GroupReads, NEW O, \A o \in O : Control(o)
      PROVE  Shown(View(W, O))
  BY <1>3, ViewOf
<1>4. ASSUME NEW v, NEW w, Shown(v), Shown(w) PROVE Shown(v \sqcup w)
  BY <1>4, Together
<1>5. ASSUME NEW v, NEW w, Shown(v), Shown(w), NEW G, NEW L, NEW F, NEW E
      PROVE  Fine(Page(v, G, G, w, L, F)) /\ Fine(Page(v, E, {}, w, L, F))
  BY <1>5 DEF Page, ValidPage
<1>. HIDE DEF Control, Shown, Fine, names
<1>6. /\ Shown(View({useConsumerGroups}, {}))
      /\ Shown(View({useConsumerGroupDetails}, {}))
      /\ Shown(View({useConsumerGroupDetails},{Ask(useDeleteConsumerGroupMutation, "Groups")}))
      /\ Shown(useConsumerGroupsLagTrends)
      /\ Shown(GroupTopicsTable)
      /\ Shown(ResetOffsets)
      /\ Shown(ResetOffsetsForm)
      /\ Shown(Nothing)
  <2>1. Shown(View({useConsumerGroups}, {}))
    BY <1>1, <1>2, <1>3 DEF GroupReads, GroupHooks
  <2>2. Shown(View({useConsumerGroupDetails}, {}))
    BY <1>1, <1>2, <1>3 DEF GroupReads, GroupHooks
  <2>3. Shown(View({useConsumerGroupDetails},{Ask(useDeleteConsumerGroupMutation, "Groups")}))
    BY <1>1, <1>2, <1>3 DEF GroupReads, GroupHooks
  <2>4. Shown(useConsumerGroupsLagTrends)
    BY <1>1, <1>2, <1>3 DEF useConsumerGroupsLagTrends, GroupReads, GroupHooks
  <2>5. Shown(GroupTopicsTable)
    BY <1>1, <1>2, <1>3 DEF GroupTopicsTable, GroupReads, GroupHooks
  <2>6. Shown(ResetOffsets)
    BY <1>1, <1>2, <1>3 DEF ResetOffsets, GroupReads, GroupHooks
  <2>7. Shown(ResetOffsetsForm)
    BY <1>1, <1>2, <1>3 DEF ResetOffsetsForm, GroupReads, GroupHooks
  <2>8. Shown(Nothing)
    BY <1>1, <1>2, <1>3 DEF Nothing, GroupReads, GroupHooks
  <2>. QED BY <2>1, <2>2, <2>3, <2>4, <2>5, <2>6, <2>7, <2>8
<1>7. Fine(GroupPages["Groups"])
  BY <1>4, <1>5, <1>6 DEF GroupPages, GroupList, GroupMetrics, GroupDetails
<1>8. Fine(GroupPages["Group"])
  BY <1>4, <1>5, <1>6 DEF GroupPages, GroupList, GroupMetrics, GroupDetails
<1>9. Fine(GroupPages["GroupReset"])
  BY <1>4, <1>5, <1>6 DEF GroupPages, GroupList, GroupMetrics, GroupDetails
<1>10. \A p \in names : Fine(GroupPages[p])
  BY <1>1, <1>7, <1>8, <1>9
<1>. QED BY <1>10 DEF names, Fine

SchemaReads == {useGetSchemas, useGetLatestSchema, useGetSchemasVersions,
                useGetGlobalCompatibilityLayer}
SchemaHooks == {useCreateSchema, useUpdateSchemaCompatibilityLayer, useDeleteSchema,
                useUpdateGlobalSchemaCompatibilityLevel}

\* The pages of the schemas.
LEMMA SchemaNames == DOMAIN SchemaPages = {"Schemas", "SchemaNew", "Schema",
                                           "SchemaDiff", "SchemaEdit"}
BY DEF SchemaPages

\* They read and change nothing but what is listed for the schemas.
LEMMA SchemaSite ==
  \A p \in DOMAIN SchemaPages :
     ValidPage(SchemaPages[p], SchemaReads, SchemaHooks, DOMAIN SchemaPages)
<1>. DEFINE Control(o) == ValidOffer(o, SchemaHooks, DOMAIN SchemaPages)
            Shown(v) == ValidView(v, SchemaReads, SchemaHooks, DOMAIN SchemaPages)
            Fine(p) == ValidPage(p, SchemaReads, SchemaHooks, DOMAIN SchemaPages)
            names == DOMAIN SchemaPages
<1>1. names = {"Schemas", "SchemaNew", "Schema", "SchemaDiff", "SchemaEdit"}
  BY SchemaNames
<1>2. \A h \in SchemaHooks, n \in names \cup {""} : \A f :
        /\ Control(Ask(h, n)) /\ Control(AskAlone(h))
        /\ Control(Press(h, TRUE)) /\ Control(Press(h, FALSE))
        /\ Control(Submit(f, <<h>>, n))
        /\ \A g \in SchemaHooks : Control(Submit(f, <<h, g>>, n))
        /\ Control(Offer(<<h>>, FALSE, FALSE, f, n))
  BY Controls
<1>3. ASSUME NEW W \in SUBSET SchemaReads, NEW O, \A o \in O : Control(o)
      PROVE  Shown(View(W, O))
  BY <1>3, ViewOf
<1>4. ASSUME NEW v, NEW w, Shown(v), Shown(w) PROVE Shown(v \sqcup w)
  BY <1>4, Together
<1>5. ASSUME NEW v, NEW w, Shown(v), Shown(w), NEW G, NEW L, NEW F, NEW E
      PROVE  Fine(Page(v, G, G, w, L, F)) /\ Fine(Page(v, E, {}, w, L, F))
  BY <1>5 DEF Page, ValidPage
<1>. HIDE DEF Control, Shown, Fine, names
<1>6. /\ Shown(SchemaList)
      /\ Shown(View(GlobalSchemaSelector.reads, {}))
      /\ Shown(View({}, GlobalSchemaSelector.offers))
      /\ Shown(SchemaNew)
      /\ Shown(SchemaDetails)
      /\ Shown(SchemaDiff)
      /\ Shown(SchemaEdit)
      /\ Shown(SchemaEditForm)
      /\ Shown(Nothing)
  <2>1. Shown(SchemaList)
    BY <1>1, <1>2, <1>3 DEF SchemaList, SchemaReads, SchemaHooks
  <2>2. Shown(View(GlobalSchemaSelector.reads, {}))
    <3>1. /\ GlobalSchemaSelector.reads = {useGetGlobalCompatibilityLayer}
          /\ GlobalSchemaSelector.offers = {Ask(useUpdateGlobalSchemaCompatibilityLevel, "")}
      BY DEF GlobalSchemaSelector, View
    <3>. QED BY <3>1, <1>1, <1>2, <1>3 DEF SchemaReads, SchemaHooks
  <2>3. Shown(View({}, GlobalSchemaSelector.offers))
    <3>1. /\ GlobalSchemaSelector.reads = {useGetGlobalCompatibilityLayer}
          /\ GlobalSchemaSelector.offers = {Ask(useUpdateGlobalSchemaCompatibilityLevel, "")}
      BY DEF GlobalSchemaSelector, View
    <3>. QED BY <3>1, <1>1, <1>2, <1>3 DEF SchemaReads, SchemaHooks
  <2>4. Shown(SchemaNew)
    BY <1>1, <1>2, <1>3 DEF SchemaNew, SchemaReads, SchemaHooks
  <2>5. Shown(SchemaDetails)
    BY <1>1, <1>2, <1>3 DEF SchemaDetails, SchemaReads, SchemaHooks
  <2>6. Shown(SchemaDiff)
    BY <1>1, <1>2, <1>3 DEF SchemaDiff, SchemaReads, SchemaHooks
  <2>7. Shown(SchemaEdit)
    BY <1>1, <1>2, <1>3 DEF SchemaEdit, SchemaReads, SchemaHooks
  <2>8. Shown(SchemaEditForm)
    BY <1>1, <1>2, <1>3 DEF SchemaEditForm, SchemaReads, SchemaHooks
  <2>9. Shown(Nothing)
    BY <1>1, <1>2, <1>3 DEF Nothing, SchemaReads, SchemaHooks
  <2>. QED BY <2>1, <2>2, <2>3, <2>4, <2>5, <2>6, <2>7, <2>8, <2>9
<1>7. Fine(SchemaPages["Schemas"])
  BY <1>4, <1>5, <1>6 DEF SchemaPages, Framed, Plain
<1>8. Fine(SchemaPages["SchemaNew"])
  BY <1>4, <1>5, <1>6 DEF SchemaPages, Framed, Plain
<1>9. Fine(SchemaPages["Schema"])
  BY <1>4, <1>5, <1>6 DEF SchemaPages, Framed, Plain
<1>10. Fine(SchemaPages["SchemaDiff"])
  BY <1>4, <1>5, <1>6 DEF SchemaPages, Framed, Plain
<1>11. Fine(SchemaPages["SchemaEdit"])
  BY <1>4, <1>5, <1>6 DEF SchemaPages, Framed, Plain
<1>12. \A p \in names : Fine(SchemaPages[p])
  BY <1>1, <1>7, <1>8, <1>9, <1>10, <1>11
<1>. QED BY <1>12 DEF names, Fine

AclReads == {useAcls, useTopics, useConsumerGroups}
AclHooks == {useCreateCustomAcl, useCreateConsumersAcl, useCreateProducerAcl,
             useCreateStreamAppAcl, useDeleteAclMutation}

\* The pages of the access rules.
LEMMA AclNames == DOMAIN AclPages = {"Acls", "AclForConsumers", "AclForProducers",
                                     "AclForStreams"}
BY DEF AclPages

\* They read and change nothing but what is listed for the access rules.
LEMMA AclSite ==
  \A p \in DOMAIN AclPages : ValidPage(AclPages[p], AclReads, AclHooks, DOMAIN AclPages)
<1>. DEFINE Control(o) == ValidOffer(o, AclHooks, DOMAIN AclPages)
            Shown(v) == ValidView(v, AclReads, AclHooks, DOMAIN AclPages)
            Fine(p) == ValidPage(p, AclReads, AclHooks, DOMAIN AclPages)
            names == DOMAIN AclPages
<1>1. names = {"Acls", "AclForConsumers", "AclForProducers", "AclForStreams"}
  BY AclNames
<1>2. \A h \in AclHooks, n \in names \cup {""} : \A f :
        /\ Control(Ask(h, n)) /\ Control(AskAlone(h))
        /\ Control(Press(h, TRUE)) /\ Control(Press(h, FALSE))
        /\ Control(Submit(f, <<h>>, n))
        /\ \A g \in AclHooks : Control(Submit(f, <<h, g>>, n))
        /\ Control(Offer(<<h>>, FALSE, FALSE, f, n))
  BY Controls
<1>3. ASSUME NEW W \in SUBSET AclReads, NEW O, \A o \in O : Control(o)
      PROVE  Shown(View(W, O))
  BY <1>3, ViewOf
<1>4. ASSUME NEW v, NEW w, Shown(v), Shown(w) PROVE Shown(v \sqcup w)
  BY <1>4, Together
<1>5. ASSUME NEW v, NEW w, Shown(v), Shown(w), NEW G, NEW L, NEW F, NEW E
      PROVE  Fine(Page(v, G, G, w, L, F)) /\ Fine(Page(v, E, {}, w, L, F))
  BY <1>5 DEF Page, ValidPage
<1>. HIDE DEF Control, Shown, Fine, names
<1>6. /\ Shown(AclList)
      /\ Shown(useTopicsOptions)
      /\ Shown(useConsumerGroupsOptions)
      /\ Shown(CustomACLForm)
      /\ Shown(View({}, {Press(useCreateConsumersAcl, FALSE)}))
      /\ Shown(View({}, {Press(useCreateProducerAcl, FALSE)}))
      /\ Shown(View({}, {Press(useCreateStreamAppAcl, FALSE)}))
      /\ Shown(Nothing)
  <2>1. Shown(AclList)
    BY <1>1, <1>2, <1>3 DEF AclList, AclReads, AclHooks
  <2>2. Shown(useTopicsOptions)
    BY <1>1, <1>2, <1>3 DEF useTopicsOptions, AclReads, AclHooks
  <2>3. Shown(useConsumerGroupsOptions)
    BY <1>1, <1>2, <1>3 DEF useConsumerGroupsOptions, AclReads, AclHooks
  <2>4. Shown(CustomACLForm)
    BY <1>1, <1>2, <1>3 DEF CustomACLForm, AclReads, AclHooks
  <2>5. Shown(View({}, {Press(useCreateConsumersAcl, FALSE)}))
    BY <1>1, <1>2, <1>3 DEF AclReads, AclHooks
  <2>6. Shown(View({}, {Press(useCreateProducerAcl, FALSE)}))
    BY <1>1, <1>2, <1>3 DEF AclReads, AclHooks
  <2>7. Shown(View({}, {Press(useCreateStreamAppAcl, FALSE)}))
    BY <1>1, <1>2, <1>3 DEF AclReads, AclHooks
  <2>8. Shown(Nothing)
    BY <1>1, <1>2, <1>3 DEF Nothing, AclReads, AclHooks
  <2>. QED BY <2>1, <2>2, <2>3, <2>4, <2>5, <2>6, <2>7, <2>8
<1>7. Fine(AclPages["Acls"])
  BY <1>4, <1>5, <1>6
     DEF AclPages, Framed, ForConsumersForm, ForProducersForm, ForKafkaStreamAppsForm
<1>8. Fine(AclPages["AclForConsumers"])
  BY <1>4, <1>5, <1>6
     DEF AclPages, Framed, ForConsumersForm, ForProducersForm, ForKafkaStreamAppsForm
<1>9. Fine(AclPages["AclForProducers"])
  BY <1>4, <1>5, <1>6
     DEF AclPages, Framed, ForConsumersForm, ForProducersForm, ForKafkaStreamAppsForm
<1>10. Fine(AclPages["AclForStreams"])
  BY <1>4, <1>5, <1>6
     DEF AclPages, Framed, ForConsumersForm, ForProducersForm, ForKafkaStreamAppsForm
<1>11. \A p \in names : Fine(AclPages[p])
  BY <1>1, <1>7, <1>8, <1>9, <1>10
<1>. QED BY <1>11 DEF names, Fine

BrokerReads == {useClusters, useClusterStats, useBrokers, useBrokerLogDirs,
                useBrokerMetrics, useBrokerConfig}
BrokerHooks == {useUpdateBrokerConfigByName}

\* The pages of the brokers.
LEMMA BrokerNames == DOMAIN BrokerPages = {"Brokers", "BrokerLogdirs", "BrokerMetrics",
                                           "BrokerConfigs"}
BY DEF BrokerPages

\* They read and change nothing but what is listed for the brokers.
LEMMA BrokerSite ==
  \A p \in DOMAIN BrokerPages :
     ValidPage(BrokerPages[p], BrokerReads, BrokerHooks, DOMAIN BrokerPages)
<1>. DEFINE Control(o) == ValidOffer(o, BrokerHooks, DOMAIN BrokerPages)
            Shown(v) == ValidView(v, BrokerReads, BrokerHooks, DOMAIN BrokerPages)
            Fine(p) == ValidPage(p, BrokerReads, BrokerHooks, DOMAIN BrokerPages)
            names == DOMAIN BrokerPages
<1>1. names = {"Brokers", "BrokerLogdirs", "BrokerMetrics", "BrokerConfigs"}
  BY BrokerNames
<1>2. \A h \in BrokerHooks, n \in names \cup {""} : \A f :
        /\ Control(Ask(h, n)) /\ Control(AskAlone(h))
        /\ Control(Press(h, TRUE)) /\ Control(Press(h, FALSE))
        /\ Control(Submit(f, <<h>>, n))
        /\ \A g \in BrokerHooks : Control(Submit(f, <<h, g>>, n))
        /\ Control(Offer(<<h>>, FALSE, FALSE, f, n))
  BY Controls
<1>3. ASSUME NEW W \in SUBSET BrokerReads, NEW O, \A o \in O : Control(o)
      PROVE  Shown(View(W, O))
  BY <1>3, ViewOf
<1>4. ASSUME NEW v, NEW w, Shown(v), Shown(w) PROVE Shown(v \sqcup w)
  BY <1>4, Together
<1>5. ASSUME NEW v, NEW w, Shown(v), Shown(w), NEW G, NEW L, NEW F, NEW E
      PROVE  Fine(Page(v, G, G, w, L, F)) /\ Fine(Page(v, E, {}, w, L, F))
  BY <1>5 DEF Page, ValidPage
<1>. HIDE DEF Control, Shown, Fine, names
<1>6. /\ Shown(BrokersList)
      /\ Shown(Broker)
      /\ Shown(BrokerLogdir)
      /\ Shown(BrokerMetrics)
      /\ Shown(Configs)
      /\ Shown(InputCell)
      /\ Shown(Nothing)
  <2>1. Shown(BrokersList)
    BY <1>1, <1>2, <1>3 DEF BrokersList, BrokerReads, BrokerHooks
  <2>2. Shown(Broker)
    BY <1>1, <1>2, <1>3 DEF Broker, BrokerReads, BrokerHooks
  <2>3. Shown(BrokerLogdir)
    BY <1>1, <1>2, <1>3 DEF BrokerLogdir, BrokerReads, BrokerHooks
  <2>4. Shown(BrokerMetrics)
    BY <1>1, <1>2, <1>3 DEF BrokerMetrics, BrokerReads, BrokerHooks
  <2>5. Shown(Configs)
    BY <1>1, <1>2, <1>3 DEF Configs, BrokerReads, BrokerHooks
  <2>6. Shown(InputCell)
    BY <1>1, <1>2, <1>3 DEF InputCell, BrokerReads, BrokerHooks
  <2>7. Shown(Nothing)
    BY <1>1, <1>2, <1>3 DEF Nothing, BrokerReads, BrokerHooks
  <2>. QED BY <2>1, <2>2, <2>3, <2>4, <2>5, <2>6, <2>7
<1>7. Fine(BrokerPages["Brokers"])
  BY <1>4, <1>5, <1>6 DEF BrokerPages, BrokerTab, Framed, Plain
<1>8. Fine(BrokerPages["BrokerLogdirs"])
  BY <1>4, <1>5, <1>6 DEF BrokerPages, BrokerTab, Framed, Plain
<1>9. Fine(BrokerPages["BrokerMetrics"])
  BY <1>4, <1>5, <1>6 DEF BrokerPages, BrokerTab, Framed, Plain
<1>10. Fine(BrokerPages["BrokerConfigs"])
  BY <1>4, <1>5, <1>6 DEF BrokerPages, BrokerTab, Framed, Plain
<1>11. \A p \in names : Fine(BrokerPages[p])
  BY <1>1, <1>7, <1>8, <1>9, <1>10
<1>. QED BY <1>11 DEF names, Fine

ListReads == {useGetUserInfo, useClusters, useKsqlTables, useKsqlStreams}
ListHooks == {}

\* The pages of the lists.
LEMMA ListNames == DOMAIN ListPages = {"Dashboard", "KsqlTables", "KsqlStreams"}
BY DEF ListPages

\* They read and change nothing but what is listed for the lists.
LEMMA ListSite ==
  \A p \in DOMAIN ListPages :
     ValidPage(ListPages[p], ListReads, ListHooks, DOMAIN ListPages)
<1>. DEFINE Control(o) == ValidOffer(o, ListHooks, DOMAIN ListPages)
            Shown(v) == ValidView(v, ListReads, ListHooks, DOMAIN ListPages)
            Fine(p) == ValidPage(p, ListReads, ListHooks, DOMAIN ListPages)
            names == DOMAIN ListPages
<1>1. names = {"Dashboard", "KsqlTables", "KsqlStreams"} BY ListNames
<1>2. \A h \in ListHooks, n \in names \cup {""} : \A f :
        /\ Control(Ask(h, n)) /\ Control(AskAlone(h))
        /\ Control(Press(h, TRUE)) /\ Control(Press(h, FALSE))
        /\ Control(Submit(f, <<h>>, n))
        /\ \A g \in ListHooks : Control(Submit(f, <<h, g>>, n))
        /\ Control(Offer(<<h>>, FALSE, FALSE, f, n))
  BY Controls
<1>3. ASSUME NEW W \in SUBSET ListReads, NEW O, \A o \in O : Control(o)
      PROVE  Shown(View(W, O))
  BY <1>3, ViewOf
<1>4. ASSUME NEW v, NEW w, Shown(v), Shown(w) PROVE Shown(v \sqcup w)
  BY <1>4, Together
<1>5. ASSUME NEW v, NEW w, Shown(v), Shown(w), NEW G, NEW L, NEW F, NEW E
      PROVE  Fine(Page(v, G, G, w, L, F)) /\ Fine(Page(v, E, {}, w, L, F))
  BY <1>5 DEF Page, ValidPage
<1>. HIDE DEF Control, Shown, Fine, names
<1>6. /\ Shown(Dashboard)
      /\ Shown(KsqlDb)
      /\ Shown(TableView(useKsqlTables))
      /\ Shown(TableView(useKsqlStreams))
      /\ Shown(Nothing)
  <2>1. Shown(Dashboard)
    BY <1>1, <1>2, <1>3 DEF Dashboard, ListReads, ListHooks
  <2>2. Shown(KsqlDb)
    BY <1>1, <1>2, <1>3 DEF KsqlDb, ListReads, ListHooks
  <2>3. Shown(TableView(useKsqlTables))
    BY <1>1, <1>2, <1>3 DEF TableView, ListReads, ListHooks
  <2>4. Shown(TableView(useKsqlStreams))
    BY <1>1, <1>2, <1>3 DEF TableView, ListReads, ListHooks
  <2>5. Shown(Nothing)
    BY <1>1, <1>2, <1>3 DEF Nothing, ListReads, ListHooks
  <2>. QED BY <2>1, <2>2, <2>3, <2>4, <2>5
<1>7. Fine(ListPages["Dashboard"])
  BY <1>4, <1>5, <1>6 DEF ListPages, KsqlTab, Framed, Plain
<1>8. Fine(ListPages["KsqlTables"])
  BY <1>4, <1>5, <1>6 DEF ListPages, KsqlTab, Framed, Plain
<1>9. Fine(ListPages["KsqlStreams"])
  BY <1>4, <1>5, <1>6 DEF ListPages, KsqlTab, Framed, Plain
<1>10. \A p \in names : Fine(ListPages[p])
  BY <1>1, <1>7, <1>8, <1>9
<1>. QED BY <1>10 DEF names, Fine

Covered(h, q) == \E prefix \in h.refreshes : IsPrefix(prefix, q.key)

\* The pairs of a request with facts.
LEMMA Pairs == \A r, F, c : c \in With(r, F) <=> \E f \in F : c = <<r, f>>
BY DEF With

\* The part of the server a request is about.
Area(r) == r.path[3]

\* What a request changes and what it shows is of one area of the cluster.
LEMMA Areas ==
  /\ \A c \in TopicChanges \cup TopicShows : Area(c[1]) = "topics"
  /\ \A c \in ConnectChanges \cup ConnectShows : Area(c[1]) \in {"connects",
     "connectors"}
  /\ \A c \in GroupChanges \cup GroupShows : Area(c[1]) = "consumer-groups"
  /\ \A c \in SchemaChanges \cup SchemaShows : Area(c[1]) = "schemas"
  /\ \A c \in OtherChanges \cup OtherShows : Area(c[1]) \in {"acls", "brokers"}
<1>1. \A c \in TopicChanges \cup TopicShows : Area(c[1]) = "topics"
  <2>1. \A r \in {createTopic, deleteTopic, recreateTopic, updateTopic,
                  increaseTopicPartitions,
                  changeReplicationFactor, deleteTopicMessages, sendTopicMessages,
                    analyzeTopic,
                  cancelTopicAnalysis, getTopics, getTopicDetails, getTopicConfigs,
                  listTopicAcls, getTopicAnalysis,
                    getTopicConsumerGroups} : Area(r) = "topics"
    BY DEF Area, createTopic, deleteTopic, recreateTopic, updateTopic,
       increaseTopicPartitions,
           changeReplicationFactor, deleteTopicMessages, sendTopicMessages,
             analyzeTopic,
           cancelTopicAnalysis, getTopics, getTopicDetails, getTopicConfigs,
           listTopicAcls, getTopicAnalysis, getTopicConsumerGroups, OnTopic, InCluster,
             Request
  <2>. QED BY <2>1, Pairs DEF TopicChanges, TopicShows
<1>2. \A c \in ConnectChanges \cup ConnectShows : Area(c[1]) \in {"connects",
  "connectors"}
  <2>1. \A r \in {createConnector, deleteConnector, updateConnectorState,
                  restartConnectorTask,
                  setConnectorConfig, getAllConnectors, getConnector, getConnectorTasks,
                  getConnectorConfig} : Area(r) \in {"connects", "connectors"}
    BY DEF Area, createConnector, deleteConnector, updateConnectorState,
       restartConnectorTask,
           setConnectorConfig, getAllConnectors, getConnector, getConnectorTasks,
           getConnectorConfig, OnConnector, InCluster, Request
  <2>. QED BY <2>1, Pairs DEF ConnectChanges, ConnectShows
<1>3. \A c \in GroupChanges \cup GroupShows : Area(c[1]) = "consumer-groups"
  <2>1. \A r \in {deleteConsumerGroup, resetConsumerGroupOffsets,
                  deleteConsumerGroupOffsets,
                  getConsumerGroupsPage, getConsumerGroup, getConsumerGroupsLag} :
            Area(r) = "consumer-groups"
    BY DEF Area, deleteConsumerGroup, resetConsumerGroupOffsets,
       deleteConsumerGroupOffsets,
           getConsumerGroupsPage, getConsumerGroup, getConsumerGroupsLag, OnGroup,
             InCluster, Request
  <2>. QED BY <2>1, Pairs DEF GroupChanges, GroupShows
<1>4. \A c \in SchemaChanges \cup SchemaShows : Area(c[1]) = "schemas"
  <2>1. \A r \in {createNewSchema, deleteSchema, updateSchemaCompatibilityLevel,
                  updateGlobalSchemaCompatibilityLevel, getSchemas, getLatestSchema,
                  getAllVersionsBySubject, getGlobalSchemaCompatibilityLevel} :
            Area(r) = "schemas"
    BY DEF Area, createNewSchema, deleteSchema, updateSchemaCompatibilityLevel,
           updateGlobalSchemaCompatibilityLevel, getSchemas, getLatestSchema,
           getAllVersionsBySubject, getGlobalSchemaCompatibilityLevel, OnSubject,
             InCluster, Request
  <2>. QED BY <2>1, Pairs DEF SchemaChanges, SchemaShows
<1>5. \A c \in OtherChanges \cup OtherShows : Area(c[1]) \in {"acls", "brokers"}
  <2>1. \A r \in {createAcl, createConsumerAcl, createProducerAcl, createStreamAppAcl,
                  deleteAcl,
                  updateBrokerConfigByName, listAcls, getBrokerConfig} :
            Area(r) \in {"acls", "brokers"}
    BY DEF Area, createAcl, createConsumerAcl, createProducerAcl, createStreamAppAcl,
       deleteAcl,
           updateBrokerConfigByName, listAcls, getBrokerConfig, InCluster, Request
  <2>. QED BY <2>1, Pairs DEF OtherChanges, OtherShows
<1>. QED BY <1>1, <1>2, <1>3, <1>4, <1>5

\* A key that continues another.
LEMMA Continued ==
  /\ \A r \in {<<>>, <<"config">>, <<"consumerGroups">>, <<"connectors">>, <<"acls">>,
               <<"statistics">>,
               <<"serdes", "SERIALIZE">>} : IsPrefix(topicKeys(<<>>), topicKey(r))
  /\ IsPrefix(topicKeys(<<>>), topicKeys(<<"filters">>))
  /\ IsPrefix(topicKey(<<"statistics">>), topicKey(<<"statistics">>))
BY DEF IsPrefix, topicKeys, topicKey

\* What a mutation of the topics changes it invalidates.
LEMMA TopicsCovered ==
  ASSUME NEW h \in TopicHooks, NEW q \in TopicReads, Affects(h.request, q)
  PROVE  Covered(h, q)
<1>1. PICK c \in Changes : c[1] = h.request /\ <<q.request, c[2]>> \in Shows
  BY DEF Affects
<1>2. Area(h.request) = "topics"
  BY DEF TopicHooks, OfTopics, useCreateTopic, useUpdateTopic,
     useIncreaseTopicPartitionsCount, useUpdateTopicReplicationFactor, useDeleteTopic,
       useClearTopicMessages, useRecreateTopic, useSendMessage, useAnalyzeTopic,
         useCancelTopicAnalysis,
   Mutation, Area, createTopic, deleteTopic, recreateTopic, updateTopic,
     increaseTopicPartitions,
           changeReplicationFactor, deleteTopicMessages, sendTopicMessages,
             analyzeTopic,
           cancelTopicAnalysis, OnTopic, InCluster, Request
<1>3. c \in TopicChanges BY <1>1, <1>2, Areas DEF Changes
<1>4. c[2] \in {"topics", "messages", "partitions", "config", "analysis"}
  BY <1>3, Pairs DEF TopicChanges
<1>5. q # useGetConsumerGroupsLag
  <2>1. SUFFICES ASSUME q = useGetConsumerGroupsLag PROVE FALSE OBVIOUS
  <2>2. Area(q.request) = "consumer-groups"
     BY <2>1 DEF useGetConsumerGroupsLag, useQuery, Query, getConsumerGroupsLag, Area,
        OnGroup, InCluster, Request
  <2>3. <<q.request, c[2]>> \in GroupShows BY <1>1, <2>2, Areas DEF Shows
  <2>4. c[2] \in {"groups", "offsets"} BY <2>3, Pairs DEF GroupShows
  <2>. QED BY <2>4, <1>4
<1>6. CASE h \notin {useAnalyzeTopic, useCancelTopicAnalysis}
  <2>1. h.refreshes = {topicKeys(<<>>)}
     BY <1>6 DEF TopicHooks, OfTopics, useCreateTopic, useUpdateTopic,
        useIncreaseTopicPartitionsCount, useUpdateTopicReplicationFactor,
          useDeleteTopic, useClearTopicMessages, useRecreateTopic, useSendMessage,
            Mutation
  <2>2. IsPrefix(topicKeys(<<>>), q.key)
    BY <1>5, Continued
       DEF TopicReads, useTopics, useTopicDetails, useTopicConfig,
           useTopicConsumerGroups, useTopicConnectors, useTopicAcls, useTopicAnalysis,
             useSerdes, useQuery, useSuspenseQuery, Query
  <2>. QED BY <2>1, <2>2 DEF Covered
<1>7. CASE h \in {useAnalyzeTopic, useCancelTopicAnalysis}
  <2>1. h.refreshes = {topicKey(<<"statistics">>)} /\ h.request \in {analyzeTopic,
                                                      cancelTopicAnalysis}
    BY <1>7 DEF useAnalyzeTopic, useCancelTopicAnalysis, Mutation
  <2>2. \A r \in {createTopic, deleteTopic, recreateTopic, updateTopic,
                  increaseTopicPartitions,
           changeReplicationFactor, deleteTopicMessages,
             sendTopicMessages} : r \notin {analyzeTopic, cancelTopicAnalysis}
     BY DEF createTopic, deleteTopic, recreateTopic, updateTopic,
        increaseTopicPartitions,
           changeReplicationFactor, deleteTopicMessages, sendTopicMessages,
             analyzeTopic,
           cancelTopicAnalysis, OnTopic, InCluster, Request
  <2>3. c[2] = "analysis" BY <1>1, <1>3, <2>1, <2>2, Pairs DEF TopicChanges
  <2>4. q.request = getTopicAnalysis
    <3>1. \A s \in Shows : s[2] = "analysis" => s[1] = getTopicAnalysis
      BY Pairs DEF Shows, TopicShows, ConnectShows, GroupShows, SchemaShows, OtherShows
    <3>. QED BY <3>1, <1>1, <2>3
  <2>5. q = useTopicAnalysis
    <3>1. \A r \in {getTopics, getTopicDetails, getTopicConfigs,
                    getTopicConsumerGroups, getTopicConnectors, listTopicAcls,
                      getSerdes} : r # getTopicAnalysis
       BY DEF getTopicAnalysis, getTopics, getTopicDetails, getTopicConfigs,
          getTopicConsumerGroups, getTopicConnectors, listTopicAcls, getSerdes,
            OnTopic, InCluster, Request
    <3>. QED BY <1>5, <2>4, <3>1
       DEF TopicReads, useTopics, useTopicDetails, useTopicConfig,
           useTopicConsumerGroups, useTopicConnectors, useTopicAcls, useTopicAnalysis,
             useSerdes, useQuery, useSuspenseQuery, Query
  <2>6. q.key = topicKey(<<"statistics">>) BY <2>5 DEF useTopicAnalysis, Query
  <2>. QED BY <2>1, <2>6, Continued DEF Covered
<1>. QED BY <1>6, <1>7

\* What the pages of the connectors read.
LEMMA ConnectAsks ==
  /\ useConnectors.request = getAllConnectors /\ useConnector.request = getConnector
  /\ useConnectorTasks.request = getConnectorTasks
  /\ useConnectorConfig.request = getConnectorConfig
  /\ \A q \in ConnectReads :
        \/ q \in {useConnectors, useConnector, useConnectorTasks, useConnectorConfig}
        \/ q.request = getConnects
<1>1. /\ useConnects("withStats").request = getConnects
      /\ useConnects("").request = getConnects
  BY DEF useConnects, useQuery, Query
<1>. QED
  BY <1>1 DEF ConnectReads, useConnectors, useConnector, useConnectorTasks,
     useConnectorConfig,
              useQuery, Query

\* What a mutation of the connectors changes it invalidates; the configuration is
\* changed by its own mutation alone.
LEMMA ConnectCovered ==
  ASSUME NEW h \in ConnectHooks, NEW q \in ConnectReads, Affects(h.request, q)
  PROVE  /\ Covered(h, q)
         /\ q = useConnectorConfig => h = useUpdateConnectorConfig
<1>1. PICK c \in Changes : c[1] = h.request /\ <<q.request, c[2]>> \in Shows
  BY DEF Affects
<1>2. h.request \in {updateConnectorState, restartConnectorTask, setConnectorConfig,
                     createConnector, deleteConnector, resetConnectorOffsets}
  BY DEF ConnectHooks, useUpdateConnectorState, useRestartConnectorTask,
         useUpdateConnectorConfig, useCreateConnector, useDeleteConnector,
         useResetConnectorOffsets, Mutation
<1>3. c \in ConnectChanges
  <2>1. \A r \in {updateConnectorState, restartConnectorTask, setConnectorConfig,
                  createConnector, deleteConnector,
                    resetConnectorOffsets} : Area(r) = "connects"
    BY DEF Area, updateConnectorState, restartConnectorTask, setConnectorConfig,
           createConnector, deleteConnector, resetConnectorOffsets, OnConnector,
             InCluster, Request
  <2>. QED BY <1>1, <1>2, <2>1, Areas DEF Changes
<1>4. <<q.request, c[2]>> \in ConnectShows
  <2>1. \A r \in {getConnects, getAllConnectors, getConnector, getConnectorTasks,
                  getConnectorConfig} : Area(r) \in {"connects", "connectors"}
    BY DEF getConnects, getAllConnectors, getConnector, getConnectorTasks,
       getConnectorConfig,
           Area, OnConnector, InCluster, Request
  <2>. QED BY <1>1, <2>1, ConnectAsks, Areas DEF Shows
<1>5. /\ h.request = updateConnectorState => c[2] \in {"state", "tasks"}
      /\ h.request = restartConnectorTask => c[2] = "tasks"
      /\ h.request = setConnectorConfig => c[2] = "connectorConfig"
      /\ h.request \in {createConnector, deleteConnector} => c[2] = "connectors"
      /\ h.request # resetConnectorOffsets
  <2>1. /\ createConnector # updateConnectorState
        /\ createConnector # restartConnectorTask
        /\ createConnector # setConnectorConfig
        /\ deleteConnector # updateConnectorState
        /\ deleteConnector # restartConnectorTask
        /\ deleteConnector # setConnectorConfig
        /\ updateConnectorState # restartConnectorTask
        /\ updateConnectorState # setConnectorConfig
        /\ restartConnectorTask # setConnectorConfig
        /\ resetConnectorOffsets \notin {createConnector, deleteConnector,
                                         updateConnectorState,
                                         restartConnectorTask, setConnectorConfig}
    BY DEF updateConnectorState, restartConnectorTask, setConnectorConfig,
       createConnector,
           deleteConnector, resetConnectorOffsets, OnConnector, InCluster, Request
  <2>. QED BY <2>1, <1>1, <1>3, Pairs DEF ConnectChanges
<1>6. /\ q = useConnectors => c[2] \in {"connectors", "state"}
      /\ q = useConnector => c[2] \in {"state", "connectorConfig"}
      /\ q = useConnectorTasks => c[2] \in {"state", "tasks"}
      /\ q = useConnectorConfig => c[2] = "connectorConfig"
      /\ q \in {useConnectors, useConnector, useConnectorTasks, useConnectorConfig}
  <2>1. /\ getAllConnectors # getConnector /\ getAllConnectors # getConnectorTasks
        /\ getAllConnectors # getConnectorConfig /\ getConnector # getConnectorTasks
        /\ getConnector # getConnectorConfig /\ getConnectorTasks # getConnectorConfig
        /\ getConnects \notin {getAllConnectors, getConnector, getConnectorTasks,
                               getConnectorConfig}
    BY DEF getConnects, getAllConnectors, getConnector, getConnectorTasks,
       getConnectorConfig,
           OnConnector, InCluster, Request
  <2>2. /\ \A f : <<getConnects, f>> \notin ConnectShows
        /\ \A f : <<getAllConnectors, f>> \in ConnectShows => f \in {"connectors",
           "state"}
        /\ \A f : <<getConnector, f>> \in ConnectShows => f \in {"state",
           "connectorConfig"}
        /\ \A f : <<getConnectorTasks, f>> \in ConnectShows => f \in {"state", "tasks"}
        /\ \A f : <<getConnectorConfig, f>> \in ConnectShows => f = "connectorConfig"
    BY <2>1, Pairs DEF ConnectShows
  <2>. QED BY <2>2, <1>4, ConnectAsks
<1>7. /\ useUpdateConnectorState.request = updateConnectorState
      /\ useUpdateConnectorState.refreshes = {connectorsKey, connectorKey(<<>>)}
      /\ useRestartConnectorTask.request = restartConnectorTask
      /\ useRestartConnectorTask.refreshes = {connectorTasksKey}
      /\ useUpdateConnectorConfig.request = setConnectorConfig
      /\ useUpdateConnectorConfig.refreshes = {connectorKey(<<>>)}
      /\ useCreateConnector.request = createConnector
      /\ useCreateConnector.refreshes = {connectorsKey}
      /\ useDeleteConnector.request = deleteConnector
      /\ useDeleteConnector.refreshes = {connectorsKey}
      /\ useResetConnectorOffsets.request = resetConnectorOffsets
  BY DEF useUpdateConnectorState, useRestartConnectorTask, useUpdateConnectorConfig,
         useCreateConnector, useDeleteConnector, useResetConnectorOffsets, Mutation
<1>8. /\ useConnectors.key = connectorsKey /\ useConnector.key = connectorKey(<<>>)
      /\ useConnectorTasks.key = connectorTasksKey
      /\ useConnectorConfig.key = connectorKey(<<"config">>)
  BY DEF useConnectors, useConnector, useConnectorTasks, useConnectorConfig, useQuery,
     Query
<1>9. /\ IsPrefix(connectorsKey, connectorsKey)
      /\ IsPrefix(connectorKey(<<>>), connectorKey(<<>>))
      /\ IsPrefix(connectorKey(<<>>), connectorTasksKey)
      /\ IsPrefix(connectorKey(<<>>), connectorKey(<<"config">>))
      /\ IsPrefix(connectorTasksKey, connectorTasksKey)
  BY DEF IsPrefix, connectorsKey, connectorKey, connectorTasksKey
<1>. QED BY <1>5, <1>6, <1>7, <1>8, <1>9 DEF Covered, ConnectHooks

Lagging(r, q) == r \in {c[1] : c \in GroupChanges} /\ q = useGetConsumerGroupsLag

\* What a mutation of the groups changes it invalidates, the lag excepted.
LEMMA GroupsCovered ==
  ASSUME NEW h \in GroupHooks, NEW q \in GroupReads, Affects(h.request, q)
  PROVE  Covered(h, q) \/ Lagging(h.request, q)
<1>1. h.request \in {deleteConsumerGroup, resetConsumerGroupOffsets,
                     deleteConsumerGroupOffsets}
      /\ h.refreshes = {groupKeys(<<>>)}
  BY DEF GroupHooks, useDeleteConsumerGroupMutation,
     useResetConsumerGroupOffsetsMutation,
         useDeleteConsumerGroupOffsetsMutation, OfGroups, Mutation
<1>2. h.request \in {c[1] : c \in GroupChanges}
  <2>1. /\ <<deleteConsumerGroup, "groups">> \in GroupChanges
        /\ <<resetConsumerGroupOffsets, "offsets">> \in GroupChanges
        /\ <<deleteConsumerGroupOffsets, "offsets">> \in GroupChanges
    BY Pairs DEF GroupChanges
  <2>. QED BY <1>1, <2>1
<1>3. q # useGetConsumerGroupsLag => IsPrefix(groupKeys(<<>>), q.key)
  BY DEF GroupReads, useConsumerGroups, useConsumerGroupDetails, useQuery, Query,
     IsPrefix, groupKeys
<1>. QED BY <1>1, <1>2, <1>3 DEF Covered, Lagging

Subjects == {useGetLatestSchema, useGetSchemasVersions}
SchemaRequests == {c[1] : c \in SchemaChanges}

\* What the mutations of the schemas ask for, and invalidate.
LEMMA SchemaHooksAre ==
  /\ useCreateSchema.request = createNewSchema /\ useDeleteSchema.request = deleteSchema
  /\ useUpdateSchemaCompatibilityLayer.request = updateSchemaCompatibilityLevel
  /\ useUpdateGlobalSchemaCompatibilityLevel.request = updateGlobalSchemaCompatibilityLevel
  /\ \A h \in SchemaHooks : h.request \in SchemaRequests /\ schemaListKey \in h.refreshes
  /\ useUpdateGlobalSchemaCompatibilityLevel.refreshes = {globalCompatibilityKey,
     schemaListKey}
  /\ \A h \in SchemaHooks : h.refreshes \subseteq {globalCompatibilityKey,
                                                   schemaListKey}
<1>1. /\ <<createNewSchema, "schemas">> \in SchemaChanges
      /\ <<deleteSchema, "schemas">> \in SchemaChanges
      /\ <<updateSchemaCompatibilityLevel, "compatibility">> \in SchemaChanges
      /\ <<updateGlobalSchemaCompatibilityLevel, "global">> \in SchemaChanges
  BY Pairs DEF SchemaChanges
<1>2. {createNewSchema, deleteSchema, updateSchemaCompatibilityLevel,
       updateGlobalSchemaCompatibilityLevel} \subseteq SchemaRequests
  BY <1>1 DEF SchemaRequests
<1>. QED
  BY <1>2 DEF SchemaHooks, useCreateSchema, useDeleteSchema,
     useUpdateSchemaCompatibilityLayer,
         useUpdateGlobalSchemaCompatibilityLevel, OfSchemas, Mutation

\* What the schema requests change.
LEMMA SchemaFacts ==
  /\ \A c \in Changes : c[1] \in SchemaRequests =>
        /\ c \in SchemaChanges
        /\ c[1] = deleteSchema => c[2] = "schemas"
        /\ c[2] = "global" => c[1] = updateGlobalSchemaCompatibilityLevel
  /\ \A q \in SchemaReads : \A f : <<q.request, f>> \in Shows =>
        /\ q \in Subjects => f \in {"versions", "compatibility"}
        /\ q = useGetGlobalCompatibilityLayer => f = "global"
<1>1. \A r \in SchemaRequests : Area(r) = "schemas" BY Areas DEF SchemaRequests
<1>2. ASSUME NEW c \in Changes, c[1] \in SchemaRequests PROVE c \in SchemaChanges
  BY <1>1, <1>2, Areas DEF Changes
<1>3. /\ deleteSchema # createNewSchema /\ deleteSchema # updateSchemaCompatibilityLevel
      /\ deleteSchema # updateGlobalSchemaCompatibilityLevel
  BY DEF createNewSchema, deleteSchema, updateSchemaCompatibilityLevel,
         updateGlobalSchemaCompatibilityLevel, OnSubject, InCluster, Request
<1>4. \A c \in SchemaChanges : /\ c[1] = deleteSchema => c[2] = "schemas"
                               /\ c[2] = "global" => c[1] = updateGlobalSchemaCompatibilityLevel
  BY <1>3, Pairs DEF SchemaChanges
<1>5. ASSUME NEW q \in SchemaReads, NEW f, <<q.request, f>> \in Shows
      PROVE  /\ q \in Subjects => f \in {"versions", "compatibility"}
             /\ q = useGetGlobalCompatibilityLayer => f = "global"
  <2>1. /\ useGetSchemas.request = getSchemas
        /\ useGetLatestSchema.request = getLatestSchema
        /\ useGetSchemasVersions.request = getAllVersionsBySubject
        /\ useGetGlobalCompatibilityLayer.request = getGlobalSchemaCompatibilityLevel
    BY DEF useGetSchemas, useGetLatestSchema, useGetSchemasVersions,
           useGetGlobalCompatibilityLayer, useQuery, Query
  <2>2. q.request \in {getSchemas, getLatestSchema, getAllVersionsBySubject,
                       getGlobalSchemaCompatibilityLevel}
    BY <2>1 DEF SchemaReads
  <2>3. Area(q.request) = "schemas"
    BY <2>2 DEF getSchemas, getLatestSchema, getAllVersionsBySubject,
         getGlobalSchemaCompatibilityLevel, Area, OnSubject, InCluster, Request
  <2>4. <<q.request, f>> \in SchemaShows BY <1>5, <2>3, Areas DEF Shows
  <2>5. /\ getLatestSchema # getSchemas
        /\ getLatestSchema # getGlobalSchemaCompatibilityLevel
        /\ getAllVersionsBySubject # getSchemas
        /\ getAllVersionsBySubject # getGlobalSchemaCompatibilityLevel
        /\ getSchemas # getGlobalSchemaCompatibilityLevel
    BY DEF getSchemas, getLatestSchema, getAllVersionsBySubject,
           getGlobalSchemaCompatibilityLevel, OnSubject, InCluster, Request
  <2>. QED BY <2>1, <2>4, <2>5, Pairs DEF SchemaShows, Subjects
<1>. QED BY <1>2, <1>4, <1>5

\* What a mutation of the schemas changes it invalidates, the queries of the subject
\* excepted, which a deletion does not change.
LEMMA SchemasCovered ==
  ASSUME NEW h \in SchemaHooks, NEW q \in SchemaReads, Affects(h.request, q)
  PROVE  /\ h.request \in SchemaRequests
         /\ Covered(h, q) \/ q \in Subjects
         /\ q \in Subjects => h.request # deleteSchema
<1>1. PICK c \in Changes : c[1] = h.request /\ <<q.request, c[2]>> \in Shows
  BY DEF Affects
<1>2. h.request \in SchemaRequests BY SchemaHooksAre
<1>3. q \in Subjects => h.request # deleteSchema BY <1>1, <1>2, SchemaFacts
<1>4. CASE q = useGetSchemas
  <2>1. IsPrefix(schemaListKey, q.key)
    BY <1>4 DEF useGetSchemas, useQuery, Query, IsPrefix, schemaListKey
  <2>. QED BY <2>1, <1>2, <1>3, SchemaHooksAre DEF Covered
<1>5. CASE q = useGetGlobalCompatibilityLayer
  <2>1. h.request = updateGlobalSchemaCompatibilityLevel
    BY <1>1, <1>2, <1>5, SchemaFacts
  <2>2. updateGlobalSchemaCompatibilityLevel \notin
          {createNewSchema, deleteSchema, updateSchemaCompatibilityLevel}
    BY DEF createNewSchema, deleteSchema, updateSchemaCompatibilityLevel,
           updateGlobalSchemaCompatibilityLevel, OnSubject, InCluster, Request
  <2>3. h = useUpdateGlobalSchemaCompatibilityLevel
    BY <2>1, <2>2, SchemaHooksAre DEF SchemaHooks
  <2>4. q.key = globalCompatibilityKey /\ IsPrefix(globalCompatibilityKey, globalCompatibilityKey)
    BY <1>5 DEF useGetGlobalCompatibilityLayer, useQuery, Query, IsPrefix,
       globalCompatibilityKey
  <2>. QED BY <2>3, <2>4, <1>2, <1>3, SchemaHooksAre DEF Covered
<1>. QED BY <1>2, <1>3, <1>4, <1>5 DEF SchemaReads, Subjects

\* What a mutation of the access rules changes it invalidates.
LEMMA AclsCovered ==
  ASSUME NEW h \in AclHooks, NEW q \in AclReads, Affects(h.request, q)
  PROVE  Covered(h, q)
<1>1. PICK c \in Changes : c[1] = h.request /\ <<q.request, c[2]>> \in Shows
  BY DEF Affects
<1>2. /\ h.request \in {createAcl, createConsumerAcl, createProducerAcl,
                        createStreamAppAcl,
                        deleteAcl}
      /\ h.refreshes = {aclsKey}
  BY DEF AclHooks, useCreateCustomAcl, useCreateConsumersAcl, useCreateProducerAcl,
         useCreateStreamAppAcl, useDeleteAclMutation, OfAcls, Mutation
<1>3. Area(h.request) = "acls" /\ h.request # updateBrokerConfigByName
  BY <1>2 DEF createAcl, createConsumerAcl, createProducerAcl, createStreamAppAcl,
     deleteAcl,
              updateBrokerConfigByName, Area, InCluster, Request
<1>4. c[2] = "acls"
  <2>1. c \in OtherChanges BY <1>1, <1>3, Areas DEF Changes
  <2>. QED BY <2>1, <1>1, <1>3, Pairs DEF OtherChanges
<1>5. q = useAcls
  <2>1. Area(getTopics) = "topics" /\ Area(getConsumerGroupsPage) = "consumer-groups"
        /\ getTopics # listTopicAcls
    BY DEF getTopics, getConsumerGroupsPage, listTopicAcls, Area, OnTopic, InCluster,
       Request
  <2>2. useTopics.request = getTopics /\ useConsumerGroups.request = getConsumerGroupsPage
    BY DEF useTopics, useConsumerGroups, useQuery, Query
  <2>3. <<getTopics, "acls">> \notin Shows
    <3>1. SUFFICES ASSUME <<getTopics, "acls">> \in Shows PROVE FALSE OBVIOUS
    <3>2. <<getTopics, "acls">> \in TopicShows BY <3>1, <2>1, Areas DEF Shows
    <3>. QED BY <3>2, <2>1, Pairs DEF TopicShows
  <2>4. <<getConsumerGroupsPage, "acls">> \notin Shows
    <3>1. SUFFICES ASSUME <<getConsumerGroupsPage,
                            "acls">> \in Shows PROVE FALSE OBVIOUS
    <3>2. <<getConsumerGroupsPage, "acls">> \in GroupShows
      BY <3>1, <2>1, Areas DEF Shows
    <3>. QED BY <3>2, Pairs DEF GroupShows
  <2>. QED BY <1>1, <1>4, <2>2, <2>3, <2>4 DEF AclReads
<1>6. IsPrefix(aclsKey, q.key) BY <1>5 DEF useAcls, useQuery, Query, IsPrefix, aclsKey
<1>. QED BY <1>2, <1>6 DEF Covered

\* What a mutation of the brokers changes it invalidates.
LEMMA BrokersCovered ==
  ASSUME NEW h \in BrokerHooks, NEW q \in BrokerReads, Affects(h.request, q)
  PROVE  Covered(h, q)
<1>1. PICK c \in Changes : c[1] = h.request /\ <<q.request, c[2]>> \in Shows
  BY DEF Affects
<1>2. /\ h.request = updateBrokerConfigByName
      /\ h.refreshes = {brokerKey(<<"b", "settings">>)}
  BY DEF BrokerHooks, useUpdateBrokerConfigByName, Mutation
<1>3. c[2] = "broker"
  <2>1. /\ Area(updateBrokerConfigByName) = "brokers"
        /\ \A r \in {createAcl, createConsumerAcl, createProducerAcl,
                     createStreamAppAcl,
                     deleteAcl} : r # updateBrokerConfigByName
    BY DEF createAcl, createConsumerAcl, createProducerAcl, createStreamAppAcl,
       deleteAcl,
           updateBrokerConfigByName, Area, InCluster, Request
  <2>2. c \in OtherChanges BY <1>1, <1>2, <2>1, Areas DEF Changes
  <2>. QED BY <2>1, <2>2, <1>1, <1>2, Pairs DEF OtherChanges
<1>4. q.request = getBrokerConfig
  <2>1. \A s \in Shows : s[2] = "broker" => s[1] = getBrokerConfig
    BY Pairs DEF Shows, TopicShows, ConnectShows, GroupShows, SchemaShows, OtherShows
  <2>. QED BY <2>1, <1>1, <1>3
<1>5. q = useBrokerConfig
  <2>1. getBrokerConfig \notin {getClusters, getClusterStats, getBrokers,
                                getAllBrokersLogdirs,
                                getBrokersMetrics}
    BY DEF getBrokerConfig, getClusters, getClusterStats, getBrokers,
       getAllBrokersLogdirs,
           getBrokersMetrics, InCluster, Request
  <2>. QED BY <2>1, <1>4 DEF BrokerReads, useClusters, useClusterStats, useBrokers,
              useBrokerLogDirs, useBrokerMetrics, useBrokerConfig, useQuery,
                useSuspenseQuery, Query
<1>6. IsPrefix(brokerKey(<<"b", "settings">>), q.key)
  BY <1>5 DEF useBrokerConfig, useSuspenseQuery, Query, IsPrefix, brokerKey
<1>. QED BY <1>2, <1>6 DEF Covered

OffersOf(site) == UNION {v.offers : v \in Whole(site)}

\* A page belongs to one site.
LEMMA OneSite ==
  ASSUME NEW S \in Sites, NEW R \in Sites, NEW p \in DOMAIN S, p \in DOMAIN R
  PROVE  S = R
BY TopicNames, ConnectNames, GroupNames, SchemaNames, AclNames, BrokerNames,
   ListNames DEF Sites

\* A page belongs to one area of the interface.
LEMMA SiteIs ==
  ASSUME NEW S \in Sites, NEW p \in DOMAIN S
  PROVE  SiteOf(p) = S
BY OneSite DEF SiteOf

\* The views of a page are among those of its area.
LEMMA PageViews ==
  ASSUME NEW S, NEW p \in DOMAIN S
  PROVE  /\ S[p].outer \in Whole(S) /\ S[p].inner \in Whole(S)
         /\ S[p].outer.offers \subseteq OffersOf(S)
         /\ S[p].inner.offers \subseteq OffersOf(S)
         /\ S[p].gate \cap UNION {v.reads : v \in Whole(S)} \subseteq QueriesOf(S)
BY DEF Whole, OffersOf, QueriesOf

\* What the site's pages all have.
SiteOK(S) ==
  /\ \A p \in DOMAIN S : S[p].quiet \subseteq S[p].gate
  /\ \A o \in OffersOf(S) :
        /\ o.confirm \in BOOLEAN /\ o.then \in DOMAIN S \cup {""}
        /\ Len(o.steps) \in {1, 2} /\ DOMAIN o.steps = 1..Len(o.steps)
        /\ \A k \in DOMAIN o.steps :
              /\ o.steps[k].request \in RequestsOf(S)
              /\ \A q \in QueriesOf(S) : Affects(o.steps[k].request, q) =>
                    \/ Covered(o.steps[k], q)
                    \/ Lagging(o.steps[k].request, q)
                    \/ o.steps[k].request \in SchemaRequests /\ q \in Subjects

\* An area of valid pages whose mutations are covered is valid.
LEMMA SiteFrom ==
  ASSUME NEW S, NEW reads, NEW hooks,
         \A p \in DOMAIN S : ValidPage(S[p], reads, hooks, DOMAIN S),
         \A h \in hooks, q \in reads : Affects(h.request, q) =>
            \/ Covered(h, q) \/ Lagging(h.request, q)
            \/ h.request \in SchemaRequests /\ q \in Subjects
  PROVE  SiteOK(S)
<1>1. \A v \in Whole(S) : ValidView(v, reads, hooks, DOMAIN S) BY DEF Whole, ValidPage
<1>2. \A o \in OffersOf(S) : ValidOffer(o, hooks, DOMAIN S)
  BY <1>1 DEF OffersOf, ValidView
<1>3. QueriesOf(S) \subseteq reads BY <1>1 DEF QueriesOf, ValidView
<1>4. ASSUME NEW o \in OffersOf(S)
      PROVE  /\ Len(o.steps) \in {1, 2} /\ DOMAIN o.steps = 1..Len(o.steps)
             /\ \A k \in DOMAIN o.steps : o.steps[k] \in hooks
  <2>1. CASE \E h \in hooks : o.steps = <<h>>
    <3>1. PICK h \in hooks : o.steps = <<h>> BY <2>1
    <3>. QED BY <3>1
  <2>2. CASE \E h, g \in hooks : o.steps = <<h, g>>
    <3>1. PICK h \in hooks, g \in hooks : o.steps = <<h, g>> BY <2>2
    <3>. QED BY <3>1
  <2>. QED BY <1>2, <2>1, <2>2 DEF ValidOffer
<1>5. ASSUME NEW o \in OffersOf(S), NEW k \in DOMAIN o.steps
      PROVE  o.steps[k].request \in RequestsOf(S)
  <2>1. o.steps[k] \in Range(o.steps) BY DEF Range
  <2>2. o \in UNION {v.offers : v \in Whole(S)} BY DEF OffersOf
  <2>. QED BY <2>1, <2>2 DEF RequestsOf
<1>6. \A p \in DOMAIN S : S[p].quiet \subseteq S[p].gate BY DEF ValidPage
<1>7. \A o \in OffersOf(S) : o.confirm \in BOOLEAN /\ o.then \in DOMAIN S \cup {""}
  BY <1>2 DEF ValidOffer
<1>. QED BY <1>3, <1>4, <1>5, <1>6, <1>7 DEF SiteOK

\* Every area of the interface is valid.
LEMMA EverySite == \A S \in Sites : SiteOK(S)
<1>1. SiteOK(TopicPages) BY SiteFrom, TopicSite, TopicsCovered
<1>2. SiteOK(ConnectPages) BY SiteFrom, ConnectSite, ConnectCovered
<1>3. SiteOK(GroupPages) BY SiteFrom, GroupSite, GroupsCovered
<1>4. SiteOK(SchemaPages) BY SiteFrom, SchemaSite, SchemasCovered
<1>5. SiteOK(AclPages) BY SiteFrom, AclSite, AclsCovered
<1>6. SiteOK(BrokerPages) BY SiteFrom, BrokerSite, BrokersCovered
<1>7. SiteOK(ListPages)
  <2>1. \A h \in ListHooks : FALSE BY DEF ListHooks
  <2>. QED BY <2>1, SiteFrom, ListSite
<1>. QED BY <1>1, <1>2, <1>3, <1>4, <1>5, <1>6, <1>7 DEF Sites

\* The pages with a text to type.
LEMMA Forms ==
  ASSUME NEW S \in Sites, NEW p \in DOMAIN S, S[p].form.typed
  PROVE  /\ S[p].quiet = {} \/ (S = SchemaPages /\ p = "SchemaEdit")
         /\ \/ S[p].form.source = {}
            \/ /\ S = ConnectPages /\ p = "ConnectorConfig"
               /\ S[p].form.source = {useConnectorConfig}
<1>1. CASE S = TopicPages
  BY <1>1, TopicNames
     DEF TopicPages, TopicListPage, TopicTab, Plain, Framed, Page, NoForm, Form
<1>2. CASE S = ConnectPages
  BY <1>2, ConnectNames
     DEF ConnectPages, ConnectorTab, Plain, Framed, Page, NoForm, Form
<1>3. CASE S = GroupPages
  BY <1>3, GroupNames DEF GroupPages, Page, NoForm, Form
<1>4. CASE S = SchemaPages
  BY <1>4, SchemaNames DEF SchemaPages, Plain, Framed, Page, NoForm, Form
<1>5. CASE S = AclPages
  BY <1>5, AclNames DEF AclPages, Framed, Page, NoForm, Form
<1>6. CASE S = BrokerPages
  BY <1>6, BrokerNames DEF BrokerPages, BrokerTab, Plain, Framed, Page, NoForm, Form
<1>7. CASE S = ListPages
  BY <1>7, ListNames DEF ListPages, KsqlTab, Plain, Framed, Page, NoForm, Form
<1>. QED BY <1>1, <1>2, <1>3, <1>4, <1>5, <1>6, <1>7 DEF Sites

\* The form of a connector's configuration.
SaveConfig == Submit("Config", <<useUpdateConnectorConfig>>, "")

\* No other control changes the configuration of a connector.
LEMMA ConfigForm ==
  /\ SaveConfig \in ConnectPages["ConnectorConfig"].inner.offers
  /\ Len(SaveConfig.steps) = 1
  /\ \A o \in OffersOf(ConnectPages) : \A k \in DOMAIN o.steps :
        Affects(o.steps[k].request, useConnectorConfig) => o = SaveConfig
<1>1. ConnectPages["ConnectorConfig"].inner.offers = {SaveConfig}
  BY DEF ConnectPages, ConnectorTab, Page, ConnectorConfig, View, SaveConfig
<1>2. Len(SaveConfig.steps) = 1 BY DEF SaveConfig, Submit, Offer
<1>. DEFINE others == ConnectHooks \ {useUpdateConnectorConfig}
            Safe(o) == o = SaveConfig \/ \E h \in others : o.steps = <<h>>
            SafeView(v) == \A o \in v.offers : Safe(o)
<1>3. /\ \A h \in others : \A n : Safe(Ask(h, n)) /\ Safe(AskAlone(h)) /\ Safe(Press(h, TRUE))
                                 /\ Safe(Submit("New", <<h>>, n))
      /\ Safe(SaveConfig)
  BY DEF Ask, AskAlone, Press, Submit, Offer
<1>4. /\ \A W, O : (\A o \in O : Safe(o)) => SafeView(View(W, O))
      /\ \A v, w : SafeView(v) /\ SafeView(w) => SafeView(v \sqcup w)
  BY DEF \sqcup, View
<1>5. {useUpdateConnectorState, useRestartConnectorTask, useCreateConnector,
       useDeleteConnector,
       useResetConnectorOffsets} \subseteq others
  <2>1. /\ updateConnectorState # setConnectorConfig
        /\ restartConnectorTask # setConnectorConfig
        /\ createConnector # setConnectorConfig /\ deleteConnector # setConnectorConfig
        /\ resetConnectorOffsets # setConnectorConfig
    BY DEF updateConnectorState, restartConnectorTask, setConnectorConfig,
           createConnector, deleteConnector, resetConnectorOffsets, OnConnector,
             InCluster, Request
  <2>. QED BY <2>1 DEF ConnectHooks, useUpdateConnectorState, useRestartConnectorTask,
              useUpdateConnectorConfig, useCreateConnector, useDeleteConnector,
              useResetConnectorOffsets, Mutation
<1>6. \A v \in Whole(ConnectPages) : SafeView(v)
  <2>. HIDE DEF others, Safe, SafeView
  <2>1. /\ SafeView(ConnectHeader) /\ SafeView(Clusters) /\ SafeView(ConnectorsTable)
        /\ SafeView(ConnectorDetailsPage) /\ SafeView(ConnectorTasks)
        /\ SafeView(ConnectorTopics) /\ SafeView(Nothing)
    BY <1>4 DEF ConnectHeader, Clusters, ConnectorsTable, ConnectorDetailsPage,
       ConnectorTasks,
                ConnectorTopics, Nothing
  <2>2. SafeView(ConnectorStateItems) BY <1>3, <1>4, <1>5 DEF ConnectorStateItems
  <2>3. SafeView(ConnectorDangerItems) BY <1>3, <1>4, <1>5 DEF ConnectorDangerItems
  <2>4. SafeView(ConnectorNew) BY <1>3, <1>4, <1>5 DEF ConnectorNew
  <2>5. SafeView(RestartMenu) BY <1>3, <1>4, <1>5 DEF RestartMenu
  <2>6. SafeView(DangerMenu) BY <1>3, <1>4, <1>5 DEF DangerMenu
  <2>7. SafeView(ActionsCellTasks) BY <1>3, <1>4, <1>5 DEF ActionsCellTasks
  <2>8. SafeView(ConnectorConfig) BY <1>3, <1>4 DEF ConnectorConfig, SaveConfig
  <2>9. /\ SafeView(ConnectHeader \sqcup Clusters)
        /\ SafeView(ConnectHeader \sqcup ConnectorsTable \sqcup ConnectorActionsCell)
        /\ SafeView(ConnectorTasks \sqcup ActionsCellTasks)
        /\ SafeView(ConnectorDetailsPage \sqcup ConnectorActions)
    BY <1>4, <2>1, <2>2, <2>3, <2>5, <2>6, <2>7
       DEF ConnectorActionsCell, ConnectorActions
  <2>10. ASSUME NEW p \in DOMAIN ConnectPages
         PROVE  SafeView(ConnectPages[p].outer) /\ SafeView(ConnectPages[p].inner)
    <3>1. \A v, G, Q, w, L,
      F : Page(v, G, Q, w, L, F).outer = v /\ Page(v, G, Q, w, L, F).inner = w
      BY DEF Page
    <3>. QED BY <2>1, <2>4, <2>8, <2>9, <3>1, ConnectNames
       DEF ConnectPages, ConnectorTab, Plain, Framed
  <2>. QED BY <2>10 DEF Whole
<1>7. ASSUME NEW h \in ConnectHooks \ {useUpdateConnectorConfig}
      PROVE  ~Affects(h.request, useConnectorConfig)
  BY ConnectCovered DEF ConnectReads
<1>8. ASSUME NEW o \in OffersOf(ConnectPages), NEW k \in DOMAIN o.steps,
             Affects(o.steps[k].request, useConnectorConfig)
      PROVE  o = SaveConfig
  <2>1. Safe(o) BY <1>6 DEF OffersOf
  <2>2. ASSUME NEW h \in others, o.steps = <<h>> PROVE FALSE
    <3>1. o.steps[k] = h BY <2>2
    <3>. QED BY <3>1, <1>7, <1>8
  <2>. QED BY <2>1, <2>2
<1>. QED BY <1>1, <1>2, <1>8

\* The pages of the schemas, and what can be done there.
DeleteSubject == Ask(useDeleteSchema, "Schemas")
SchemaForms == {"SchemaNew", "SchemaEdit"}

\* The pages of the schemas one by one, as far as the argument about them needs them.
LEMMA SchemaPagesAre ==
  /\ DOMAIN SchemaPages = {"Schemas", "SchemaNew", "Schema", "SchemaDiff", "SchemaEdit"}
  /\ SchemaPages["Schemas"].outer.reads \cap Subjects = {}
  /\ SchemaPages["Schemas"].inner.reads = {}
  /\ \A o \in SchemaPages["Schemas"].outer.offers \cup SchemaPages["Schemas"].inner.offers :
        o.then = ""
  /\ \A p \in SchemaForms :
        /\ SchemaPages[p].outer # SchemaPages["Schema"].outer
        /\ \A o \in SchemaPages[p].outer.offers \cup SchemaPages[p].inner.offers :
              /\ o.form = IF p = "SchemaNew" THEN "New" ELSE "Edit"
              /\ o.then = "Schema" /\ ~o.confirm
              /\ \A k \in DOMAIN o.steps :
                    o.steps[k] \in {useCreateSchema, useUpdateSchemaCompatibilityLayer}
  /\ SchemaPages["Schema"].outer.reads = Subjects
  /\ SchemaPages["Schema"].inner.reads = {}
  /\ SchemaPages["Schema"].outer.offers = {DeleteSubject}
  /\ SchemaPages["Schema"].inner.offers = {}
  /\ SchemaPages["SchemaDiff"].outer.offers = {}
  /\ SchemaPages["SchemaDiff"].inner.offers = {}
  /\ \A p \in DOMAIN SchemaPages : SchemaPages[p].form.source = {}
<1>1. \A v, G, Q, w, L, F : LET p == Page(v, G, Q, w, L, F)
                           IN  p.outer = v /\ p.inner = w /\ p.form = F
  BY DEF Page
<1>2. \A R, O : View(R, O).reads = R /\ View(R, O).offers = O BY DEF View
<1>3. \A f, n : \A steps : LET o == Submit(f, steps, n)
                           IN  o.form = f /\ o.then = n /\ ~o.confirm /\ o.steps = steps
  BY DEF Submit, Offer
<1>4. /\ SchemaPages["Schemas"].outer.reads = {useGetSchemas,
                                               useGetGlobalCompatibilityLayer}
      /\ SchemaPages["Schemas"].outer.offers = {}
      /\ SchemaPages["Schemas"].inner.reads = {}
      /\ SchemaPages["Schemas"].inner.offers = {Ask(useUpdateGlobalSchemaCompatibilityLevel, "")}
  BY DEF SchemaPages, Page, SchemaList, GlobalSchemaSelector, View, \sqcup
<1>5. {useGetSchemas, useGetGlobalCompatibilityLayer} \cap Subjects = {}
  <2>1. getSchemas \notin {getLatestSchema, getAllVersionsBySubject}
        /\ getGlobalSchemaCompatibilityLevel \notin {getLatestSchema,
                                                     getAllVersionsBySubject}
    BY DEF getSchemas, getLatestSchema, getAllVersionsBySubject,
           getGlobalSchemaCompatibilityLevel, OnSubject, InCluster, Request
  <2>. QED BY <2>1
     DEF Subjects, useGetSchemas, useGetLatestSchema, useGetSchemasVersions,
              useGetGlobalCompatibilityLayer, useQuery, Query
<1>6. Ask(useUpdateGlobalSchemaCompatibilityLevel, "").then = "" BY DEF Ask, Offer
<1>7. /\ SchemaPages["SchemaNew"].outer = SchemaNew
      /\ SchemaPages["SchemaNew"].inner = Nothing
      /\ SchemaPages["SchemaEdit"].outer = SchemaEdit
      /\ SchemaPages["SchemaEdit"].inner = SchemaEditForm
      /\ SchemaPages["Schema"].outer = SchemaDetails
      /\ SchemaPages["Schema"].inner = Nothing
      /\ SchemaPages["SchemaDiff"].outer = SchemaDiff
      /\ SchemaPages["SchemaDiff"].inner = Nothing
  BY <1>1 DEF SchemaPages, Plain, Framed
<1>8. /\ Nothing.reads = {} /\ Nothing.offers = {}
      /\ SchemaNew.reads = {}
      /\ SchemaNew.offers = {Submit("New", <<useCreateSchema>>, "Schema")}
      /\ SchemaEdit.reads = {useGetLatestSchema} /\ SchemaEdit.offers = {}
      /\ SchemaDetails.reads = Subjects /\ SchemaDetails.offers = {DeleteSubject}
      /\ SchemaDiff.offers = {}
  BY <1>2 DEF Nothing, SchemaNew, SchemaEdit, SchemaDetails, SchemaDiff, Subjects,
     DeleteSubject
<1>9. SchemaEditForm.offers =
        {Submit("Edit", steps, "Schema") : steps \in
            {<<useUpdateSchemaCompatibilityLayer>>, <<useCreateSchema>>,
             <<useUpdateSchemaCompatibilityLayer, useCreateSchema>>}}
  BY <1>2 DEF SchemaEditForm
<1>10. \A steps \in {<<useUpdateSchemaCompatibilityLayer>>, <<useCreateSchema>>,
                     <<useUpdateSchemaCompatibilityLayer, useCreateSchema>>} :
         \A k \in DOMAIN steps :
            steps[k] \in {useCreateSchema, useUpdateSchemaCompatibilityLayer}
  OBVIOUS
<1>11. SchemaEdit # SchemaDetails /\ SchemaNew # SchemaDetails
  <2>1. getLatestSchema # getAllVersionsBySubject
    BY DEF getLatestSchema, getAllVersionsBySubject, OnSubject, InCluster, Request
  <2>2. useGetLatestSchema # useGetSchemasVersions
    BY <2>1 DEF useGetLatestSchema, useGetSchemasVersions, useQuery, Query
  <2>. QED BY <2>2, <1>8 DEF Subjects
<1>12. \A p \in SchemaForms :
        /\ SchemaPages[p].outer # SchemaPages["Schema"].outer
        /\ \A o \in SchemaPages[p].outer.offers \cup SchemaPages[p].inner.offers :
              /\ o.form = IF p = "SchemaNew" THEN "New" ELSE "Edit"
              /\ o.then = "Schema" /\ ~o.confirm
              /\ \A k \in DOMAIN o.steps :
                    o.steps[k] \in {useCreateSchema, useUpdateSchemaCompatibilityLayer}
  BY <1>3, <1>7, <1>8, <1>9, <1>10, <1>11 DEF SchemaForms
<1>13. \A p \in DOMAIN SchemaPages : SchemaPages[p].form.source = {}
  BY SchemaNames DEF SchemaPages, Plain, Framed, Page, NoForm, Form
<1>. QED BY SchemaNames, <1>4, <1>5, <1>6, <1>7, <1>8, <1>12, <1>13

\* A control of the schemas page runs the deletion.
LEMMA DeletesSubject ==
  DeleteSubject.then = "Schemas" /\ DeleteSubject.steps = <<useDeleteSchema>> /\ DeleteSubject.confirm
BY DEF DeleteSubject, Ask, Offer

\* No schema mutation invalidates a query of one subject.
LEMMA SubjectsKept ==
  ASSUME NEW h \in SchemaHooks, NEW q \in Subjects
  PROVE  ~Covered(h, q) /\ ~q.suspense /\ ~q.polls
<1>1. /\ ~IsPrefix(schemaListKey, useGetLatestSchema.key)
      /\ ~IsPrefix(globalCompatibilityKey, useGetLatestSchema.key)
      /\ ~IsPrefix(schemaListKey, useGetSchemasVersions.key)
      /\ ~IsPrefix(globalCompatibilityKey, useGetSchemasVersions.key)
  BY DEF IsPrefix, schemaListKey, globalCompatibilityKey, useGetLatestSchema,
         useGetSchemasVersions, useQuery, Query
<1>2. ~q.suspense /\ ~q.polls
  BY DEF Subjects, useGetLatestSchema, useGetSchemasVersions, useQuery, Query
<1>. QED BY <1>1, <1>2, SchemaHooksAre DEF Covered, Subjects

\* The text of a schema is edited over the latest version.
LEMMA EditsLatest ==
  /\ SchemaPages["SchemaEdit"].quiet = {useGetLatestSchema}
  /\ SchemaPages["SchemaEdit"].limited = {useGetLatestSchema}
BY DEF SchemaPages, Page

\* The cache has the two queries of a subject.
LEMMA SubjectsCached == Subjects \subseteq QueriesOf(SchemaPages)
  <1>1. SchemaPages["Schema"].outer \in Whole(SchemaPages) BY SchemaPagesAre, PageViews
  <1>2. Subjects \subseteq UNION {v.reads : v \in Whole(SchemaPages)}
    BY <1>1, SchemaPagesAre
  <1>3. \A q \in Subjects : Affects(createNewSchema, q)
    <2>1. <<createNewSchema, "versions">> \in Changes
      BY Pairs DEF Changes, SchemaChanges
    <2>2. <<getLatestSchema, "versions">> \in Shows /\ <<getAllVersionsBySubject,
                                                       "versions">> \in Shows
      BY Pairs DEF Shows, SchemaShows
    <2>3. \A q \in Subjects : q.request \in {getLatestSchema, getAllVersionsBySubject}
      BY DEF Subjects, useGetLatestSchema, useGetSchemasVersions, useQuery, Query
    <2>. QED BY <2>1, <2>2, <2>3 DEF Affects
  <1>4. createNewSchema \in RequestsOf(SchemaPages)
    <2>1. SchemaPages["SchemaNew"].outer = SchemaNew
      BY DEF SchemaPages, Plain, Framed, Page
    <2>2. Submit("New", <<useCreateSchema>>, "Schema") \in OffersOf(SchemaPages)
      <3>1. Submit("New", <<useCreateSchema>>, "Schema") \in SchemaNew.offers
        BY DEF SchemaNew, View
      <3>2. "SchemaNew" \in DOMAIN SchemaPages BY SchemaPagesAre
      <3>3. SchemaPages["SchemaNew"].outer.offers \subseteq OffersOf(SchemaPages)
        BY <3>2, PageViews
      <3>. QED BY <2>1, <3>1, <3>3
    <2>3. Submit("New", <<useCreateSchema>>, "Schema").steps[1] = useCreateSchema
          /\ 1 \in DOMAIN Submit("New", <<useCreateSchema>>, "Schema").steps
      BY DEF Submit, Offer
    <2>. QED BY <2>2, <2>3, EverySite, SchemaHooksAre DEF SiteOK, Sites
  <1>. QED BY <1>2, <1>3, <1>4 DEF QueriesOf

Entries(n) == [data : None..n, stale : BOOLEAN, err : BOOLEAN, fetch : Idle..n,
               joined : BOOLEAN]
Caches(S, n) == [QueriesOf(S) -> Entries(n)]

\* A change is refetched when the mutation is answered: its queries are among those the
\* mutation invalidates.
Refreshed(r, q) ==
    Affects(r, q) /\ ~Lagging(r, q) /\ ~(r \in SchemaRequests /\ q \in Subjects)
Kept(e, i) == e.joined \/ e.data >= i \/ e.fetch >= i \/ (e.fetch = Idle /\ e.err)
Marked(e, i) == Kept(e, i) \/ (e.fetch = Idle /\ e.stale)
NotBehind(e, i) == e.fetch = Idle \/ e.joined \/ e.fetch >= i
Asleep(e) == e.stale /\ e.fetch = Idle => e.err
Fresh(D, c, l, A) ==
    /\ \A q \in DOMAIN c : \A i \in A :
          /\ NotBehind(c[q], i)
          /\ Refreshed(l[i], q) => Marked(c[q], i)
    /\ \A q \in D : Asleep(c[q])

\* An entry as it was, or with a new fetch.
Begun(e, f) == f = e \/ (e.fetch = Idle /\ f = Begin(e))

\* An entry whose fetch has begun.
LEMMA BeginIs ==
  ASSUME NEW R, log \in Seq(R), NEW e \in Entries(Len(log))
  PROVE  /\ Begin(e) \in Entries(Len(log)) /\ Begin(e).fetch = Len(log)
         /\ ~Begin(e).joined
         /\ Begin(e).data = e.data /\ Begin(e).stale = e.stale
         /\ Begin(e).err = (e.err /\ e.data # None)
         /\ Begin(e).fetch # Idle
<1>1. Len(log) \in Nat OBVIOUS
<1>2. PICK b \in BOOLEAN : b = (e.err /\ e.data # None)
  <2>1. (e.err /\ e.data # None) \in BOOLEAN OBVIOUS
  <2>. QED BY <2>1
<1>3. Begin(e) = [e EXCEPT !.fetch = Len(log), !.joined = FALSE, !.err = b]
  BY <1>2 DEF Begin, Entries
<1>4. Begin(e) \in Entries(Len(log)) /\ Begin(e).fetch = Len(log) /\ ~Begin(e).joined
      /\ Begin(e).data = e.data /\ Begin(e).stale = e.stale /\ Begin(e).err = b
  <2>1. Len(log) \in Idle..Len(log) BY <1>1 DEF Idle
  <2>2. DOMAIN e = {"data", "stale", "err", "fetch", "joined"} BY DEF Entries
  <2>3. Begin(e) = [data |-> e.data, stale |-> e.stale, err |-> b, fetch |-> Len(log),
                    joined |-> FALSE]
    BY <1>3 DEF Entries
  <2>4. e.data \in None..Len(log) /\ e.stale \in BOOLEAN BY DEF Entries
  <2>. QED BY <2>1, <2>3, <2>4 DEF Entries
<1>. QED BY <1>1, <1>2, <1>4 DEF Idle

\* A fetch that begins asks for all that was applied, and loses nothing.
LEMMA BegunKeeps ==
  ASSUME NEW R, log \in Seq(R), NEW e \in Entries(Len(log)), NEW f, Begun(e, f)
  PROVE  /\ f \in Entries(Len(log))
         /\ \A i \in 1..Len(log) : /\ NotBehind(e, i) => NotBehind(f, i)
                                   /\ Marked(e, i) => Marked(f, i)
                                   /\ Kept(e, i) => Kept(f, i)
         /\ Asleep(e) => Asleep(f)
         /\ f.data = e.data /\ f.stale = e.stale
         /\ f.fetch = Idle => f = e
         /\ f.data # None /\ ~f.err => ~e.err
<1>1. Len(log) \in Nat OBVIOUS
<1>2. CASE f = e BY <1>2, <1>1 DEF Entries
<1>3. CASE e.fetch = Idle /\ f = Begin(e)
  <2>. DEFINE g == Begin(e)
  <2>1. /\ g \in Entries(Len(log)) /\ g.fetch = Len(log) /\ ~g.joined /\ g.data = e.data
        /\ g.stale = e.stale /\ g.err = (e.err /\ e.data # None) /\ g.fetch # Idle
        /\ f = g
    BY <1>3, BeginIs
  <2>2. \A i \in 1..Len(log) : NotBehind(g, i) /\ Marked(g, i) /\ Kept(g, i)
    <3>. HIDE DEF g
    <3>. QED BY <2>1, <1>1 DEF NotBehind, Marked, Kept
  <2>3. Asleep(g)
    <3>. HIDE DEF g
    <3>. QED BY <2>1 DEF Asleep
  <2>. HIDE DEF g
  <2>. QED BY <2>1, <2>2, <2>3
<1>. QED BY <1>2, <1>3 DEF Begun

\* The queries that are needed are fetched; nothing else changes.
LEMMA EnsureIs ==
  ASSUME NEW S, NEW R, log \in Seq(R), NEW c \in Caches(S, Len(log)), NEW X
  PROVE  /\ Ensure(c, X) \in Caches(S, Len(log))
         /\ \A q \in QueriesOf(S) : Begun(c[q], Ensure(c, X)[q])
         /\ \A q \in QueriesOf(S) \cap X : Ensure(c, X)[q].fetch # Idle
<1>1. ASSUME NEW q \in QueriesOf(S)
      PROVE  /\ Begun(c[q], Ensure(c, X)[q]) /\ Ensure(c, X)[q] \in Entries(Len(log))
             /\ q \in X => Ensure(c, X)[q].fetch # Idle
  <2>1. c[q] \in Entries(Len(log)) BY DEF Caches
  <2>2. Ensure(c, X)[q] = IF q \in X /\ c[q].fetch = Idle THEN Begin(c[q]) ELSE c[q]
    BY DEF Ensure, Caches
  <2>3. Begun(c[q], Ensure(c, X)[q]) BY <2>2 DEF Begun
  <2>. QED BY <2>1, <2>2, <2>3, BeginIs, BegunKeeps
<1>2. DOMAIN Ensure(c, X) = QueriesOf(S) BY DEF Ensure, Caches
<1>3. Ensure(c, X) = [q \in QueriesOf(S) |-> Ensure(c, X)[q]] BY <1>2 DEF Ensure, Caches
<1>. QED BY <1>1, <1>3 DEF Caches

\* A page that is open stays open when fetches begin, and does not open.
LEMMA OpensNothing ==
  ASSUME NEW S \in Sites, NEW p \in DOMAIN S, NEW R, log \in Seq(R),
         NEW c \in Caches(S, Len(log)), NEW d \in Caches(S, Len(log)),
         S[p].gate \subseteq QueriesOf(S),
         \A q \in QueriesOf(S) :
            /\ d[q].data # None /\ ~d[q].err => c[q].data # None /\ ~c[q].err
            /\ d[q].fetch = Idle /\ d[q].data # None /\ ~d[q].err => c[q].fetch = Idle
  PROVE  /\ Open(p, d) => Open(p, c)
         /\ Active(p, d) \subseteq Active(p, c)
<1>1. SiteOf(p) = S BY SiteIs
<1>2. S[p].quiet \subseteq S[p].gate BY EverySite DEF SiteOK
<1>3. Open(p, d) => Open(p, c) BY <1>1, <1>2 DEF Open
<1>4. DOMAIN c = DOMAIN d BY DEF Caches
<1>. QED BY <1>3, <1>4 DEF Active

\* A page waits for queries of its own frame.
LEMMA GatesRead ==
  ASSUME NEW S \in Sites, NEW p \in DOMAIN S
  PROVE  S[p].gate \subseteq S[p].outer.reads
<1>1. \A v, G, Q, w, L, F : LET x == Page(v, G, Q, w, L, F) IN x.outer = v /\ x.gate = G
  BY DEF Page
<1>2. \A v, w : (v \sqcup w).reads = v.reads \cup w.reads BY DEF \sqcup, View
<1>3. \A v, O : View(v, O).reads = v BY DEF View
<1>4. CASE S = TopicPages
  <2>1. useTopics \in TopicTable.reads /\ useTopicDetails \in TopicFrame.reads
    BY <1>3 DEF TopicTable, TopicFrame
  <2>2. useTopicDetails \in (TopicFrame \sqcup TopicActions \sqcup SendMessage).reads
    BY <1>2, <2>1
  <2>. QED BY <1>1, <1>4, <2>1, <2>2, TopicNames
     DEF TopicPages, TopicListPage, TopicTab, Plain, Framed
<1>5. CASE S = ConnectPages
  <2>1. {useConnector, useConnectorTasks} \subseteq (ConnectorDetailsPage \sqcup ConnectorActions).reads
    BY <1>2, <1>3 DEF ConnectorDetailsPage
  <2>. QED BY <1>1, <1>5, <2>1, ConnectNames
     DEF ConnectPages, ConnectorTab, Plain, Framed
<1>6. CASE S = GroupPages
  <2>1. useConsumerGroupDetails \in GroupDetails.reads /\ useConsumerGroupDetails \in ResetOffsets.reads
    BY <1>2, <1>3 DEF GroupDetails, ResetOffsets
  <2>. QED BY <1>1, <1>6, <2>1, GroupNames DEF GroupPages
<1>7. CASE S = SchemaPages
  <2>1. useGetLatestSchema \in SchemaEdit.reads
        /\ useGetGlobalCompatibilityLayer
             \in (SchemaList \sqcup View(GlobalSchemaSelector.reads, {})).reads
    <3>1. GlobalSchemaSelector.reads = {useGetGlobalCompatibilityLayer}
      BY <1>3 DEF GlobalSchemaSelector
    <3>2. View(GlobalSchemaSelector.reads, {}).reads = {useGetGlobalCompatibilityLayer}
      BY <1>3, <3>1
    <3>. QED BY <1>2, <1>3, <3>2 DEF SchemaEdit
  <2>. QED BY <1>1, <1>7, <2>1, SchemaNames DEF SchemaPages, Plain, Framed
<1>8. CASE S = AclPages
  BY <1>1, <1>8, AclNames DEF AclPages, Framed
<1>9. CASE S = BrokerPages
  <2>1. useBrokers \in Broker.reads BY <1>3 DEF Broker
  <2>. QED BY <1>1, <1>9, <2>1, BrokerNames DEF BrokerPages, BrokerTab, Plain, Framed
<1>10. CASE S = ListPages
  BY <1>1, <1>10, ListNames DEF ListPages, KsqlTab, Plain, Framed
<1>. QED BY <1>4, <1>5, <1>6, <1>7, <1>8, <1>9, <1>10 DEF Sites

\* The queries a page waits for are in the cache.
LEMMA GatesCached ==
  ASSUME NEW S \in Sites, NEW p \in DOMAIN S
  PROVE  S[p].gate \subseteq QueriesOf(S)
BY GatesRead, PageViews

\* Mounting components refetches what they read unless it is fresh.
LEMMA MountKeeps ==
  ASSUME NEW S \in Sites, NEW p \in DOMAIN S, NEW R, log \in Seq(R),
         NEW c \in Caches(S, Len(log)), NEW skip \in Skips(p, c)
  PROVE  LET d == Mount(p, c, skip) IN
         /\ d \in Caches(S, Len(log))
         /\ \A q \in QueriesOf(S) : Begun(c[q], d[q])
         /\ \A q \in QueriesOf(S) \cap Mounted(p, c) : Asleep(d[q])
         /\ \A q \in QueriesOf(S) \cap Mounted(p, c) : ~q.suspense => d[q].fetch # Idle
         /\ Open(p, d) => Open(p, c)
         /\ Active(p, d) \subseteq Active(p, c)
<1>. DEFINE d == Mount(p, c, skip)
            X == Mounted(p, c) \ skip
<1>1. d = Ensure(c, X) BY DEF Mount
<1>. HIDE DEF d, X
<1>2. /\ d \in Caches(S, Len(log)) /\ \A q \in QueriesOf(S) : Begun(c[q], d[q])
      /\ \A q \in QueriesOf(S) \cap X : d[q].fetch # Idle
  BY <1>1, EnsureIs
<1>3. \A q \in QueriesOf(S) : c[q] \in Entries(Len(log)) BY DEF Caches
<1>4. ASSUME NEW q \in QueriesOf(S) \cap Mounted(p, c)
      PROVE Asleep(d[q]) /\ (~q.suspense => d[q].fetch # Idle)
  <2>1. CASE q \in X BY <1>2, <2>1 DEF Asleep
  <2>2. CASE q \notin X
    <3>1. q \in skip BY <2>2 DEF X
    <3>2. ~c[q].stale /\ q.suspense BY <3>1 DEF Skips, Recent
    <3>3. ~d[q].stale BY <1>2, <1>3, <3>2, BegunKeeps
    <3>. QED BY <3>2, <3>3 DEF Asleep
  <2>. QED BY <2>1, <2>2
<1>5. \A q \in QueriesOf(S) :
            /\ d[q].data # None /\ ~d[q].err => c[q].data # None /\ ~c[q].err
            /\ d[q].fetch = Idle => c[q].fetch = Idle
  BY <1>2, <1>3, BegunKeeps
<1>6. (Open(p, d) => Open(p, c)) /\ Active(p, d) \subseteq Active(p, c)
  BY <1>2, <1>5, GatesCached, OpensNothing
<1>. QED BY <1>2, <1>4, <1>6 DEF d

\* Freshness through fetches that begin.
LEMMA FreshBegun ==
  ASSUME NEW S, NEW R, log \in Seq(R), NEW c \in Caches(S, Len(log)),
         NEW d \in Caches(S, Len(log)), \A q \in QueriesOf(S) : Begun(c[q], d[q]),
         NEW A \in SUBSET (1..Len(log)), NEW D, NEW E,
         Fresh(D, c, log, A), E \subseteq QueriesOf(S),
           \A q \in E : q \in D \/ Asleep(d[q])
  PROVE  Fresh(E, d, log, A)
<1>1. \A q \in QueriesOf(S) : c[q] \in Entries(Len(log)) /\ q \in DOMAIN c BY DEF Caches
<1>2. DOMAIN d = QueriesOf(S) BY DEF Caches
<1>3. \A q \in DOMAIN d : \A i \in A : NotBehind(d[q], i) /\ (Refreshed(log[i], q) => Marked(d[q], i))
  BY <1>1, <1>2, BegunKeeps DEF Fresh
<1>4. \A q \in E : Asleep(d[q])
  BY <1>1, BegunKeeps DEF Fresh
<1>. QED BY <1>3, <1>4 DEF Fresh

\* What invalidating does to a query: met, if it matches; again, if it is refetched.
Invalidated(e, f, met, again) ==
    /\ f.data = e.data
    /\ f.stale <=> e.stale \/ met
    /\ again => f.fetch = Len(log) /\ f.fetch # Idle /\ ~f.joined
    /\ again => (f.err <=> e.err /\ e.data # None)
    /\ ~again => f.fetch = e.fetch
    /\ ~again => (f.err <=> e.err)
    /\ ~again => (f.joined <=> e.joined \/ e.fetch # Idle)

\* An invalidation changes the entries it matches, one by one.
LEMMA InvalidateIs ==
  ASSUME NEW S, NEW R, log \in Seq(R), NEW c \in Caches(S, Len(log)), NEW hook,
         NEW active
  PROVE  LET d == Invalidate(hook, c, active) IN
         /\ d \in Caches(S, Len(log))
         /\ \A q \in QueriesOf(S) :
              Invalidated(c[q], d[q], q \in Matching(hook, c), q \in Restarts(hook, c, active))
<1>. DEFINE d == Invalidate(hook, c, active)
            again == Restarts(hook, c, active)
            met == Matching(hook, c)
<1>1. ASSUME NEW q \in QueriesOf(S)
      PROVE d[q] \in Entries(Len(log)) /\ Invalidated(c[q], d[q], q \in met, q \in again)
  <2>1. c[q] \in Entries(Len(log)) BY DEF Caches
  <2>2. PICK b \in BOOLEAN : b = (c[q].stale \/ q \in met)
    <3>1. (c[q].stale \/ q \in met) \in BOOLEAN OBVIOUS
    <3>. QED BY <3>1
  <2>3. PICK j \in BOOLEAN : j = (c[q].joined \/ c[q].fetch # Idle)
    <3>1. (c[q].joined \/ c[q].fetch # Idle) \in BOOLEAN OBVIOUS
    <3>. QED BY <3>1
  <2>. DEFINE e == [c[q] EXCEPT !.stale = b]
  <2>4. d[q] = IF q \in again THEN Begin(e) ELSE [e EXCEPT !.joined = j]
    <3>1. q \in DOMAIN c BY DEF Caches
    <3>2. [c[q] EXCEPT !.stale = @ \/ q \in met] = e BY <2>1, <2>2 DEF Entries
    <3>3. d[q] = IF q \in again THEN Begin([c[q] EXCEPT !.stale = @ \/ q \in met])
                 ELSE [[c[q] EXCEPT !.stale = @ \/ q \in met] EXCEPT !.joined = @ \/ c[q].fetch # Idle]
      BY <3>1 DEF Invalidate
    <3>4. [e EXCEPT !.joined = @ \/ c[q].fetch # Idle] = [e EXCEPT !.joined = j]
      BY <2>1, <2>3 DEF Entries
    <3>. QED BY <3>2, <3>3, <3>4
  <2>5. e \in Entries(Len(log)) /\ e.data = c[q].data /\ e.stale = b /\ e.err = c[q].err
        /\ e.fetch = c[q].fetch /\ e.joined = c[q].joined
    BY <2>1 DEF Entries
  <2>. HIDE DEF e
  <2>6. CASE q \in again
    <3>. HIDE DEF again, met, d
    <3>1. d[q] = Begin(e) BY <2>4, <2>6
    <3>2. /\ d[q] \in Entries(Len(log)) /\ d[q].fetch = Len(log) /\ ~d[q].joined
          /\ d[q].data = c[q].data /\ d[q].stale = b /\ d[q].fetch # Idle
          /\ d[q].err <=> c[q].err /\ c[q].data # None
      BY <2>5, <3>1, BeginIs
    <3>. QED BY <2>2, <2>6, <3>2 DEF Invalidated
  <2>7. CASE q \notin again
    <3>. HIDE DEF again, met, d
    <3>1. d[q] = [e EXCEPT !.joined = j] BY <2>4, <2>7
    <3>2. d[q] \in Entries(Len(log)) /\ d[q].data = e.data /\ d[q].stale = b /\ d[q].err = c[q].err
          /\ d[q].fetch = c[q].fetch /\ d[q].joined = j
      BY <2>5, <3>1 DEF Entries
    <3>. QED BY <2>2, <2>3, <2>5, <2>7, <3>2 DEF Invalidated
  <2>. QED BY <2>6, <2>7
<1>2. d = [q \in QueriesOf(S) |-> d[q]]
  <2>1. DOMAIN c = QueriesOf(S) BY DEF Caches
  <2>. QED BY <2>1 DEF Invalidate
<1>3. d \in Caches(S, Len(log))
  <2>. HIDE DEF d, met, again
  <2>. QED BY <1>1, <1>2 DEF Caches
<1>4. \A q \in QueriesOf(S) : Invalidated(c[q], d[q], q \in met, q \in again)
  <2>. HIDE DEF d, met, again
  <2>. QED BY <1>1
<1>. QED BY <1>3, <1>4

\* An answer to a mutation.
LEMMA AckFresh ==
  ASSUME NEW S \in Sites, NEW p \in DOMAIN S, NEW R, log \in Seq(R),
         NEW c \in Caches(S, Len(log)), NEW A \in SUBSET (1..Len(log)),
           NEW i \in 1..Len(log),
         Fresh(Active(p, c), c, log, A), NEW hook,
         \A q \in QueriesOf(S) : Refreshed(log[i], q) => Covered(hook, q)
  PROVE  LET d == Invalidate(hook, c, Active(p, c)) IN
         /\ d \in Caches(S, Len(log))
         /\ Open(p, d) => Open(p, c)
         /\ Fresh(Active(p, d), d, log, A \cup {i})
         /\ \A q \in QueriesOf(S) : \A j \in A : Kept(c[q], j) => Kept(d[q], j)
<1>. DEFINE d == Invalidate(hook, c, Active(p, c))
            again == Restarts(hook, c, Active(p, c))
            met == Matching(hook, c)
<1>1. d \in Caches(S, Len(log))
      /\ \A q \in QueriesOf(S) : Invalidated(c[q], d[q], q \in met, q \in again)
  <2>. DEFINE act == Active(p, c)
              new == Invalidate(hook, c, act)
  <2>1. /\ new \in Caches(S, Len(log))
        /\ \A q \in QueriesOf(S) :
              Invalidated(c[q], new[q], q \in Matching(hook, c), q \in Restarts(hook, c, act))
    <3>. HIDE DEF act
    <3>. QED BY InvalidateIs
  <2>. QED BY <2>1
<1>. HIDE DEF d
<1>2. DOMAIN c = QueriesOf(S) /\ DOMAIN d = QueriesOf(S)
      /\ \A q \in QueriesOf(S) : c[q] \in Entries(Len(log)) /\ d[q] \in Entries(Len(log))
  BY <1>1 DEF Caches
<1>3. \A q \in QueriesOf(S) : /\ Covered(hook, q) => q \in met
                              /\ q \in met /\ q \in Active(p, c) /\ c[q].fetch = Idle => q \in again
                              /\ q \in again => q \in met
  BY <1>2 DEF Matching, Covered, Restarts
<1>. HIDE DEF again, met, d
<1>4. Len(log) \in Nat OBVIOUS
<1>5. ASSUME NEW q \in QueriesOf(S), NEW j \in 1..Len(log)
      PROVE  /\ NotBehind(c[q], j) => NotBehind(d[q], j)
             /\ Marked(c[q], j) => Marked(d[q], j)
             /\ Kept(c[q], j) => Kept(d[q], j)
  BY <1>1, <1>2, <1>4 DEF Invalidated, NotBehind, Marked, Kept, Entries
<1>6. ASSUME NEW q \in QueriesOf(S)
      PROVE  /\ NotBehind(d[q], i)
             /\ Refreshed(log[i], q) => Marked(d[q], i)
  <2>1. CASE q \in again BY <2>1, <1>1, <1>4 DEF Invalidated, NotBehind, Marked, Kept
  <2>2. CASE q \notin again
    <3>1. NotBehind(d[q], i) BY <2>2, <1>1 DEF Invalidated, NotBehind
    <3>2. Refreshed(log[i], q) => d[q].stale BY <1>1, <1>3 DEF Invalidated
    <3>3. d[q].fetch # Idle => d[q].joined BY <2>2, <1>1 DEF Invalidated
    <3>. QED BY <3>1, <3>2, <3>3 DEF Marked, Kept
  <2>. QED BY <2>1, <2>2
<1>7. (Open(p, d) => Open(p, c)) /\ Active(p, d) \subseteq Active(p, c)
  <2>1. \A q \in QueriesOf(S) :
            /\ d[q].data # None /\ ~d[q].err => c[q].data # None /\ ~c[q].err
            /\ d[q].fetch = Idle => c[q].fetch = Idle
    BY <1>1 DEF Invalidated
  <2>. QED BY <1>1, <2>1, GatesCached, OpensNothing
<1>8. Active(p, c) \subseteq QueriesOf(S) BY <1>2 DEF Active
<1>9. ASSUME NEW q \in Active(p, d) PROVE Asleep(d[q])
  <2>1. q \in QueriesOf(S) /\ q \in Active(p, c) BY <1>7, <1>8
  <2>2. Asleep(c[q]) BY <2>1 DEF Fresh
  <2>. QED BY <2>1, <2>2, <1>1, <1>3 DEF Invalidated, Asleep
<1>10. Fresh(Active(p, d), d, log, A \cup {i})
  BY <1>2, <1>5, <1>6, <1>9 DEF Fresh
<1>. QED BY <1>1, <1>5, <1>7, <1>10 DEF d

\* An answer to a fetch.
Answered(q, n) == [cache EXCEPT ![q].data = n, ![q].fetch = Idle, ![q].stale = FALSE,
                                ![q].err = FALSE]

\* An answer keeps what is shown fresh: the fetch it ends began after what was acknowledged,
\* unless it was marked, and then it is repeated.
LEMMA DeliverFresh ==
  ASSUME NEW S \in Sites, page \in DOMAIN S, NEW R, log \in Seq(R),
         cache \in Caches(S, Len(log)), NEW A \in SUBSET (1..Len(log)),
         Fresh(Active(page, cache), cache, log, A),
         NEW q \in QueriesOf(S), cache[q].fetch # Idle,
           NEW n \in cache[q].fetch..Len(log),
         NEW skip \in Skips(page, Answered(q, n))
  PROVE  LET c == Answered(q, n)
             d == Mount(page, c, skip) IN
         /\ d \in Caches(S, Len(log))
         /\ Open(page, cache) => d = c
         /\ Fresh(Active(page, d), d, log, A)
         /\ \A x \in QueriesOf(S) : \A j \in A : Kept(cache[x], j) => Kept(d[x], j)
<1>. DEFINE c == Answered(q, n)
            d == Mount(page, c, skip)
            D == Active(page, cache)
<1>1. Len(log) \in Nat OBVIOUS
<1>2. DOMAIN cache = QueriesOf(S) /\ \A x \in QueriesOf(S) : cache[x] \in Entries(Len(log))
  BY DEF Caches
<1>3. n \in 0..Len(log) /\ n >= cache[q].fetch
  <2>1. cache[q].fetch \in Idle..Len(log) BY <1>2 DEF Entries
  <2>. QED BY <1>1, <2>1 DEF Idle
<1>4. /\ c[q] \in Entries(Len(log)) /\ c[q].data = n /\ c[q].fetch = Idle /\ ~c[q].stale
      /\ ~c[q].err
      /\ c[q].joined = cache[q].joined
  <2>0. PICK j \in BOOLEAN : j = cache[q].joined BY <1>2 DEF Entries
  <2>1. c[q] = [data |-> n, stale |-> FALSE, err |-> FALSE, fetch |-> Idle,
                joined |-> j]
    BY <1>2, <2>0 DEF Entries, Answered
  <2>2. n \in None..Len(log) /\ Idle \in Idle..Len(log) BY <1>1, <1>3 DEF None, Idle
  <2>3. c[q] \in Entries(Len(log)) BY <2>1, <2>2 DEF Entries
  <2>. QED BY <2>0, <2>1, <2>3
<1>5. c \in Caches(S, Len(log)) /\ \A x \in QueriesOf(S) \ {q} : c[x] = cache[x]
  BY <1>2, <1>4 DEF Caches, Answered
<1>. HIDE DEF c, d, D
<1>6. D \subseteq QueriesOf(S) BY <1>2 DEF Active, D
<1>7. ASSUME NEW j \in A,
  cache[q].fetch = Idle \/ cache[q].joined \/ cache[q].fetch >= j
      PROVE  NotBehind(c[q], j) /\ Kept(c[q], j)
  <2>1. cache[q].fetch \in Int /\ j \in Nat BY <1>1, <1>2 DEF Entries, Idle
  <2>. QED BY <1>3, <1>4, <1>7, <2>1 DEF NotBehind, Kept
<1>8. \A x \in QueriesOf(S) : \A j \in A :
        /\ NotBehind(c[x], j)
        /\ Refreshed(log[j], x) => Marked(c[x], j)
        /\ Kept(cache[x], j) => Kept(c[x], j)
  <2>1. ASSUME NEW j \in A PROVE NotBehind(c[q], j) /\ Kept(c[q], j)
    BY <1>2, <1>7 DEF Fresh, NotBehind
  <2>2. ASSUME NEW x \in QueriesOf(S) \ {q}, NEW j \in A
        PROVE  NotBehind(c[x], j) /\ (Refreshed(log[j], x) => Marked(c[x], j))
    BY <1>2, <1>5 DEF Fresh
  <2>. QED BY <1>5, <2>1, <2>2 DEF Marked
<1>9. \A x \in D : Asleep(c[x])
  BY <1>2, <1>4, <1>5, <1>6 DEF Fresh, Asleep, D
<1>10. Fresh(D, c, log, A)
  <2>1. DOMAIN c = QueriesOf(S) BY <1>5 DEF Caches
  <2>2. \A x \in DOMAIN c : \A j \in A :
            /\ NotBehind(c[x], j)
            /\ Refreshed(log[j], x) => Marked(c[x], j)
    BY <1>8, <2>1
  <2>. QED BY <1>9, <2>2 DEF Fresh
<1>11. /\ d \in Caches(S, Len(log)) /\ \A x \in QueriesOf(S) : Begun(c[x], d[x])
       /\ \A x \in QueriesOf(S) \cap Mounted(page, c) : Asleep(d[x])
       /\ Open(page, d) => Open(page, c)
       /\ Active(page, d) \subseteq Active(page, c)
  BY <1>5, MountKeeps DEF c, d
<1>12. ASSUME NEW x \in Active(page, d)
       PROVE x \in QueriesOf(S) /\ (x \in D \/ Asleep(d[x]))
  <2>1. x \in QueriesOf(S) BY <1>5, <1>11 DEF Active, Caches
  <2>2. x \in Active(page, c) BY <1>11
  <2>3. x \in D \/ x \in Mounted(page, c)
    BY <1>2, <2>1, <2>2 DEF Active, Mounted, D, Current
  <2>. QED BY <1>11, <2>1, <2>3
<1>13. Fresh(Active(page, d), d, log, A)
  <2>1. Active(page, d) \subseteq QueriesOf(S) /\ \A x \in Active(page, d) : x \in D \/ Asleep(d[x])
    BY <1>12
  <2>. DEFINE E == Active(page, d)
  <2>. HIDE DEF E
  <2>2. E \subseteq QueriesOf(S) /\ \A x \in E : x \in D \/ Asleep(d[x]) BY <2>1 DEF E
  <2>3. Fresh(E, d, log, A) BY <1>5, <1>10, <1>11, <2>2, FreshBegun
  <2>. QED BY <2>3 DEF E
<1>14. Open(page, cache) => d = c
  <2>1. SUFFICES ASSUME Open(page, cache) PROVE d = c OBVIOUS
  <2>2. SiteOf(page) = S BY SiteIs
  <2>3. Mounted(page, c) = {} BY <2>1 DEF Mounted, Current
  <2>5. Ensure(c, {} \ skip) = c
    <3>1. Ensure(c, {} \ skip) = [x \in DOMAIN c |-> c[x]] BY DEF Ensure
    <3>2. c = [x \in DOMAIN c |-> c[x]] BY <1>5 DEF Caches
    <3>. QED BY <3>1, <3>2
  <2>. QED BY <2>3, <2>5 DEF Mount, d
<1>15. \A x \in QueriesOf(S) : \A j \in A : Kept(cache[x], j) => Kept(d[x], j)
  <2>1. \A x \in QueriesOf(S) : c[x] \in Entries(Len(log)) BY <1>5 DEF Caches
  <2>2. \A x \in QueriesOf(S) : \A j \in 1..Len(log) : Kept(c[x], j) => Kept(d[x], j)
    BY <1>11, <2>1, BegunKeeps
  <2>. QED BY <1>8, <2>2
<1>. QED BY <1>11, <1>13, <1>14, <1>15 DEF c, d

\* A fetch that fails.
Failed(q) == [cache EXCEPT ![q].fetch = Idle, ![q].err = TRUE]

\* So does a fetch that fails: its error is shown in place of the data.
LEMMA FailFresh ==
  ASSUME NEW S \in Sites, page \in DOMAIN S, NEW R, log \in Seq(R),
         cache \in Caches(S, Len(log)), NEW A \in SUBSET (1..Len(log)),
         Fresh(Active(page, cache), cache, log, A),
         NEW q \in QueriesOf(S)
  PROVE  LET d == Failed(q) IN
         /\ d \in Caches(S, Len(log))
         /\ Open(page, d) => Open(page, cache)
         /\ Fresh(Active(page, d), d, log, A)
         /\ \A x \in QueriesOf(S) : \A j \in A : Kept(cache[x], j) => Kept(d[x], j)
<1>. DEFINE d == Failed(q)
<1>1. Len(log) \in Nat OBVIOUS
<1>2. DOMAIN cache = QueriesOf(S) /\ \A x \in QueriesOf(S) : cache[x] \in Entries(Len(log))
  BY DEF Caches
<1>3. d[q] \in Entries(Len(log)) /\ d[q].fetch = Idle /\ d[q].err
      /\ d[q].data = cache[q].data
  <2>1. Idle \in Idle..Len(log) BY <1>1 DEF Idle
  <2>. QED BY <1>2, <2>1 DEF Entries, Failed
<1>4. d \in Caches(S, Len(log)) /\ \A x \in QueriesOf(S) \ {q} : d[x] = cache[x]
  BY <1>2, <1>3 DEF Caches, Failed
<1>. HIDE DEF d
<1>5. (Open(page, d) => Open(page, cache)) /\ Active(page, d) \subseteq Active(page, cache)
  <2>1. \A x \in QueriesOf(S) :
            /\ d[x].data # None /\ ~d[x].err => cache[x].data # None /\ ~cache[x].err
            /\ d[x].fetch = Idle /\ d[x].data # None /\ ~d[x].err => cache[x].fetch = Idle
    BY <1>3, <1>4
  <2>. QED BY <1>4, <2>1, GatesCached, OpensNothing
<1>6. \A j \in A : NotBehind(d[q], j) /\ Kept(d[q], j) /\ Marked(d[q], j) /\ Asleep(d[q])
  BY <1>3 DEF NotBehind, Kept, Marked, Asleep
<1>7. Asleep(d[q]) BY <1>3 DEF Asleep
<1>8. Active(page, cache) \subseteq QueriesOf(S) BY <1>2 DEF Active
<1>9. Fresh(Active(page, d), d, log, A)
  <2>1. DOMAIN d = QueriesOf(S) BY <1>4 DEF Caches
  <2>2. \A x \in QueriesOf(S) : \A j \in A : NotBehind(d[x], j) /\ (Refreshed(log[j], x) => Marked(d[x], j))
    BY <1>2, <1>4, <1>6 DEF Fresh
  <2>3. \A x \in Active(page, d) : Asleep(d[x])
    BY <1>4, <1>5, <1>7, <1>8 DEF Fresh
  <2>. QED BY <2>1, <2>2, <2>3 DEF Fresh
<1>10. \A x \in QueriesOf(S) : \A j \in A : Kept(cache[x], j) => Kept(d[x], j)
  BY <1>4, <1>6
<1>. QED BY <1>4, <1>5, <1>9, <1>10 DEF d

\* Fetches begun for the page shown.
LEMMA WakeFresh ==
  ASSUME NEW S \in Sites, page \in DOMAIN S, NEW R, log \in Seq(R),
         cache \in Caches(S, Len(log)), NEW A \in SUBSET (1..Len(log)),
         Fresh(Active(page, cache), cache, log, A), NEW X, NEW d, d = Ensure(cache, X)
  PROVE  /\ d \in Caches(S, Len(log))
         /\ Open(page, d) => Open(page, cache)
         /\ Fresh(Active(page, d), d, log, A)
         /\ \A x \in QueriesOf(S) : \A j \in A : Kept(cache[x], j) => Kept(d[x], j)
<1>1. d \in Caches(S, Len(log)) /\ \A x \in QueriesOf(S) : Begun(cache[x], d[x])
  BY EnsureIs
<1>2. \A x \in QueriesOf(S) : cache[x] \in Entries(Len(log)) BY DEF Caches
<1>3. \A x \in QueriesOf(S) :
            /\ d[x].data # None /\ ~d[x].err => cache[x].data # None /\ ~cache[x].err
            /\ d[x].fetch = Idle => cache[x].fetch = Idle
            /\ \A j \in A : Kept(cache[x], j) => Kept(d[x], j)
  BY <1>1, <1>2, BegunKeeps
<1>4. (Open(page, d) => Open(page, cache)) /\ Active(page, d) \subseteq Active(page, cache)
  BY <1>1, <1>3, GatesCached, OpensNothing
<1>5. Active(page, cache) \subseteq QueriesOf(S) BY DEF Active, Caches
<1>6. Fresh(Active(page, d), d, log, A)
  <2>. DEFINE D == Active(page, cache)
              E == Active(page, d)
  <2>1. Fresh(D, cache, log, A) /\ E \subseteq QueriesOf(S) /\ \A x \in E : x \in D
    BY <1>4, <1>5
  <2>. HIDE DEF D, E
  <2>2. Fresh(E, d, log, A) BY <1>1, <2>1, FreshBegun
  <2>. QED BY <2>2 DEF E
<1>. QED BY <1>1, <1>3, <1>4, <1>6

\* Another page.
LEMMA ShowFresh ==
  ASSUME NEW S \in Sites, page \in DOMAIN S, NEW R, log \in Seq(R),
         cache \in Caches(S, Len(log)), NEW A \in SUBSET (1..Len(log)),
         Fresh(Active(page, cache), cache, log, A),
         NEW p \in DOMAIN S, p # page, Show(p)
  PROVE  /\ page' = p /\ draft' = FALSE
         /\ cache' \in Caches(S, Len(log))
         /\ Fresh(Active(p, cache'), cache', log, A)
         /\ \A q \in QueriesOf(S) : q \in Mounted(p, cache) /\ ~q.suspense => cache'[q].fetch # Idle
         /\ \A q \in QueriesOf(S) : \A j \in A : NotBehind(cache[q], j) => NotBehind(cache'[q], j)
<1>1. PICK skip \in Skips(p, cache) : cache' = Mount(p, cache, skip) BY DEF Show
<1>. DEFINE d == Mount(p, cache, skip)
<1>2. /\ d \in Caches(S, Len(log)) /\ \A x \in QueriesOf(S) : Begun(cache[x], d[x])
      /\ \A x \in QueriesOf(S) \cap Mounted(p, cache) : Asleep(d[x])
      /\ \A q \in QueriesOf(S) \cap Mounted(p, cache) : ~q.suspense => d[q].fetch # Idle
      /\ Active(p, d) \subseteq Active(p, cache)
  BY MountKeeps
<1>. DEFINE D == Active(page, cache)
            E == Active(p, d)
<1>3. ASSUME NEW x \in E PROVE x \in QueriesOf(S) /\ (x \in D \/ Asleep(d[x]))
  <2>1. x \in Active(p, cache) BY <1>2
  <2>2. x \in QueriesOf(S) BY <2>1 DEF Active, Caches
  <2>3. SiteOf(p) = S /\ SiteOf(page) = S BY SiteIs
  <2>4. x \in D \/ x \in Mounted(p, cache)
    BY <2>1, <2>2, <2>3 DEF Active, Mounted, Current
  <2>. QED BY <1>2, <2>2, <2>4
<1>4. Fresh(E, d, log, A)
  <2>1. E \subseteq QueriesOf(S) /\ \A x \in E : x \in D \/ Asleep(d[x]) BY <1>3
  <2>. HIDE DEF D, E, d
  <2>2. Fresh(D, cache, log, A) BY DEF D
  <2>. QED BY <1>2, <2>1, <2>2, FreshBegun
<1>5. \A q \in QueriesOf(S) : cache[q] \in Entries(Len(log)) BY DEF Caches
<1>6. \A q \in QueriesOf(S) : \A j \in A : NotBehind(cache[q], j) => NotBehind(d[q], j)
  BY <1>2, <1>5, BegunKeeps
<1>. QED BY <1>1, <1>2, <1>4, <1>6 DEF Show

Progresses == {"sent", "applied", "waiting", "done", "failed"}
Run(S) == [offer : OffersOf(S), step : Nat, pc : Progresses, at : Nat,
           waits : SUBSET QueriesOf(S), here : BOOLEAN]
GoodRun(r, l) ==
    /\ r.step \in DOMAIN r.offer.steps
    /\ r.pc = "applied" => r.at \in 1..Len(l) /\ l[r.at] = r.offer.steps[r.step].request
RunsOK(S, rs, l) == rs \in Seq(Run(S)) /\ \A i \in DOMAIN rs : GoodRun(rs[i], l)
Dialog(S, d) == d \subseteq OffersOf(S) /\ \A o \in d : o.confirm /\ d = {o}

Kinds == {"navigate", "fail", "wake", "reconnect", "foreign"}
Typed(S) ==
    /\ S \in Sites /\ page \in DOMAIN S
    /\ log \in Seq(RequestsOf(S)) /\ acked \subseteq 1..Len(log)
    /\ cache \in Caches(S, Len(log))
    /\ RunsOK(S, runs, log)
    /\ Dialog(S, dialog)
    /\ confirming \in BOOLEAN /\ draft \in BOOLEAN /\ opened \in Nat
    /\ events \in Seq(Kinds)
UpToDate == Fresh(Active(page, cache), cache, log, acked)

\* What the page offers belongs to its site.
LEMMA Here ==
  ASSUME NEW S \in Sites, page \in DOMAIN S
  PROVE  /\ SiteOf(page) = S /\ Current = S[page]
         /\ Offered \subseteq OffersOf(S)
         /\ Offered \subseteq S[page].outer.offers \cup S[page].inner.offers
         /\ \A o \in OffersOf(S) : o.then \in DOMAIN S \cup {""}
<1>1. SiteOf(page) = S BY SiteIs
<1>2. Current = S[page] BY <1>1 DEF Current
<1>3. Offered \subseteq S[page].outer.offers \cup S[page].inner.offers
  BY <1>2 DEF Offered
<1>4. S[page].outer.offers \cup S[page].inner.offers \subseteq OffersOf(S) BY PageViews
<1>. QED BY <1>1, <1>2, <1>3, <1>4, EverySite DEF SiteOK

\* The mutation of a run.
LEMMA HookIs ==
  ASSUME NEW S \in Sites, RunsOK(S, runs, log), NEW i \in DOMAIN runs
  PROVE  /\ runs[i] \in Run(S) /\ runs[i].offer \in OffersOf(S)
         /\ runs[i].step \in DOMAIN runs[i].offer.steps
         /\ HookOf(i) = runs[i].offer.steps[runs[i].step]
         /\ HookOf(i).request \in RequestsOf(S)
         /\ \A q \in QueriesOf(S) : Refreshed(HookOf(i).request, q) => Covered(HookOf(i), q)
         /\ runs[i].pc = "applied" => runs[i].at \in 1..Len(log) /\ log[runs[i].at] = HookOf(i).request
<1>1. runs[i] \in Run(S) /\ GoodRun(runs[i], log) BY DEF RunsOK
<1>2. runs[i].offer \in OffersOf(S) BY <1>1 DEF Run
<1>. QED BY <1>1, <1>2, EverySite DEF SiteOK, GoodRun, HookOf, Refreshed

\* Only the log grows.
LEMMA LogGrows ==
  ASSUME NEW S, NEW R, log \in Seq(R), NEW r \in R, NEW l, l = Append(log, r)
  PROVE  /\ l \in Seq(R) /\ Len(l) = Len(log) + 1 /\ l[Len(l)] = r
         /\ \A j \in 1..Len(log) : l[j] = log[j] /\ j \in 1..Len(l)
         /\ Caches(S, Len(log)) \subseteq Caches(S, Len(l))
         /\ \A D, c : \A A \in SUBSET (1..Len(log)) : Fresh(D, c, log, A) => Fresh(D, c, l, A)
<1>1. /\ l \in Seq(R) /\ Len(l) = Len(log) + 1 /\ Len(log) \in Nat /\ l[Len(l)] = r
      /\ \A j \in 1..Len(log) : l[j] = log[j]
  OBVIOUS
<1>2. Entries(Len(log)) \subseteq Entries(Len(l))
  <2>1. None..Len(log) \subseteq None..Len(l) /\ Idle..Len(log) \subseteq Idle..Len(l)
    BY <1>1 DEF None, Idle
  <2>. QED BY <2>1 DEF Entries
<1>3. Caches(S, Len(log)) \subseteq Caches(S, Len(l)) BY <1>2 DEF Caches
<1>4. \A D, c : \A A \in SUBSET (1..Len(log)) : Fresh(D, c, log, A) => Fresh(D, c, l, A)
  BY <1>1 DEF Fresh
<1>. QED BY <1>1, <1>3, <1>4

Still == UNCHANGED <<page, cache, log, acked>>
CacheGood(S) ==
    /\ page' \in DOMAIN S /\ log' \in Seq(RequestsOf(S))
    /\ acked' \subseteq 1..Len(log')
    /\ cache' \in Caches(S, Len(log')) /\ UpToDate'

\* A step that leaves the cache alone keeps what is shown fresh.
LEMMA StillGood ==
  ASSUME NEW S, Typed(S), UpToDate, Still
  PROVE  CacheGood(S)
BY DEF Still, Typed, UpToDate, CacheGood

\* Going to another page keeps what is shown fresh.
LEMMA ShowGood ==
  ASSUME NEW S, Typed(S), UpToDate, NEW p \in DOMAIN S, p # page, Show(p),
         UNCHANGED <<log, acked>>
  PROVE  CacheGood(S)
<1>1. /\ page' = p /\ cache' \in Caches(S, Len(log))
      /\ Fresh(Active(p, cache'), cache', log, acked)
  BY ShowFresh DEF Typed, UpToDate
<1>. QED BY <1>1 DEF Typed, UpToDate, CacheGood

\* A refetch of its own keeps what is shown fresh.
LEMMA WakeGood ==
  ASSUME NEW S, Typed(S), UpToDate, NEW kind, NEW X, Wake(kind, X)
  PROVE  CacheGood(S)
<1>1. cache' = Ensure(cache, X) /\ UNCHANGED <<page, log, acked>> BY DEF Wake
<1>. DEFINE d == Ensure(cache, X)
<1>2. d \in Caches(S, Len(log)) /\ Fresh(Active(page, d), d, log, acked)
  BY WakeFresh DEF Typed, UpToDate
<1>. QED BY <1>1, <1>2 DEF Typed, UpToDate, CacheGood

\* A mutation the server applies keeps what is shown fresh.
LEMMA GrowGood ==
  ASSUME NEW S, Typed(S), UpToDate, NEW r \in RequestsOf(S), log' = Append(log, r),
         UNCHANGED <<page, cache, acked>>
  PROVE  CacheGood(S)
<1>1. /\ log' \in Seq(RequestsOf(S)) /\ Len(log') = Len(log) + 1
      /\ \A j \in 1..Len(log) : j \in 1..Len(log')
      /\ Caches(S, Len(log)) \subseteq Caches(S, Len(log'))
      /\ \A D, c : \A A \in SUBSET (1..Len(log)) : Fresh(D, c, log, A) => Fresh(D, c, log', A)
  BY LogGrows DEF Typed
<1>. QED BY <1>1 DEF Typed, UpToDate, CacheGood

\* An answer to a mutation keeps what is shown fresh.
LEMMA AckGood ==
  ASSUME NEW S, Typed(S), UpToDate, NEW i \in DOMAIN runs, Acknowledge(i)
  PROVE  CacheGood(S) /\ (Open(page, cache') => Open(page, cache))
<1>1. /\ runs[i].pc = "applied"
      /\ cache' = Invalidate(HookOf(i), cache, Active(page, cache))
      /\ acked' = acked \cup {runs[i].at} /\ UNCHANGED <<page, log>>
  BY DEF Acknowledge
<1>2. /\ runs[i].at \in 1..Len(log) /\ log[runs[i].at] = HookOf(i).request
      /\ \A q \in QueriesOf(S) : Refreshed(HookOf(i).request, q) => Covered(HookOf(i), q)
  BY <1>1, HookIs DEF Typed
<1>. DEFINE a == runs[i].at
            h == HookOf(i)
            d == Invalidate(h, cache, Active(page, cache))
<1>3. \A q \in QueriesOf(S) : Refreshed(log[a], q) => Covered(h, q)
  BY <1>2
<1>4. a \in 1..Len(log) BY <1>2
<1>. HIDE DEF a, h
<1>5. /\ d \in Caches(S, Len(log)) /\ Fresh(Active(page, d), d, log, acked \cup {a})
      /\ Open(page, d) => Open(page, cache)
  BY <1>3, <1>4, AckFresh DEF Typed, UpToDate
<1>6. cache' = d /\ acked' = acked \cup {a} BY <1>1 DEF h, a
<1>. QED BY <1>1, <1>4, <1>5, <1>6 DEF Typed, UpToDate, CacheGood

\* An answer to a query keeps what is shown fresh.
LEMMA DeliverGood ==
  ASSUME NEW S, Typed(S), UpToDate, NEW q \in DOMAIN cache, NEW n, Deliver(q, n)
  PROVE  CacheGood(S) /\ (Open(page, cache) => cache' = Answered(q, n))
<1>1. PICK skip \in Skips(page, Answered(q, n)) : cache' = Mount(page, Answered(q, n), skip)
  BY DEF Deliver, Answered
<1>2. cache[q].fetch # Idle /\ n \in cache[q].fetch..Len(log) /\ UNCHANGED <<page, log,
                                                                 acked>>
  BY DEF Deliver
<1>3. q \in QueriesOf(S) BY DEF Typed, Caches
<1>. DEFINE d == Mount(page, Answered(q, n), skip)
<1>4. /\ d \in Caches(S, Len(log)) /\ Fresh(Active(page, d), d, log, acked)
      /\ Open(page, cache) => d = Answered(q, n)
  BY <1>2, <1>3, DeliverFresh DEF Typed, UpToDate
<1>. QED BY <1>1, <1>2, <1>4 DEF Typed, UpToDate, CacheGood

\* A fetch that fails keeps what is shown fresh.
LEMMA FailGood ==
  ASSUME NEW S, Typed(S), UpToDate, NEW q \in DOMAIN cache, Fail(q)
  PROVE  CacheGood(S) /\ (Open(page, cache') => Open(page, cache))
<1>. DEFINE d == Failed(q)
<1>1. cache' = d /\ UNCHANGED <<page, log, acked>> BY DEF Fail, Failed
<1>2. q \in QueriesOf(S) BY DEF Typed, Caches
<1>3. /\ d \in Caches(S, Len(log)) /\ Fresh(Active(page, d), d, log, acked)
      /\ Open(page, d) => Open(page, cache)
  BY <1>2, FailFresh DEF Typed, UpToDate
<1>. QED BY <1>1, <1>3 DEF Typed, UpToDate, CacheGood

\* A sequence changed element by element.
LEMMA Mapped ==
  ASSUME NEW T, NEW s \in Seq(T), NEW f, f = [j \in DOMAIN s |-> f[j]],
         \A j \in DOMAIN s : f[j] \in T
  PROVE  f \in Seq(T) /\ Len(f) = Len(s) /\ DOMAIN f = DOMAIN s
OBVIOUS

SameOffers(f) ==
    DOMAIN f = DOMAIN runs /\ \A j \in DOMAIN runs : f[j].offer = runs[j].offer

\* Mutations changed one by one, each for a good one.
LEMMA RunsMapped ==
  ASSUME NEW S, NEW l, runs \in Seq(Run(S)), NEW f, f = [j \in DOMAIN runs |-> f[j]],
         \A j \in DOMAIN runs : /\ f[j] \in Run(S) /\ GoodRun(f[j], l)
                                /\ f[j].offer = runs[j].offer
  PROVE  RunsOK(S, f, l) /\ SameOffers(f)
BY Mapped DEF RunsOK, SameOffers

\* Leaving the page keeps the mutations under way: what is under way stays well-formed.
LEMMA LeaveRuns ==
  ASSUME NEW S, RunsOK(S, runs, log), NEW f,
         f = [i \in DOMAIN runs |-> [runs[i] EXCEPT !.here = FALSE]]
  PROVE  RunsOK(S, f, log) /\ SameOffers(f)
<1>1. ASSUME NEW j \in DOMAIN runs
      PROVE  f[j] \in Run(S) /\ GoodRun(f[j], log) /\ f[j].offer = runs[j].offer
  <2>1. runs[j] \in Run(S) /\ GoodRun(runs[j], log) BY DEF RunsOK
  <2>. QED BY <2>1 DEF Run, GoodRun
<1>2. f = [j \in DOMAIN runs |-> f[j]] /\ runs \in Seq(Run(S)) BY DEF RunsOK
<1>. QED BY <1>1, <1>2, RunsMapped

\* A mutation that is started joins those under way: what is under way stays well-formed.
LEMMA StartRuns ==
  ASSUME NEW S \in Sites, RunsOK(S, runs, log), NEW o \in OffersOf(S), Start(o)
  PROVE  /\ RunsOK(S, runs', log) /\ Len(runs') = Len(runs) + 1
         /\ \A j \in DOMAIN runs : runs'[j] = runs[j]
         /\ runs'[Len(runs) + 1] = [offer |-> o, step |-> 1, pc |-> "sent", at |-> 0,
                                   waits |-> {}, here |-> TRUE]
<1>. DEFINE r == [offer |-> o, step |-> 1, pc |-> "sent", at |-> 0, waits |-> {},
                  here |-> TRUE]
<1>1. runs' = Append(runs, r) BY DEF Start
<1>2. r \in Run(S) BY DEF Run, Progresses
<1>3. GoodRun(r, log)
  <2>1. DOMAIN o.steps = 1..Len(o.steps) /\ Len(o.steps) \in {1, 2}
    BY EverySite DEF SiteOK
  <2>. QED BY <2>1 DEF GoodRun
<1>. HIDE DEF r
<1>4. runs \in Seq(Run(S)) BY DEF RunsOK
<1>5. /\ runs' \in Seq(Run(S)) /\ Len(runs') = Len(runs) + 1 /\ runs'[Len(runs) + 1] = r
      /\ \A j \in 1..Len(runs) : runs'[j] = runs[j]
      /\ DOMAIN runs = 1..Len(runs) /\ Len(runs) \in Nat
      /\ DOMAIN runs' = 1..(Len(runs) + 1)
  BY <1>1, <1>2, <1>4
<1>6. \A j \in DOMAIN runs' : GoodRun(runs'[j], log)
  <2>1. \A j \in DOMAIN runs' : j \in 1..Len(runs) \/ j = Len(runs) + 1 BY <1>5
  <2>. QED BY <2>1, <1>3, <1>5 DEF RunsOK
<1>. QED BY <1>5, <1>6 DEF RunsOK, r

\* The server applies a mutation: what is under way stays well-formed.
LEMMA ApplyRuns ==
  ASSUME NEW S \in Sites, RunsOK(S, runs, log), log \in Seq(RequestsOf(S)),
         NEW i \in DOMAIN runs, Apply(i)
  PROVE  /\ RunsOK(S, runs', log') /\ SameOffers(runs')
         /\ \A j \in DOMAIN runs : /\ runs'[j].step = runs[j].step /\ runs'[j].here = runs[j].here
                                   /\ runs'[j].pc = IF j = i THEN "applied" ELSE runs[j].pc
<1>1. log' = Append(log, HookOf(i).request)
      /\ runs' = [runs EXCEPT ![i].pc = "applied", ![i].at = Len(log')]
  BY DEF Apply
<1>2. HookOf(i) = runs[i].offer.steps[runs[i].step] /\ HookOf(i).request \in RequestsOf(S)
  BY HookIs
<1>3. /\ log' \in Seq(RequestsOf(S)) /\ Len(log') = Len(log) + 1 /\ Len(log) \in Nat
      /\ log'[Len(log')] = HookOf(i).request
      /\ \A j \in 1..Len(log) : log'[j] = log[j] /\ j \in 1..Len(log')
  BY <1>1, <1>2
<1>4. runs \in Seq(Run(S)) /\ \A j \in DOMAIN runs : runs[j] \in Run(S) /\ GoodRun(runs[j], log)
  BY DEF RunsOK
<1>5. ASSUME NEW j \in DOMAIN runs, j # i
      PROVE  runs'[j] \in Run(S) /\ GoodRun(runs'[j], log') /\ runs'[j].offer = runs[j].offer
  <2>1. runs'[j] = runs[j] BY <1>1, <1>4, <1>5
  <2>. QED BY <2>1, <1>3, <1>4 DEF GoodRun
<1>6. runs'[i] \in Run(S) /\ GoodRun(runs'[i], log') /\ runs'[i].offer = runs[i].offer
  <2>1. runs'[i] = [runs[i] EXCEPT !.pc = "applied", !.at = Len(log')] BY <1>1, <1>4
  <2>2. runs'[i] \in Run(S) /\ runs'[i].offer = runs[i].offer /\ runs'[i].step = runs[i].step
        /\ runs'[i].pc = "applied" /\ runs'[i].at = Len(log')
    <3>1. runs[i] \in Run(S) BY <1>4
    <3>2. PICK k \in Nat : k = Len(log')
      <4>1. Len(log') \in Nat BY <1>3
      <4>. QED BY <4>1
    <3>3. runs'[i] = [runs[i] EXCEPT !.pc = "applied", !.at = k] BY <2>1, <3>2
    <3>4. "applied" \in Progresses BY DEF Progresses
    <3>5. runs'[i] \in Run(S) BY <3>1, <3>2, <3>3, <3>4 DEF Run
    <3>6. runs'[i].offer = runs[i].offer /\ runs'[i].step = runs[i].step
          /\ runs'[i].pc = "applied" /\ runs'[i].at = k
      BY <3>1, <3>3 DEF Run
    <3>. QED BY <3>2, <3>5, <3>6
  <2>3. Len(log') \in 1..Len(log') BY <1>3
  <2>. QED BY <2>2, <2>3, <1>2, <1>3, <1>4 DEF GoodRun
<1>7. runs' = [j \in DOMAIN runs |-> runs'[j]] BY <1>1, <1>4
<1>8. \A j \in DOMAIN runs : /\ runs'[j] \in Run(S) /\ GoodRun(runs'[j], log')
                             /\ runs'[j].offer = runs[j].offer
  BY <1>5, <1>6
<1>9. RunsOK(S, runs', log') /\ SameOffers(runs') BY <1>4, <1>7, <1>8, RunsMapped
<1>10. ASSUME NEW j \in DOMAIN runs
       PROVE  /\ runs'[j].step = runs[j].step /\ runs'[j].here = runs[j].here
              /\ runs'[j].pc = IF j = i THEN "applied" ELSE runs[j].pc
  <2>1. runs'[j] = IF j = i THEN [runs[i] EXCEPT !.pc = "applied",
                                  !.at = Len(log')] ELSE runs[j]
    BY <1>1, <1>4
  <2>2. runs[j] \in Run(S) BY <1>4
  <2>. QED BY <2>1, <2>2 DEF Run
<1>. QED BY <1>9, <1>10

\* The server rejects a mutation: what is under way stays well-formed.
LEMMA RejectRuns ==
  ASSUME NEW S \in Sites, RunsOK(S, runs, log), NEW i \in DOMAIN runs, Reject(i)
  PROVE  /\ RunsOK(S, runs', log) /\ SameOffers(runs')
         /\ \A j \in DOMAIN runs : /\ runs'[j].step = runs[j].step /\ runs'[j].here = runs[j].here
                                   /\ runs'[j].pc = IF j = i THEN "failed" ELSE runs[j].pc
<1>1. runs' = [runs EXCEPT ![i].pc = "failed"] BY DEF Reject
<1>2. runs \in Seq(Run(S)) /\ \A j \in DOMAIN runs : runs[j] \in Run(S) /\ GoodRun(runs[j], log)
  BY DEF RunsOK
<1>3. ASSUME NEW j \in DOMAIN runs
      PROVE  /\ runs'[j] \in Run(S) /\ GoodRun(runs'[j], log)
             /\ runs'[j].offer = runs[j].offer
             /\ runs'[j].step = runs[j].step /\ runs'[j].here = runs[j].here
             /\ runs'[j].pc = IF j = i THEN "failed" ELSE runs[j].pc
  <2>1. CASE j = i
    <3>1. runs'[j] = [runs[i] EXCEPT !.pc = "failed"] BY <1>1, <1>2, <2>1
    <3>2. runs[i] \in Run(S) /\ GoodRun(runs[i], log) BY <1>2
    <3>3. /\ runs'[j] \in Run(S) /\ runs'[j].offer = runs[i].offer
          /\ runs'[j].step = runs[i].step /\ runs'[j].here = runs[i].here
          /\ runs'[j].pc = "failed"
      BY <3>1, <3>2 DEF Run, Progresses
    <3>. QED BY <2>1, <3>2, <3>3 DEF GoodRun
  <2>2. CASE j # i
    <3>1. runs'[j] = runs[j] BY <1>1, <1>2, <2>2
    <3>. QED BY <1>2, <2>2, <3>1
  <2>. QED BY <2>1, <2>2
<1>4. runs' = [j \in DOMAIN runs |-> runs'[j]] BY <1>1, <1>2
<1>5. RunsOK(S, runs', log) /\ SameOffers(runs') BY <1>2, <1>3, <1>4, RunsMapped
<1>. QED BY <1>3, <1>5

\* A mutation is answered: what is under way stays well-formed.
LEMMA AckRuns ==
  ASSUME NEW S \in Sites, RunsOK(S, runs, log), DOMAIN cache = QueriesOf(S),
         NEW i \in DOMAIN runs, Acknowledge(i)
  PROVE  /\ RunsOK(S, runs', log) /\ SameOffers(runs')
         /\ \A j \in DOMAIN runs : /\ runs'[j].step = runs[j].step /\ runs'[j].here = runs[j].here
                                   /\ runs'[j].pc = IF j = i THEN "waiting" ELSE runs[j].pc
<1>. DEFINE W == WaitsFor(HookOf(i), cache, Active(page, cache))
            G == Restarts(HookOf(i), cache, Active(page, cache))
<1>1. runs' = [j \in DOMAIN runs |->
                  IF j = i THEN [runs[i] EXCEPT !.pc = "waiting", !.waits = W]
                  ELSE [runs[j] EXCEPT !.waits = @ \ G]]
  BY DEF Acknowledge
<1>2. W \subseteq QueriesOf(S) BY DEF WaitsFor, Matching
<1>. HIDE DEF W, G
<1>3. runs \in Seq(Run(S)) /\ \A j \in DOMAIN runs : runs[j] \in Run(S) /\ GoodRun(runs[j], log)
  BY DEF RunsOK
<1>4. ASSUME NEW j \in DOMAIN runs
      PROVE  /\ runs'[j] \in Run(S) /\ GoodRun(runs'[j], log)
             /\ runs'[j].offer = runs[j].offer
             /\ runs'[j].step = runs[j].step /\ runs'[j].here = runs[j].here
             /\ runs'[j].pc = IF j = i THEN "waiting" ELSE runs[j].pc
  <2>1. CASE j = i
    <3>1. runs'[j] = [runs[i] EXCEPT !.pc = "waiting", !.waits = W] BY <1>1, <2>1
    <3>. QED BY <3>1, <2>1, <1>2, <1>3 DEF Run, GoodRun, Progresses
  <2>2. CASE j # i
    <3>1. runs'[j] = [runs[j] EXCEPT !.waits = @ \ G] BY <1>1, <2>2
    <3>. QED BY <3>1, <2>2, <1>3 DEF Run, GoodRun
  <2>. QED BY <2>1, <2>2
<1>5. runs' = [j \in DOMAIN runs |-> runs'[j]] BY <1>1
<1>6. RunsOK(S, runs', log) /\ SameOffers(runs') BY <1>3, <1>4, <1>5, RunsMapped
<1>. QED BY <1>4, <1>6

\* The second mutation of a control follows the first: what is under way stays well-formed.
LEMMA ContinueRuns ==
  ASSUME NEW S \in Sites, RunsOK(S, runs, log), NEW i \in DOMAIN runs, Continue(i)
  PROVE  /\ RunsOK(S, runs', log) /\ SameOffers(runs')
         /\ runs'[i].step = runs[i].step + 1 /\ runs'[i].pc = "sent"
         /\ runs'[i].here = runs[i].here
         /\ \A j \in DOMAIN runs : j # i => runs'[j] = runs[j]
<1>1. runs' = [runs EXCEPT ![i].step = @ + 1, ![i].pc = "sent"]
      /\ runs[i].step < Len(runs[i].offer.steps)
  BY DEF Continue
<1>2. runs \in Seq(Run(S)) /\ \A j \in DOMAIN runs : runs[j] \in Run(S) /\ GoodRun(runs[j], log)
  BY DEF RunsOK
<1>3. \A j \in DOMAIN runs : j # i => runs'[j] = runs[j] BY <1>1, <1>2
<1>4. /\ runs'[i] \in Run(S) /\ GoodRun(runs'[i], log) /\ runs'[i].offer = runs[i].offer
      /\ runs'[i].step = runs[i].step + 1 /\ runs'[i].pc = "sent"
      /\ runs'[i].here = runs[i].here
  <2>1. runs'[i] = [runs[i] EXCEPT !.step = @ + 1, !.pc = "sent"] BY <1>1, <1>2
  <2>2. /\ runs'[i] \in Run(S) /\ runs'[i].offer = runs[i].offer /\ runs[i].step \in Nat
        /\ runs'[i].step = runs[i].step + 1 /\ runs'[i].pc = "sent"
        /\ runs'[i].here = runs[i].here
    <3>1. runs[i] \in Run(S) BY <1>2
    <3>2. PICK k \in Nat : k = runs[i].step + 1
      <4>1. runs[i].step \in Nat BY <3>1 DEF Run
      <4>2. runs[i].step + 1 \in Nat BY <4>1
      <4>. QED BY <4>2
    <3>3. runs'[i] = [runs[i] EXCEPT !.step = k, !.pc = "sent"]
      BY <2>1, <3>1, <3>2 DEF Run
    <3>4. "sent" \in Progresses BY DEF Progresses
    <3>5. runs'[i] \in Run(S) BY <3>1, <3>2, <3>3, <3>4 DEF Run
    <3>6. runs'[i].offer = runs[i].offer /\ runs'[i].here = runs[i].here
          /\ runs'[i].step = k /\ runs'[i].pc = "sent" /\ runs[i].step \in Nat
      BY <3>1, <3>3 DEF Run
    <3>. QED BY <3>2, <3>5, <3>6
  <2>3. /\ DOMAIN runs[i].offer.steps = 1..Len(runs[i].offer.steps)
        /\ Len(runs[i].offer.steps) \in {1, 2}
    BY HookIs, EverySite DEF SiteOK
  <2>4. runs'[i].step \in DOMAIN runs'[i].offer.steps BY <2>2, <2>3, <1>1
  <2>. QED BY <2>2, <2>4 DEF GoodRun
<1>5. runs' = [j \in DOMAIN runs |-> runs'[j]] BY <1>1, <1>2
<1>6. \A j \in DOMAIN runs : /\ runs'[j] \in Run(S) /\ GoodRun(runs'[j], log)
                             /\ runs'[j].offer = runs[j].offer
  BY <1>2, <1>3, <1>4
<1>7. RunsOK(S, runs', log) /\ SameOffers(runs') BY <1>2, <1>5, <1>6, RunsMapped
<1>. QED BY <1>3, <1>4, <1>7

\* A mutation whose refetches are over is done: what is under way stays well-formed.
LEMMA SettleRuns ==
  ASSUME NEW S \in Sites, RunsOK(S, runs, log), NEW i \in DOMAIN runs, Settle(i)
  PROVE  /\ RunsOK(S, runs', log) /\ SameOffers(runs')
         /\ \A j \in DOMAIN runs : /\ runs'[j].step = runs[j].step
                                   /\ runs'[j].pc = IF j = i THEN "done" ELSE runs[j].pc
<1>. DEFINE moves == runs[i].offer.then # "" /\ runs[i].offer.then # page
<1>1. runs' = [j \in DOMAIN runs |->
                  [runs[j] EXCEPT !.pc = IF j = i THEN "done" ELSE @,
                   !.here = @ /\ ~moves]]
  BY DEF Settle
<1>. HIDE DEF moves
<1>2. runs \in Seq(Run(S)) /\ \A j \in DOMAIN runs : runs[j] \in Run(S) /\ GoodRun(runs[j], log)
  BY DEF RunsOK
<1>3. ASSUME NEW j \in DOMAIN runs
      PROVE  /\ runs'[j] \in Run(S) /\ GoodRun(runs'[j], log)
             /\ runs'[j].offer = runs[j].offer
             /\ runs'[j].step = runs[j].step
             /\ runs'[j].pc = IF j = i THEN "done" ELSE runs[j].pc
  <2>1. PICK b \in BOOLEAN : b = (runs[j].here /\ ~moves)
    <3>1. (runs[j].here /\ ~moves) \in BOOLEAN OBVIOUS
    <3>. QED BY <3>1
  <2>2. PICK x \in Progresses : x = IF j = i THEN "done" ELSE runs[j].pc
    BY <1>2 DEF Run, Progresses
  <2>3. runs'[j] = [runs[j] EXCEPT !.pc = x, !.here = b]
    <3>1. runs'[j] = [runs[j] EXCEPT !.pc = IF j = i THEN "done" ELSE @,
                      !.here = @ /\ ~moves]
      BY <1>1
    <3>. QED BY <3>1, <2>1, <2>2, <1>2 DEF Run
  <2>. QED BY <2>2, <2>3, <1>2 DEF Run, GoodRun
<1>4. runs' = [j \in DOMAIN runs |-> runs'[j]] BY <1>1
<1>5. RunsOK(S, runs', log) /\ SameOffers(runs') BY <1>2, <1>3, <1>4, RunsMapped
<1>. QED BY <1>3, <1>5

\* The end of a wait moves no mutation on.
LEMMA EndRuns ==
  ASSUME NEW S \in Sites, RunsOK(S, runs, log), NEW q, EndWait(q)
  PROVE  /\ RunsOK(S, runs', log) /\ SameOffers(runs')
         /\ \A j \in DOMAIN runs : /\ runs'[j].step = runs[j].step /\ runs'[j].here = runs[j].here
                                   /\ runs'[j].pc = runs[j].pc
<1>1. runs' = [j \in DOMAIN runs |-> [runs[j] EXCEPT !.waits = @ \ {q}]] BY DEF EndWait
<1>2. runs \in Seq(Run(S)) /\ \A j \in DOMAIN runs : runs[j] \in Run(S) /\ GoodRun(runs[j], log)
  BY DEF RunsOK
<1>3. ASSUME NEW j \in DOMAIN runs
      PROVE  /\ runs'[j] \in Run(S) /\ GoodRun(runs'[j], log)
             /\ runs'[j].offer = runs[j].offer
             /\ runs'[j].step = runs[j].step /\ runs'[j].here = runs[j].here
             /\ runs'[j].pc = runs[j].pc
  <2>1. runs'[j] = [runs[j] EXCEPT !.waits = @ \ {q}] BY <1>1
  <2>. QED BY <2>1, <1>2 DEF Run, GoodRun
<1>4. runs' = [j \in DOMAIN runs |-> runs'[j]] BY <1>1
<1>5. RunsOK(S, runs', log) /\ SameOffers(runs') BY <1>2, <1>3, <1>4, RunsMapped
<1>. QED BY <1>3, <1>5

Asked(rs) == {i \in DOMAIN rs : rs[i].offer.confirm}
Owed == IF dialog # {} /\ ~confirming THEN 1 ELSE 0
Counted == Cardinality(Asked(runs)) + Owed <= opened
Sound(S) == Typed(S) /\ UpToDate /\ Counted

\* The same controls ask for confirmation the same number of times.
LEMMA AskedSame == \A f : SameOffers(f) => Asked(f) = Asked(runs)
BY DEF SameOffers, Asked

\* They are finitely many.
LEMMA AskedFinite ==
  ASSUME NEW T, NEW s \in Seq(T)
  PROVE  IsFiniteSet(Asked(s)) /\ Cardinality(Asked(s)) \in Nat
<1>1. DOMAIN s = 1..Len(s) /\ Len(s) \in Nat OBVIOUS
<1>2. IsFiniteSet(1..Len(s)) BY <1>1, FS_Interval
<1>3. Asked(s) \subseteq 1..Len(s) BY <1>1 DEF Asked
<1>. QED BY <1>2, <1>3, FS_Subset, FS_CardinalityType

\* The rest of a step in which no control is started.
LEMMA NoStart ==
  ASSUME NEW S, Sound(S), CacheGood(S), RunsOK(S, runs', log'), SameOffers(runs'),
         opened' = opened,
         dialog' = {} \/ UNCHANGED <<dialog, confirming>>, confirming' \in BOOLEAN,
         draft' \in BOOLEAN, events' \in Seq(Kinds)
  PROVE  Sound(S)'
<1>1. Asked(runs') = Asked(runs) BY AskedSame
<1>2. Cardinality(Asked(runs)) \in Nat /\ opened \in Nat
  BY AskedFinite DEF Sound, Typed, RunsOK
<1>3. Counted'
  BY <1>1, <1>2 DEF Sound, Counted, Owed
<1>4. Dialog(S, dialog') /\ confirming' \in BOOLEAN BY DEF Sound, Typed, Dialog
<1>5. opened' \in Nat BY <1>2
<1>6. S \in Sites BY DEF Sound, Typed
<1>7. Typed(S)' BY <1>4, <1>5, <1>6 DEF CacheGood, Typed
<1>. QED BY <1>3, <1>7 DEF CacheGood, Sound

\* A step that leaves the mutations alone leaves them well-formed.
LEMMA SameRuns ==
  ASSUME NEW S, Typed(S), UNCHANGED <<runs, log>>
  PROVE  RunsOK(S, runs', log') /\ SameOffers(runs')
BY DEF Typed, SameOffers

\* An event is recorded.
LEMMA Logged ==
  ASSUME events \in Seq(Kinds), NEW k \in Kinds, Event(k)
  PROVE  events' \in Seq(Kinds)
BY DEF Event

\* A page that has just been opened is sound.
LEMMA SoundInit ==
  ASSUME Init
  PROVE  \E S \in Sites : Sound(S)
<1>1. PICK S \in Sites : page \in DOMAIN S BY DEF Init
<1>2. SiteOf(page) = S BY <1>1, SiteIs
<1>3. /\ log = <<>> /\ Len(log) = 0 /\ runs = <<>> /\ acked = {} /\ dialog = {}
      /\ confirming = FALSE /\ draft = FALSE /\ opened = 0 /\ events = <<>>
  BY DEF Init
<1>4. cache \in Caches(S, Len(log)) /\ \A q \in DOMAIN cache : ~cache[q].stale
  <2>1. Empty \in Entries(0) /\ ~Empty.stale BY DEF Empty, Entries, None, Idle
  <2>2. [Empty EXCEPT !.data = 0] \in Entries(0) /\ ~[Empty EXCEPT !.data = 0].stale
    BY <2>1 DEF Entries, None
  <2>3. cache = [q \in QueriesOf(S) |->
                  IF q \in Current.outer.reads \cup Current.inner.reads
                  THEN [Empty EXCEPT !.data = 0] ELSE Empty]
    BY <1>2 DEF Init
  <2>4. \A q \in QueriesOf(S) : cache[q] \in {Empty, [Empty EXCEPT !.data = 0]} BY <2>3
  <2>. QED BY <1>3, <2>1, <2>2, <2>3, <2>4 DEF Caches
<1>5. UpToDate BY <1>3, <1>4 DEF UpToDate, Fresh, Asleep, Active
<1>6. RunsOK(S, runs, log) BY <1>3 DEF RunsOK
<1>7. Typed(S)
  <2>1. log \in Seq(RequestsOf(S)) /\ acked \subseteq 1..Len(log) BY <1>3
  <2>2. Dialog(S, dialog) BY <1>3 DEF Dialog
  <2>3. confirming \in BOOLEAN /\ draft \in BOOLEAN BY <1>3
  <2>4. opened \in Nat /\ events \in Seq(Kinds) BY <1>3
  <2>. QED BY <1>1, <1>4, <1>6, <2>1, <2>2, <2>3, <2>4 DEF Typed
<1>8. Counted
  <2>1. Asked(runs) = {} BY <1>3 DEF Asked
  <2>2. Cardinality({}) = 0 BY FS_EmptySet
  <2>3. Owed = 0 BY <1>3 DEF Owed
  <2>4. opened = 0 BY <1>3
  <2>5. Cardinality(Asked(runs)) = 0 BY <2>1, <2>2
  <2>. QED BY <2>3, <2>4, <2>5 DEF Counted
<1>. QED BY <1>5, <1>7, <1>8 DEF Sound

\* A control is started, or asks.
LEMMA StartSound ==
  ASSUME NEW S, Sound(S), NEW o \in OffersOf(S), Start(o), Still,
         UNCHANGED <<draft, opened, events, dialog>>,
         \/ ~o.confirm /\ UNCHANGED confirming
         \/ o \in dialog /\ ~confirming /\ confirming' = TRUE
  PROVE  Sound(S)'
<1>1. CacheGood(S) BY StillGood DEF Sound
<1>2. S \in Sites /\ RunsOK(S, runs, log) /\ log' = log BY DEF Sound, Typed, Still
<1>3. /\ RunsOK(S, runs', log') /\ Len(runs') = Len(runs) + 1
      /\ \A j \in DOMAIN runs : runs'[j] = runs[j]
      /\ runs'[Len(runs) + 1].offer = o
  <2>1. /\ RunsOK(S, runs', log) /\ Len(runs') = Len(runs) + 1
        /\ \A j \in DOMAIN runs : runs'[j] = runs[j]
        /\ runs'[Len(runs) + 1] = [offer |-> o, step |-> 1, pc |-> "sent", at |-> 0,
                                   waits |-> {}, here |-> TRUE]
    BY <1>2, StartRuns
  <2>. QED BY <2>1, <1>2
<1>4. /\ DOMAIN runs = 1..Len(runs) /\ Len(runs) \in Nat
      /\ DOMAIN runs' = 1..(Len(runs) + 1) /\ Len(runs) + 1 \notin DOMAIN runs
  BY <1>2, <1>3 DEF RunsOK
<1>5. \A j \in DOMAIN runs' : j \in DOMAIN runs \/ j = Len(runs) + 1 BY <1>4
<1>6. Asked(runs') = Asked(runs) \cup (IF o.confirm THEN {Len(runs) + 1} ELSE {})
  BY <1>3, <1>4, <1>5 DEF Asked
<1>7. IsFiniteSet(Asked(runs)) /\ Cardinality(Asked(runs)) \in Nat
  BY <1>2, AskedFinite DEF RunsOK
<1>8. Len(runs) + 1 \notin Asked(runs) BY <1>4 DEF Asked
<1>9. Cardinality(Asked(runs')) = Cardinality(Asked(runs)) + (IF o.confirm THEN 1 ELSE 0)
  <2>1. CASE o.confirm
    <3>1. Asked(runs') = Asked(runs) \cup {Len(runs) + 1} BY <1>6, <2>1
    <3>2. Cardinality(Asked(runs) \cup {Len(runs) + 1}) = Cardinality(Asked(runs)) + 1
      BY <1>7, <1>8, FS_AddElement
    <3>. QED BY <3>1, <3>2, <2>1
  <2>2. CASE ~o.confirm BY <1>6, <1>7, <2>2
  <2>. QED BY <2>1, <2>2
<1>10. Counted'
  BY <1>7, <1>9 DEF Sound, Counted, Owed, Typed
<1>11. confirming' \in BOOLEAN BY DEF Sound, Typed
<1>12. Typed(S)' BY <1>1, <1>3, <1>11 DEF CacheGood, Sound, Typed
<1>. QED BY <1>1, <1>10, <1>12 DEF CacheGood, Sound

\* A confirmation that is asked for is counted.
LEMMA AskSound ==
  ASSUME NEW S, Sound(S), NEW o \in OffersOf(S), AskConfirm(o)
  PROVE  Sound(S)'
<1>1. /\ o.confirm /\ dialog = {} /\ opened' = opened + 1 /\ dialog' = {o}
      /\ confirming' = FALSE
      /\ UNCHANGED <<page, cache, runs, log, acked, draft, events>>
  BY DEF AskConfirm
<1>2. CacheGood(S) BY <1>1, StillGood DEF Sound, Still
<1>3. Cardinality(Asked(runs)) \in Nat /\ opened \in Nat
  BY AskedFinite DEF Sound, Typed, RunsOK
<1>4. Counted' BY <1>1, <1>3 DEF Sound, Counted, Owed
<1>5. Dialog(S, dialog') BY <1>1 DEF Dialog
<1>6. opened' \in Nat BY <1>1, <1>3
<1>7. Typed(S)' BY <1>1, <1>2, <1>5, <1>6 DEF CacheGood, Sound, Typed
<1>. QED BY <1>2, <1>4, <1>7 DEF CacheGood, Sound

\* A step that touches no dialog and no event is sound if the cache and the mutations are.
LEMMA QuietSound ==
  ASSUME NEW S, Sound(S), CacheGood(S), RunsOK(S, runs', log'), SameOffers(runs'),
         UNCHANGED <<dialog, confirming, opened, events>>, draft' \in BOOLEAN
  PROVE  Sound(S)'
<1>1. events' \in Seq(Kinds) /\ confirming' \in BOOLEAN BY DEF Sound, Typed
<1>. QED BY <1>1, NoStart

\* So is the end of a mutation, which closes the dialog.
LEMMA FinallySound ==
  ASSUME NEW S, Sound(S), CacheGood(S), RunsOK(S, runs', log'), SameOffers(runs'),
         NEW i, Finally(i), UNCHANGED opened, draft' \in BOOLEAN, events' \in Seq(Kinds)
  PROVE  Sound(S)'
<1>1. dialog' = {} \/ UNCHANGED <<dialog, confirming>> BY DEF Finally
<1>2. confirming' \in BOOLEAN BY DEF Finally, Sound, Typed
<1>. QED BY <1>1, <1>2, NoStart

\* So is a refetch that the browser or the connection causes.
LEMMA WakeSound ==
  ASSUME NEW S, Sound(S), NEW k \in Kinds, NEW X, Wake(k, X)
  PROVE  Sound(S)'
<1>1. CacheGood(S) BY WakeGood DEF Sound
<1>2. UNCHANGED <<runs, log, opened, dialog, confirming>> /\ Event(k)
      /\ draft' = (draft /\ Open(page, cache'))
  BY DEF Wake
<1>3. RunsOK(S, runs', log') /\ SameOffers(runs') BY <1>2, SameRuns DEF Sound
<1>4. events' \in Seq(Kinds) BY <1>2, Logged DEF Sound, Typed
<1>5. draft' \in BOOLEAN /\ confirming' \in BOOLEAN BY <1>2 DEF Sound, Typed
<1>. QED BY <1>1, <1>2, <1>3, <1>4, <1>5, NoStart

\* So is what the user does.
LEMMA UserSound == ASSUME NEW S, Sound(S), User PROVE Sound(S)'
<1>. S \in Sites /\ page \in DOMAIN S /\ UpToDate /\ Typed(S) /\ RunsOK(S, runs, log)
     /\ confirming \in BOOLEAN
  BY DEF Sound, Typed
<1>1. ASSUME NEW p \in DOMAIN SiteOf(page), Navigate(p) PROVE Sound(S)'
  <2>1. /\ p \in DOMAIN SiteOf(page) /\ p # page /\ Event("navigate") /\ Show(p)
        /\ runs' = [i \in DOMAIN runs |-> [runs[i] EXCEPT !.here = FALSE]]
        /\ UNCHANGED <<log, acked, dialog, confirming, opened>>
    BY <1>1 DEF Navigate
  <2>2. p \in DOMAIN S BY <2>1, Here
  <2>3. CacheGood(S) BY <2>1, <2>2, ShowGood
  <2>4. RunsOK(S, runs', log) /\ SameOffers(runs') BY <2>1, LeaveRuns
  <2>5. events' \in Seq(Kinds)
    <3>1. "navigate" \in Kinds BY DEF Kinds
    <3>. QED BY <2>1, <3>1, Logged DEF Typed
  <2>6. draft' \in BOOLEAN /\ confirming' \in BOOLEAN BY <2>1 DEF Show
  <2>7. RunsOK(S, runs', log') BY <2>1, <2>4
  <2>. QED BY <2>1, <2>3, <2>4, <2>5, <2>6, <2>7, NoStart
<1>2. ASSUME Type PROVE Sound(S)'
  <2>1. draft' \in BOOLEAN /\ UNCHANGED <<page, cache, runs, log, acked, dialog,
                                          confirming, opened, events>>
    BY <1>2 DEF Type
  <2>2. CacheGood(S) BY <2>1, StillGood DEF Still
  <2>3. RunsOK(S, runs', log') /\ SameOffers(runs') BY <2>1, SameRuns
  <2>. QED BY <2>1, <2>2, <2>3, QuietSound
<1>3. ASSUME NEW o \in Offered, Use(o) PROVE Sound(S)'
  <2>1. o \in OffersOf(S) BY Here
  <2>2. /\ ~o.confirm /\ Start(o)
        /\ UNCHANGED <<page, cache, log, acked, dialog, confirming, draft, opened,
                       events>>
    BY <1>3 DEF Use
  <2>. QED BY <2>1, <2>2, StartSound DEF Still
<1>4. ASSUME NEW o \in Offered, AskConfirm(o) PROVE Sound(S)'
  <2>1. o \in OffersOf(S) BY Here
  <2>. QED BY <1>4, <2>1, AskSound
<1>5. ASSUME Confirm PROVE Sound(S)'
  <2>1. PICK o \in dialog : Start(o) BY <1>5 DEF Confirm
  <2>2. o \in OffersOf(S) BY <2>1 DEF Typed, Dialog
  <2>3. /\ ~confirming /\ confirming' = TRUE
        /\ UNCHANGED <<page, cache, log, acked, dialog, draft, opened, events>>
    BY <1>5 DEF Confirm
  <2>. QED BY <2>1, <2>2, <2>3, StartSound DEF Still
<1>6. ASSUME CancelDialog PROVE Sound(S)'
  <2>1. dialog' = {} /\ UNCHANGED <<page, cache, runs, log, acked, confirming, draft,
                                    opened, events>>
    BY <1>6 DEF CancelDialog
  <2>2. CacheGood(S) BY <2>1, StillGood DEF Still
  <2>3. RunsOK(S, runs', log') /\ SameOffers(runs') BY <2>1, SameRuns
  <2>4. draft' \in BOOLEAN /\ confirming' \in BOOLEAN /\ events' \in Seq(Kinds)
    BY <2>1 DEF Typed
  <2>. QED BY <2>1, <2>2, <2>3, <2>4, NoStart
<1>7. ASSUME Focus \/ Reconnect \/ Interval \/ Retry PROVE Sound(S)'
  <2>1. "wake" \in Kinds /\ "reconnect" \in Kinds BY DEF Kinds
  <2>2. PICK k \in Kinds : \E X : Wake(k, X)
    BY <1>7, <2>1 DEF Focus, Reconnect, Interval, Retry
  <2>3. PICK X : Wake(k, X) BY <2>2
  <2>. QED BY <2>3, WakeSound
<1>. QED BY <1>1, <1>2, <1>3, <1>4, <1>5, <1>6, <1>7 DEF User

\* So is a step of a mutation.
LEMMA StepSound == ASSUME NEW S, Sound(S), NEW i \in DOMAIN runs,
  Step(i) PROVE Sound(S)'
<1>. S \in Sites /\ page \in DOMAIN S /\ UpToDate /\ Typed(S) /\ RunsOK(S, runs, log)
     /\ log \in Seq(RequestsOf(S)) /\ draft \in BOOLEAN /\ confirming \in BOOLEAN
     /\ events \in Seq(Kinds)
  BY DEF Sound, Typed
<1>1. CASE Apply(i)
  <2>1. log' = Append(log, HookOf(i).request)
        /\ UNCHANGED <<page, cache, acked, dialog, confirming, draft, opened, events>>
    BY <1>1 DEF Apply
  <2>2. HookOf(i).request \in RequestsOf(S) BY HookIs
  <2>3. CacheGood(S) BY <2>1, <2>2, GrowGood
  <2>4. RunsOK(S, runs', log') /\ SameOffers(runs') BY <1>1, ApplyRuns
  <2>5. draft' \in BOOLEAN BY <2>1
  <2>. QED BY <2>1, <2>3, <2>4, <2>5, QuietSound
<1>2. CASE Reject(i)
  <2>1. /\ IF Gone(HookOf(i).request, Len(log)) THEN UNCHANGED events ELSE Event("fail")
        /\ Finally(i) /\ UNCHANGED <<page, cache, log, acked, draft, opened>>
    BY <1>2 DEF Reject
  <2>2. CacheGood(S) BY <2>1, StillGood DEF Still
  <2>3. RunsOK(S, runs', log') /\ SameOffers(runs') BY <1>2, <2>1, RejectRuns
  <2>4. events' \in Seq(Kinds)
    <3>1. "fail" \in Kinds BY DEF Kinds
    <3>. QED BY <2>1, <3>1, Logged
  <2>. QED BY <2>1, <2>2, <2>3, <2>4, FinallySound
<1>3. CASE Acknowledge(i)
  <2>1. draft' = (draft /\ Open(page, cache')) /\ UNCHANGED <<log, dialog, confirming,
                                                  opened, events>>
    BY <1>3 DEF Acknowledge
  <2>2. CacheGood(S) BY <1>3, AckGood
  <2>3. DOMAIN cache = QueriesOf(S) BY DEF Typed, Caches
  <2>4. RunsOK(S, runs', log') /\ SameOffers(runs') BY <1>3, <2>1, <2>3, AckRuns
  <2>5. draft' \in BOOLEAN BY <2>1
  <2>. QED BY <2>1, <2>2, <2>4, <2>5, QuietSound
<1>4. CASE Continue(i)
  <2>1. UNCHANGED <<page, cache, log, acked, dialog, confirming, draft, opened, events>>
    BY <1>4 DEF Continue
  <2>2. CacheGood(S) BY <2>1, StillGood DEF Still
  <2>3. RunsOK(S, runs', log') /\ SameOffers(runs') BY <1>4, <2>1, ContinueRuns
  <2>. QED BY <2>1, <2>2, <2>3, QuietSound
<1>5. CASE Settle(i)
  <2>. DEFINE then == runs[i].offer.then
              moves == then # "" /\ then # page
  <2>1. /\ Finally(i) /\ UNCHANGED <<log, acked, opened, events>>
        /\ moves => Show(then)
        /\ ~moves => UNCHANGED <<page, cache>> /\ draft' \in BOOLEAN
    BY <1>5 DEF Settle
  <2>2. then \in DOMAIN S \cup {""} BY HookIs, Here
  <2>3. CacheGood(S)
    <3>1. CASE moves
      <4>1. then \in DOMAIN S /\ then # page BY <2>2, <3>1
      <4>2. Show(then) BY <2>1, <3>1
      <4>. HIDE DEF then, moves
      <4>. QED BY <4>1, <4>2, <2>1, ShowGood
    <3>2. CASE ~moves BY <3>2, <2>1, StillGood DEF Still
    <3>. QED BY <3>1, <3>2
  <2>4. RunsOK(S, runs', log') /\ SameOffers(runs') BY <1>5, <2>1, SettleRuns
  <2>5. draft' \in BOOLEAN BY <2>1 DEF Show
  <2>6. events' \in Seq(Kinds) BY <2>1
  <2>. QED BY <2>1, <2>3, <2>4, <2>5, <2>6, FinallySound
<1>. QED BY <1>1, <1>2, <1>3, <1>4, <1>5 DEF Step

\* So is an answer to a query.
LEMMA AnswerSound == ASSUME NEW S, Sound(S), NEW q \in DOMAIN cache,
  Answer(q) PROVE Sound(S)'
<1>. S \in Sites /\ page \in DOMAIN S /\ UpToDate /\ Typed(S) /\ RunsOK(S, runs, log)
     /\ draft \in BOOLEAN /\ confirming \in BOOLEAN /\ events \in Seq(Kinds)
  BY DEF Sound, Typed
<1>1. CASE Fail(q)
  <2>1. /\ IF Gone(q.request, Len(log)) THEN UNCHANGED events ELSE Event("fail")
        /\ draft' = (draft /\ Open(page, cache')) /\ EndWait(q)
        /\ UNCHANGED <<page, log, acked, dialog, confirming, opened>>
    BY <1>1 DEF Fail
  <2>2. CacheGood(S) BY <1>1, FailGood
  <2>3. RunsOK(S, runs', log') /\ SameOffers(runs') BY <2>1, EndRuns
  <2>4. events' \in Seq(Kinds)
    <3>1. "fail" \in Kinds BY DEF Kinds
    <3>. QED BY <2>1, <3>1, Logged
  <2>5. draft' \in BOOLEAN /\ confirming' \in BOOLEAN BY <2>1
  <2>. QED BY <2>1, <2>2, <2>3, <2>4, <2>5, NoStart
<1>2. ASSUME NEW n, Deliver(q, n) PROVE Sound(S)'
  <2>1. /\ draft' = (draft /\ Open(page, cache') /\ ~Replaces(q, n)) /\ EndWait(q)
        /\ UNCHANGED <<page, log, acked, dialog, confirming, opened, events>>
    BY <1>2 DEF Deliver
  <2>2. CacheGood(S) BY <1>2, DeliverGood
  <2>3. RunsOK(S, runs', log') /\ SameOffers(runs') BY <2>1, EndRuns
  <2>4. draft' \in BOOLEAN BY <2>1
  <2>. QED BY <2>1, <2>2, <2>3, <2>4, QuietSound
<1>. QED BY <1>1, <1>2 DEF Answer

\* So is every step.
LEMMA SoundStep == ASSUME NEW S, Sound(S), [Next]_vars PROVE Sound(S)'
<1>1. CASE User BY <1>1, UserSound
<1>2. CASE \E i \in DOMAIN runs : Step(i) BY <1>2, StepSound
<1>3. CASE \E q \in DOMAIN cache : Answer(q) BY <1>3, AnswerSound
<1>4. ASSUME NEW r \in RequestsOf(SiteOf(page)), Foreign(r) PROVE Sound(S)'
  <2>1. /\ Event("foreign") /\ log' = Append(log, r)
        /\ UNCHANGED <<page, cache, runs, acked, dialog, confirming, draft, opened>>
    BY <1>4 DEF Foreign
  <2>2. S \in Sites /\ page \in DOMAIN S /\ UpToDate /\ Typed(S) /\ RunsOK(S, runs, log)
        /\ draft \in BOOLEAN /\ confirming \in BOOLEAN /\ events \in Seq(Kinds)
        /\ log \in Seq(RequestsOf(S))
    BY DEF Sound, Typed
  <2>3. r \in RequestsOf(S) BY <2>2, Here
  <2>4. CacheGood(S) BY <2>1, <2>2, <2>3, GrowGood
  <2>5. /\ Len(log') = Len(log) + 1 /\ Len(log) \in Nat
        /\ \A j \in 1..Len(log) : log'[j] = log[j] /\ j \in 1..Len(log')
    BY <2>1, <2>2, <2>3
  <2>6. RunsOK(S, runs', log') BY <2>1, <2>2, <2>5 DEF RunsOK, GoodRun
  <2>7. SameOffers(runs') BY <2>1 DEF SameOffers
  <2>8. events' \in Seq(Kinds)
    <3>1. "foreign" \in Kinds BY DEF Kinds
    <3>. QED BY <2>1, <2>2, <3>1, Logged
  <2>9. draft' \in BOOLEAN /\ confirming' \in BOOLEAN BY <2>1, <2>2
  <2>. QED BY <2>1, <2>4, <2>6, <2>7, <2>8, <2>9, NoStart
<1>5. CASE UNCHANGED vars
  <2>1. UNCHANGED <<page, cache, runs, log, acked, dialog, confirming, draft, opened,
                    events>>
    BY <1>5 DEF vars
  <2>2. CacheGood(S) BY <2>1, StillGood DEF Still, Sound
  <2>3. RunsOK(S, runs', log') /\ SameOffers(runs') BY <2>1, SameRuns DEF Sound
  <2>4. draft' \in BOOLEAN BY <2>1 DEF Sound, Typed
  <2>. QED BY <2>1, <2>2, <2>3, <2>4, QuietSound
<1>. QED BY <1>1, <1>2, <1>3, <1>4, <1>5 DEF Next

Undisturbed == {"navigate", "fail"} \cap Range(events) = {}
OfPage(p) == SchemaPages[p].outer.offers \cup SchemaPages[p].inner.offers
Ended(i) == runs[i].pc \in {"done", "failed"}
FormFlow ==
    /\ dialog = {} /\ \A j \in DOMAIN log : log[j] \notin Removals
    /\ DOMAIN runs \subseteq {1} /\ (DOMAIN runs = {} => acked = {})
    /\ \A i \in DOMAIN runs :
          /\ runs[i].offer \in OfPage(page) /\ runs[i].here /\ Running(i)
          /\ acked = {} \/ runs[i].pc = "waiting" \/ runs[i].step > 1
SubjectFlow ==
    /\ dialog \subseteq {DeleteSubject}
    /\ \A i \in DOMAIN runs : runs[i].offer = DeleteSubject \/ runs[i].pc = "done"
    /\ \A q \in Subjects : \A i \in acked : log[i] = deleteSchema \/ Kept(cache[q], i)
ListFlow ==
    /\ \A o \in dialog : o.then \in {"", "Schemas"}
    /\ \A i \in DOMAIN runs : Ended(i) \/ runs[i].offer.then \in {"", "Schemas"}
SchemaFlow ==
    /\ page = "SchemaDiff" => DOMAIN runs = {} /\ acked = {} /\ dialog = {}
    /\ page \in SchemaForms => FormFlow
    /\ page = "Schema" => SubjectFlow
    /\ page = "Schemas" => ListFlow
Flow == page \in DOMAIN SchemaPages /\ Undisturbed => SchemaFlow

\* A history without disturbance had none before.
LEMMA Undisturbs ==
  ASSUME events \in Seq(Kinds), Undisturbed'
  PROVE  /\ events' = events => Undisturbed
         /\ \A k : Event(k) => Undisturbed /\ k \notin {"navigate", "fail"}
<1>1. ASSUME NEW k, Event(k) PROVE Undisturbed /\ k \notin {"navigate", "fail"}
  <2>1. events' = Append(events, k) BY <1>1 DEF Event
  <2>2. /\ DOMAIN events = 1..Len(events) /\ DOMAIN events' = 1..(Len(events) + 1)
        /\ Len(events) \in Nat
        /\ events'[Len(events) + 1] = k
        /\ \A j \in 1..Len(events) : events'[j] = events[j]
    BY <2>1
  <2>3. Range(events) \subseteq Range(events') /\ k \in Range(events')
    <3>1. \A j \in DOMAIN events : j \in DOMAIN events' /\ events'[j] = events[j]
      BY <2>2
    <3>2. Len(events) + 1 \in DOMAIN events' BY <2>2
    <3>. QED BY <2>2, <3>1, <3>2 DEF Range
  <2>. QED BY <2>3 DEF Undisturbed
<1>2. events' = events => Undisturbed BY DEF Undisturbed
<1>. QED BY <1>1, <1>2

\* What happens to the controls in use, whatever the page.
RunsGo ==
    /\ SameOffers(runs')
    /\ \A j \in DOMAIN runs : /\ runs[j].pc = "done" => runs'[j].pc = "done"
                              /\ Ended(j) => runs'[j].pc \in {"done", "failed"}

\* A mutation that has ended stays ended.
LEMMA StepsGo ==
  ASSUME NEW S, Sound(S), NEW i \in DOMAIN runs, Step(i)
  PROVE  RunsGo
<1>. S \in Sites /\ RunsOK(S, runs, log) /\ log \in Seq(RequestsOf(S)) /\ DOMAIN cache = QueriesOf(S)
  BY DEF Sound, Typed, Caches
<1>1. CASE Apply(i)
  <2>1. runs[i].pc = "sent" BY <1>1 DEF Apply
  <2>. QED BY <1>1, <2>1, ApplyRuns DEF RunsGo, Ended
<1>2. CASE Reject(i)
  <2>1. runs[i].pc = "sent" BY <1>2 DEF Reject
  <2>. QED BY <1>2, <2>1, RejectRuns DEF RunsGo, Ended
<1>3. CASE Acknowledge(i)
  <2>1. runs[i].pc = "applied" BY <1>3 DEF Acknowledge
  <2>. QED BY <1>3, <2>1, AckRuns DEF RunsGo, Ended
<1>4. CASE Continue(i)
  <2>1. runs[i].pc = "waiting" BY <1>4 DEF Continue
  <2>. QED BY <1>4, <2>1, ContinueRuns DEF RunsGo, Ended
<1>5. CASE Settle(i)
  <2>1. runs[i].pc = "waiting" BY <1>5 DEF Settle
  <2>. QED BY <1>5, <2>1, SettleRuns DEF RunsGo, Ended
<1>. QED BY <1>1, <1>2, <1>3, <1>4, <1>5 DEF Step

\* An answer to a query moves no mutation on.
LEMMA AnswersGo ==
  ASSUME NEW S, Sound(S), NEW q, EndWait(q)
  PROVE  RunsGo
BY EndRuns DEF Sound, Typed, RunsGo, Ended

\* Nothing else touches the schemas: the other steps of a page without a form to replace.
Rest ==
    \/ Type \/ Focus \/ Reconnect \/ Interval \/ Retry
    \/ \E q \in DOMAIN cache : Answer(q)
    \/ UNCHANGED vars

\* The steps of an undisturbed visit to the schemas.
LEMMA FlowSteps ==
  ASSUME Sound(SchemaPages), [Next]_vars, Undisturbed'
  PROVE  \/ \E o \in Offered : Use(o) \/ AskConfirm(o)
         \/ Confirm \/ CancelDialog
         \/ \E i \in DOMAIN runs : Step(i)
         \/ Rest
<1>. page \in DOMAIN SchemaPages /\ SchemaPages \in Sites /\ events \in Seq(Kinds)
  BY DEF Sound, Typed
<1>1. ASSUME NEW p, Navigate(p) PROVE FALSE BY <1>1, Undisturbs DEF Navigate
<1>2. ASSUME NEW r, Foreign(r) PROVE FALSE
  <2>1. Current.form.source = {} BY Here, SchemaPagesAre
  <2>. QED BY <1>2, <2>1 DEF Foreign
<1>. QED BY <1>1, <1>2 DEF Next, User, Rest

\* What they leave alone.
LEMMA RestIs ==
  ASSUME NEW S, Sound(S), Rest
  PROVE  /\ UNCHANGED <<page, log, acked, dialog>> /\ RunsGo
         /\ \A j \in DOMAIN runs : /\ runs'[j].step = runs[j].step /\ runs'[j].here = runs[j].here
                                   /\ runs'[j].pc = runs[j].pc
         /\ \A q \in QueriesOf(S) : \A j \in acked : Kept(cache[q], j) => Kept(cache'[q], j)
<1>. /\ S \in Sites /\ page \in DOMAIN S /\ UpToDate /\ Typed(S) /\ RunsOK(S, runs, log)
     /\ log \in Seq(RequestsOf(S)) /\ cache \in Caches(S, Len(log))
     /\ acked \in SUBSET (1..Len(log))
     /\ Fresh(Active(page, cache), cache, log, acked)
  BY DEF Sound, Typed, UpToDate
<1>1. CASE Type \/ UNCHANGED vars
  <2>1. UNCHANGED <<page, cache, runs, log, acked, dialog>> BY <1>1 DEF Type, vars
  <2>. QED BY <2>1 DEF RunsGo, SameOffers, Ended
<1>2. CASE Focus \/ Reconnect \/ Interval \/ Retry
  <2>1. PICK k, X : Wake(k, X) BY <1>2 DEF Focus, Reconnect, Interval, Retry
  <2>2. UNCHANGED <<page, runs, log, acked, dialog>> /\ cache' = Ensure(cache, X)
    BY <2>1 DEF Wake
  <2>3. \A q \in QueriesOf(S) : \A j \in acked : Kept(cache[q], j) => Kept(Ensure(cache, X)[q], j)
    BY WakeFresh
  <2>. QED BY <2>2, <2>3 DEF RunsGo, SameOffers, Ended
<1>3. ASSUME NEW q \in DOMAIN cache, Fail(q)
      PROVE  /\ UNCHANGED <<page, log, acked, dialog>> /\ EndWait(q)
             /\ \A x \in QueriesOf(S) : \A j \in acked : Kept(cache[x], j) => Kept(cache'[x], j)
  <2>1. q \in QueriesOf(S) BY DEF Caches
  <2>2. cache' = Failed(q) /\ UNCHANGED <<page, log, acked, dialog>> /\ EndWait(q)
    BY <1>3 DEF Fail, Failed
  <2>3. \A x \in QueriesOf(S) : \A j \in acked : Kept(cache[x], j) => Kept(Failed(q)[x], j)
    BY <2>1, FailFresh
  <2>. QED BY <2>2, <2>3
<1>4. ASSUME NEW q \in DOMAIN cache, NEW n, Deliver(q, n)
      PROVE  /\ UNCHANGED <<page, log, acked, dialog>> /\ EndWait(q)
             /\ \A x \in QueriesOf(S) : \A j \in acked : Kept(cache[x], j) => Kept(cache'[x], j)
  <2>1. q \in QueriesOf(S) BY DEF Caches
  <2>2. UNCHANGED <<page, log, acked, dialog>> /\ EndWait(q) /\ cache[q].fetch # Idle
        /\ n \in cache[q].fetch..Len(log)
    BY <1>4 DEF Deliver
  <2>3. PICK skip \in Skips(page, Answered(q, n)) : cache' = Mount(page, Answered(q, n), skip)
    BY <1>4 DEF Deliver, Answered
  <2>4. \A x \in QueriesOf(S) : \A j \in acked :
          Kept(cache[x], j) => Kept(Mount(page, Answered(q, n), skip)[x], j)
    BY <2>1, <2>2, DeliverFresh
  <2>. QED BY <2>2, <2>3, <2>4
<1>5. CASE \E q \in DOMAIN cache : Answer(q)
  <2>1. PICK q \in DOMAIN cache : Answer(q) BY <1>5
  <2>2. /\ UNCHANGED <<page, log, acked, dialog>> /\ EndWait(q)
        /\ \A x \in QueriesOf(S) : \A j \in acked : Kept(cache[x], j) => Kept(cache'[x], j)
    BY <2>1, <1>3, <1>4 DEF Answer
  <2>. QED BY <2>2, AnswersGo, EndRuns
<1>. QED BY <1>1, <1>2, <1>5 DEF Rest

\* Only the schema pages read a subject.
LEMMA OnlySchemas ==
  ASSUME NEW S \in Sites, NEW q \in QueriesOf(S), q \in Subjects
  PROVE  S = SchemaPages
<1>. DEFINE names == {"clusters", "clusterStats", "userInfo"}
<1>1. q.key[1] \notin names
  BY DEF Subjects, useGetLatestSchema, useGetSchemasVersions, useQuery, Query
<1>2. \A reads, hooks : (\A p \in DOMAIN S : ValidPage(S[p], reads, hooks, DOMAIN S)) => q \in reads
  BY DEF QueriesOf, Whole, ValidPage, ValidView
<1>3. \A x \in TopicReads : x.key[1] \in names
  BY DEF TopicReads, useTopics, useTopicDetails, useTopicConfig, useTopicConsumerGroups,
         useTopicConnectors, useTopicAcls, useTopicAnalysis, useSerdes,
           useGetConsumerGroupsLag,
         topicKey, topicKeys, useQuery, useSuspenseQuery, Query
<1>4. \A x \in ConnectReads : x.key[1] \in names
  <2>1. /\ useConnects("withStats").key[1] = "clusters"
        /\ useConnects("").key[1] = "clusters"
        /\ useConnectors.key[1] = "clusters"
    BY DEF useConnects, useConnectors, connectsKey, connectorsKey, useQuery, Query
  <2>2. /\ useConnector.key[1] = "clusters" /\ useConnectorTasks.key[1] = "clusters"
        /\ useConnectorConfig.key[1] = "clusters"
    BY DEF useConnector, useConnectorTasks, useConnectorConfig, connectorKey,
       connectorTasksKey,
           useQuery, useSuspenseQuery, Query
  <2>. QED BY <2>1, <2>2 DEF ConnectReads
<1>5. \A x \in GroupReads \cup AclReads : x.key[1] \in names
  BY DEF GroupReads, AclReads, useConsumerGroups, useConsumerGroupDetails,
         useGetConsumerGroupsLag, useAcls, useTopics, aclsKey, groupKeys, topicKeys,
         useQuery, useSuspenseQuery, Query
<1>6. \A x \in BrokerReads \cup ListReads : x.key[1] \in names
  BY DEF BrokerReads, ListReads, useClusters, useClusterStats, useBrokers,
     useBrokerLogDirs,
         useBrokerMetrics, useBrokerConfig, useGetUserInfo, useKsqlTables,
           useKsqlStreams,
         brokerKey, useQuery, useSuspenseQuery, Query
<1>. HIDE DEF names
<1>. QED
  BY <1>1, <1>2, <1>3, <1>4, <1>5, <1>6, TopicSite, ConnectSite, GroupSite, AclSite,
     BrokerSite,
     ListSite DEF Sites

\* What the controls of a schema form send removes nothing.
LEMMA FormsRemoveNothing ==
  {createNewSchema, updateSchemaCompatibilityLevel} \cap Removals = {}
BY DEF Removals, createNewSchema, updateSchemaCompatibilityLevel, deleteSchema,
   deleteTopic,
       deleteConnector, deleteConsumerGroup, OnSubject, OnTopic, OnConnector, OnGroup,
         InCluster,
       Request

\* Deleting a subject changes nothing its pages show of it.
LEMMA DeletionShownElsewhere ==
  ASSUME NEW q \in Subjects
  PROVE  ~Affects(deleteSchema, q)
<1>1. deleteSchema \in SchemaRequests BY SchemaHooksAre DEF SchemaHooks
<1>2. q \in SchemaReads BY DEF Subjects, SchemaReads
<1>. QED BY <1>1, <1>2, SchemaFacts DEF Affects

\* What a step of a control does beside its own progress.
LEMMA StepsBeside ==
  ASSUME NEW i \in DOMAIN runs, Step(i)
  PROVE  /\ ~Ended(i) /\ (dialog' = {} \/ dialog' = dialog)
         /\ ~Settle(i) => page' = page
<1>1. Apply(i) => runs[i].pc = "sent" /\ UNCHANGED <<dialog, page>> BY DEF Apply
<1>2. Reject(i) => runs[i].pc = "sent" /\ Finally(i) /\ UNCHANGED page BY DEF Reject
<1>3. Acknowledge(i) => runs[i].pc = "applied" /\ UNCHANGED <<dialog, page>>
  BY DEF Acknowledge
<1>4. Continue(i) => runs[i].pc = "waiting" /\ UNCHANGED <<dialog, page>>
  BY DEF Continue
<1>5. Settle(i) => runs[i].pc = "waiting" /\ Finally(i) BY DEF Settle
<1>. QED BY <1>1, <1>2, <1>3, <1>4, <1>5 DEF Step, Ended, Finally

\* The difference of two versions offers nothing to do.
LEMMA DiffFlows ==
  ASSUME Sound(SchemaPages), page = "SchemaDiff", SchemaFlow, [Next]_vars, Undisturbed'
  PROVE  SchemaFlow'
<1>1. DOMAIN runs = {} /\ acked = {} /\ dialog = {} BY DEF SchemaFlow
<1>2. Offered = {}
  <2>1. SchemaPages \in Sites /\ page \in DOMAIN SchemaPages BY DEF Sound, Typed
  <2>. QED BY <2>1, Here, SchemaPagesAre
<1>3. Rest BY <1>1, <1>2, FlowSteps DEF Confirm, CancelDialog
<1>4. UNCHANGED <<page, log, acked, dialog>> /\ RunsGo BY <1>3, RestIs
<1>. QED BY <1>1, <1>4 DEF RunsGo, SameOffers, SchemaFlow, SchemaForms

\* The page of a subject deletes it, and what was changed before it was opened is on its way.
LEMMA SubjectFlows ==
  ASSUME Sound(SchemaPages), page = "Schema", SchemaFlow, [Next]_vars, Undisturbed'
  PROVE  SchemaFlow'
<1>. /\ SchemaPages \in Sites /\ page \in DOMAIN SchemaPages /\ Typed(SchemaPages)
     /\ UpToDate
     /\ RunsOK(SchemaPages, runs, log) /\ log \in Seq(RequestsOf(SchemaPages))
     /\ acked \in SUBSET (1..Len(log)) /\ cache \in Caches(SchemaPages, Len(log))
  BY DEF Sound, Typed
<1>1. /\ dialog \subseteq {DeleteSubject}
      /\ \A i \in DOMAIN runs : runs[i].offer = DeleteSubject \/ runs[i].pc = "done"
      /\ \A q \in Subjects : \A i \in acked : log[i] = deleteSchema \/ Kept(cache[q], i)
  BY DEF SchemaFlow, SubjectFlow
<1>2. Offered \subseteq {DeleteSubject} /\ DeleteSubject.confirm /\ DeleteSubject.then = "Schemas"
      /\ DeleteSubject.steps = <<useDeleteSchema>>
  BY Here, SchemaPagesAre, DeletesSubject
<1>3. SUFFICES \/ page' = page /\ SubjectFlow'
               \/ page' = "Schemas" /\ ListFlow'
  BY DEF SchemaFlow, SchemaForms
<1>4. ASSUME NEW o \in Offered, Use(o) \/ AskConfirm(o)
      PROVE page' = page /\ SubjectFlow'
  <2>1. o = DeleteSubject /\ AskConfirm(o) BY <1>2, <1>4 DEF Use
  <2>2. dialog' = {o} /\ UNCHANGED <<page, cache, runs, log, acked>>
    BY <2>1 DEF AskConfirm
  <2>. QED BY <1>1, <2>1, <2>2 DEF SubjectFlow
<1>5. CASE Confirm
  <2>1. PICK o \in dialog : Start(o) BY <1>5 DEF Confirm
  <2>2. o = DeleteSubject /\ o \in OffersOf(SchemaPages) BY <1>1, <2>1 DEF Typed, Dialog
  <2>3. UNCHANGED <<page, cache, log, acked, dialog>> BY <1>5 DEF Confirm
  <2>4. \A j \in DOMAIN runs' : (j \in DOMAIN runs /\ runs'[j] = runs[j]) \/ runs'[j].offer = o
    <3>1. /\ RunsOK(SchemaPages, runs', log) /\ Len(runs') = Len(runs) + 1
          /\ \A j \in DOMAIN runs : runs'[j] = runs[j]
          /\ runs'[Len(runs) + 1].offer = o
      <4>1. /\ RunsOK(SchemaPages, runs', log) /\ Len(runs') = Len(runs) + 1
            /\ \A j \in DOMAIN runs : runs'[j] = runs[j]
            /\ runs'[Len(runs) + 1] = [offer |-> o, step |-> 1, pc |-> "sent", at |-> 0,
                                      waits |-> {}, here |-> TRUE]
        BY <2>1, <2>2, StartRuns
      <4>. QED BY <4>1
    <3>2. DOMAIN runs' = 1..(Len(runs) + 1) /\ DOMAIN runs = 1..Len(runs) /\ Len(runs) \in Nat
      BY <3>1 DEF RunsOK
    <3>. QED BY <3>1, <3>2
  <2>. QED BY <1>1, <2>2, <2>3, <2>4 DEF SubjectFlow
<1>6. CASE CancelDialog
  <2>1. dialog' = {} /\ UNCHANGED <<page, cache, runs, log, acked>>
    BY <1>6 DEF CancelDialog
  <2>. QED BY <1>1, <2>1 DEF SubjectFlow
<1>7. ASSUME NEW i \in DOMAIN runs, Step(i)
      PROVE  \/ page' = page /\ SubjectFlow'
             \/ page' = "Schemas" /\ ListFlow'
  <2>1. RunsGo BY <1>7, StepsGo
  <2>2. runs[i].offer = DeleteSubject BY <1>1, <1>7, StepsBeside DEF Ended
  <2>3. HookOf(i).request = deleteSchema
    <3>1. HookOf(i) = useDeleteSchema
      <4>1. HookOf(i) = DeleteSubject.steps[runs[i].step] /\ runs[i].step \in DOMAIN DeleteSubject.steps
        BY <2>2, HookIs
      <4>2. DOMAIN DeleteSubject.steps = {1} /\ DeleteSubject.steps[1] = useDeleteSchema
        BY <1>2
      <4>. QED BY <4>1, <4>2
    <3>. QED BY <3>1, SchemaHooksAre
  <2>4. dialog' \subseteq {DeleteSubject} BY <1>1, <1>7, StepsBeside
  <2>5. DOMAIN runs' = DOMAIN runs
        /\ \A j \in DOMAIN runs : runs'[j].offer = DeleteSubject \/ runs'[j].pc = "done"
    BY <1>1, <2>1 DEF RunsGo, SameOffers
  <2>6. CASE Apply(i)
    <3>1. UNCHANGED <<page, cache, acked>> /\ log' = Append(log, HookOf(i).request)
      BY <2>6 DEF Apply
    <3>2. \A j \in acked : log'[j] = log[j] BY <3>1
    <3>. QED BY <1>1, <2>4, <2>5, <3>1, <3>2 DEF SubjectFlow
  <2>7. CASE Reject(i) \/ Continue(i)
    <3>1. UNCHANGED <<page, cache, log, acked>> BY <2>7 DEF Reject, Continue
    <3>. QED BY <1>1, <2>4, <2>5, <3>1 DEF SubjectFlow
  <2>8. CASE Acknowledge(i)
    <3>1. /\ runs[i].pc = "applied" /\ UNCHANGED <<page, log>>
          /\ acked' = acked \cup {runs[i].at}
          /\ cache' = Invalidate(HookOf(i), cache, Active(page, cache))
      BY <2>8 DEF Acknowledge
    <3>2. /\ runs[i].at \in 1..Len(log) /\ log[runs[i].at] = deleteSchema
          /\ \A q \in QueriesOf(SchemaPages) :
                Refreshed(log[runs[i].at], q) => Covered(HookOf(i), q)
      BY <2>3, <3>1, HookIs
    <3>. DEFINE a == runs[i].at
                h == HookOf(i)
    <3>3. a \in 1..Len(log) /\ \A q \in QueriesOf(SchemaPages) : Refreshed(log[a], q) => Covered(h, q)
      BY <3>2
    <3>. HIDE DEF a, h
    <3>4. \A q \in QueriesOf(SchemaPages) : \A j \in acked :
            Kept(cache[q], j) => Kept(Invalidate(h, cache, Active(page, cache))[q], j)
      BY <3>3, AckFresh DEF UpToDate
    <3>5. \A q \in Subjects : \A j \in acked' : log'[j] = deleteSchema \/ Kept(cache'[q], j)
      BY <1>1, <3>1, <3>2, <3>4, SubjectsCached DEF h
    <3>. QED BY <2>4, <2>5, <3>1, <3>5 DEF SubjectFlow
  <2>9. CASE Settle(i)
    <3>1. Show("Schemas") /\ Finally(i) BY <1>2, <2>2, <2>9 DEF Settle
    <3>2. page' = "Schemas" /\ dialog' = {} BY <1>2, <2>2, <3>1 DEF Show, Finally
    <3>3. \A j \in DOMAIN runs' : runs'[j].pc = "done" \/ runs'[j].offer.then = "Schemas"
      BY <1>2, <2>5
    <3>. QED BY <3>2, <3>3 DEF ListFlow, Ended
  <2>. QED BY <1>7, <2>6, <2>7, <2>8, <2>9 DEF Step
<1>8. CASE Rest
  <2>1. /\ UNCHANGED <<page, log, acked, dialog>> /\ RunsGo
        /\ \A q \in QueriesOf(SchemaPages) : \A j \in acked : Kept(cache[q], j) => Kept(cache'[q], j)
    BY <1>8, RestIs
  <2>. QED BY <1>1, <2>1, SubjectsCached DEF RunsGo, SameOffers, SubjectFlow
<1>. QED BY <1>4, <1>5, <1>6, <1>7, <1>8, FlowSteps

\* The list of the subjects stays when its controls end.
LEMMA ListFlows ==
  ASSUME Sound(SchemaPages), page = "Schemas", SchemaFlow, [Next]_vars, Undisturbed'
  PROVE  SchemaFlow'
<1>. /\ SchemaPages \in Sites /\ page \in DOMAIN SchemaPages /\ Typed(SchemaPages)
     /\ RunsOK(SchemaPages, runs, log)
  BY DEF Sound, Typed
<1>1. /\ \A o \in dialog : o.then \in {"", "Schemas"}
      /\ \A i \in DOMAIN runs : Ended(i) \/ runs[i].offer.then \in {"", "Schemas"}
  BY DEF SchemaFlow, ListFlow
<1>2. \A o \in Offered : o.then = "" /\ o \in OffersOf(SchemaPages)
  BY Here, SchemaPagesAre
<1>3. SUFFICES page' = page /\ ListFlow' BY DEF SchemaFlow, SchemaForms
<1>4. ASSUME NEW o \in OffersOf(SchemaPages), o.then \in {"", "Schemas"}, Start(o),
             UNCHANGED <<page, dialog>>
      PROVE  page' = page /\ ListFlow'
  <2>1. /\ RunsOK(SchemaPages, runs', log) /\ Len(runs') = Len(runs) + 1
        /\ \A j \in DOMAIN runs : runs'[j] = runs[j]
        /\ runs'[Len(runs) + 1] = [offer |-> o, step |-> 1, pc |-> "sent", at |-> 0,
                                  waits |-> {}, here |-> TRUE]
    BY <1>4, StartRuns
  <2>2. runs'[Len(runs) + 1].offer = o BY <2>1
  <2>3. DOMAIN runs' = 1..(Len(runs) + 1) /\ DOMAIN runs = 1..Len(runs) /\ Len(runs) \in Nat
    BY <2>1 DEF RunsOK
  <2>4. ASSUME NEW j \in DOMAIN runs'
        PROVE  (j \in DOMAIN runs /\ runs'[j] = runs[j]) \/ runs'[j].offer = o
    <3>1. j \in 1..Len(runs) \/ j = Len(runs) + 1 BY <2>3
    <3>2. CASE j \in 1..Len(runs) BY <3>2, <2>1, <2>3
    <3>3. CASE j = Len(runs) + 1 BY <3>3, <2>2
    <3>. QED BY <3>1, <3>2, <3>3
  <2>. QED BY <1>1, <1>4, <2>4 DEF ListFlow, Ended
<1>5. ASSUME NEW o \in Offered, Use(o) PROVE page' = page /\ ListFlow'
  <2>1. Start(o) /\ UNCHANGED <<page, dialog>> BY <1>5 DEF Use
  <2>. QED BY <1>2, <1>4, <2>1
<1>6. ASSUME NEW o \in Offered, AskConfirm(o) PROVE page' = page /\ ListFlow'
  <2>1. dialog' = {o} /\ UNCHANGED <<page, runs>> BY <1>6 DEF AskConfirm
  <2>. QED BY <1>1, <1>2, <2>1 DEF ListFlow, Ended
<1>7. CASE Confirm
  <2>1. PICK o \in dialog : Start(o) BY <1>7 DEF Confirm
  <2>2. o \in OffersOf(SchemaPages) BY <2>1 DEF Typed, Dialog
  <2>3. UNCHANGED <<page, dialog>> BY <1>7 DEF Confirm
  <2>. QED BY <1>1, <1>4, <2>1, <2>2, <2>3
<1>8. CASE CancelDialog
  <2>1. dialog' = {} /\ UNCHANGED <<page, runs>> BY <1>8 DEF CancelDialog
  <2>. QED BY <1>1, <2>1 DEF ListFlow, Ended
<1>9. ASSUME RunsGo, \A o \in dialog' : o \in dialog PROVE ListFlow'
  BY <1>1, <1>9 DEF RunsGo, SameOffers, ListFlow, Ended
<1>10. ASSUME NEW i \in DOMAIN runs, Step(i) PROVE page' = page /\ ListFlow'
  <2>1. RunsGo BY <1>10, StepsGo
  <2>2. \A o \in dialog' : o \in dialog BY <1>10, StepsBeside
  <2>3. page' = page
    <3>1. CASE Settle(i)
      <4>1. runs[i].offer.then \in {"", "Schemas"} BY <1>1, <1>10, StepsBeside
      <4>. QED BY <3>1, <4>1 DEF Settle
    <3>. QED BY <1>10, <3>1, StepsBeside
  <2>. QED BY <1>9, <2>1, <2>2, <2>3
<1>11. CASE Rest
  <2>1. UNCHANGED <<page, dialog>> /\ RunsGo BY <1>11, RestIs
  <2>. QED BY <1>9, <2>1
<1>. QED BY <1>5, <1>6, <1>7, <1>8, <1>10, <1>11, FlowSteps

\* A form runs one control, which ends on the page of the subject before the form shows
\* what it did not read.
LEMMA FormFlows ==
  ASSUME Sound(SchemaPages), page \in SchemaForms, SchemaFlow, [Next]_vars, Undisturbed'
  PROVE  SchemaFlow'
<1>. /\ SchemaPages \in Sites /\ page \in DOMAIN SchemaPages /\ Typed(SchemaPages)
     /\ UpToDate
     /\ RunsOK(SchemaPages, runs, log) /\ log \in Seq(RequestsOf(SchemaPages))
     /\ acked \in SUBSET (1..Len(log)) /\ cache \in Caches(SchemaPages, Len(log))
     /\ DOMAIN cache = QueriesOf(SchemaPages) /\ events \in Seq(Kinds)
  BY DEF Sound, Typed, Caches
<1>1. FormFlow BY DEF SchemaFlow
<1>2. Offered \subseteq OfPage(page) /\ OfPage(page) \subseteq OffersOf(SchemaPages)
  BY Here, PageViews DEF OfPage
<1>3. /\ SchemaPages[page].outer # SchemaPages["Schema"].outer
      /\ \A o \in OfPage(page) :
            /\ o.form # "" /\ o.form = IF page = "SchemaNew" THEN "New" ELSE "Edit"
            /\ o.then = "Schema" /\ ~o.confirm
            /\ \A k \in DOMAIN o.steps :
                  o.steps[k] \in {useCreateSchema, useUpdateSchemaCompatibilityLayer}
  BY SchemaPagesAre DEF OfPage
<1>4. SUFFICES \/ page' = page /\ FormFlow'
               \/ page' = "Schema" /\ SubjectFlow'
  BY DEF SchemaFlow, SchemaForms
<1>5. ASSUME NEW o \in Offered, Use(o) \/ AskConfirm(o) PROVE page' = page /\ FormFlow'
  <2>1. o \in OfPage(page) /\ Use(o) BY <1>2, <1>3, <1>5 DEF AskConfirm
  <2>2. Start(o) /\ Enabled(o) /\ UNCHANGED <<page, log, acked, dialog>> BY <2>1 DEF Use
  <2>3. DOMAIN runs = {}
    <3>1. SUFFICES ASSUME NEW i \in DOMAIN runs PROVE FALSE OBVIOUS
    <3>2. runs[i].offer \in OfPage(page) /\ runs[i].here /\ Running(i)
      BY <1>1 DEF FormFlow
    <3>3. runs[i].offer.form = o.form /\ o.form # "" BY <1>3, <2>1, <3>2
    <3>. QED BY <2>2, <3>2, <3>3 DEF Enabled
  <2>4. Len(runs) = 0 /\ acked = {} BY <1>1, <2>3 DEF FormFlow, RunsOK
  <2>5. /\ RunsOK(SchemaPages, runs', log) /\ Len(runs') = 1
        /\ runs'[1] = [offer |-> o, step |-> 1, pc |-> "sent", at |-> 0, waits |-> {},
                      here |-> TRUE]
    BY <1>2, <2>1, <2>2, <2>4, StartRuns
  <2>6. DOMAIN runs' = {1} BY <2>5 DEF RunsOK
  <2>7. runs'[1].offer = o /\ runs'[1].here /\ runs'[1].pc = "sent" BY <2>5
  <2>. QED BY <1>1, <2>1, <2>2, <2>4, <2>6, <2>7 DEF FormFlow, Running
<1>6. CASE Confirm \/ CancelDialog
  BY <1>1, <1>6 DEF FormFlow, Confirm, CancelDialog
<1>7. CASE Rest
  <2>1. /\ UNCHANGED <<page, log, acked, dialog>> /\ RunsGo
        /\ \A j \in DOMAIN runs : /\ runs'[j].step = runs[j].step /\ runs'[j].here = runs[j].here
                                  /\ runs'[j].pc = runs[j].pc
    BY <1>7, RestIs
  <2>. QED BY <1>1, <2>1 DEF FormFlow, RunsGo, SameOffers, Running
<1>8. ASSUME NEW i \in DOMAIN runs, Step(i)
      PROVE  \/ page' = page /\ FormFlow'
             \/ page' = "Schema" /\ SubjectFlow'
  <2>1. /\ i = 1 /\ DOMAIN runs = {1} /\ runs[1].offer \in OfPage(page) /\ runs[1].here
        /\ (acked = {} \/ runs[1].pc = "waiting" \/ runs[1].step > 1)
        /\ dialog = {} /\ \A j \in DOMAIN log : log[j] \notin Removals
    BY <1>1, <1>8 DEF FormFlow
  <2>2. HookOf(1).request \notin Removals
    <3>1. HookOf(1) \in {useCreateSchema, useUpdateSchemaCompatibilityLayer}
      <4>1. HookOf(1) = runs[1].offer.steps[runs[1].step] /\ runs[1].step \in DOMAIN runs[1].offer.steps
        BY <2>1, HookIs
      <4>. QED BY <1>3, <2>1, <4>1
    <3>. QED BY <3>1, SchemaHooksAre, FormsRemoveNothing
  <2>3. dialog' = {} BY <1>8, <2>1, StepsBeside
  <2>4. CASE Apply(1)
    <3>1. /\ RunsOK(SchemaPages, runs', log') /\ SameOffers(runs')
          /\ runs'[1].here = runs[1].here
          /\ runs'[1].step = runs[1].step /\ runs'[1].pc = "applied"
      BY <2>1, <2>4, ApplyRuns
    <3>2. log' = Append(log, HookOf(1).request) /\ UNCHANGED <<page,
                                                   acked>> /\ runs[1].pc = "sent"
      BY <2>4 DEF Apply
    <3>3. \A j \in DOMAIN log' : log'[j] \notin Removals
      <4>1. /\ Len(log') = Len(log) + 1 /\ Len(log) \in Nat
            /\ log'[Len(log')] = HookOf(1).request
            /\ \A j \in 1..Len(log) : log'[j] = log[j] /\ j \in DOMAIN log
            /\ DOMAIN log' = 1..Len(log')
        BY <3>2
      <4>2. \A j \in DOMAIN log' : j \in 1..Len(log) \/ j = Len(log') BY <4>1
      <4>. QED BY <2>1, <2>2, <4>1, <4>2
    <3>. QED BY <2>1, <2>3, <3>1, <3>2, <3>3 DEF FormFlow, SameOffers, Running
  <2>5. CASE Reject(1)
    <3>1. ~Gone(HookOf(1).request, Len(log)) BY <2>1 DEF Gone
    <3>2. Event("fail") BY <2>5, <3>1 DEF Reject
    <3>. QED BY <3>2, Undisturbs
  <2>6. CASE Acknowledge(1)
    <3>1. /\ SameOffers(runs') /\ runs'[1].here = runs[1].here
          /\ runs'[1].pc = "waiting"
      BY <2>1, <2>6, AckRuns
    <3>2. UNCHANGED <<page, log>> BY <2>6 DEF Acknowledge
    <3>. QED BY <2>1, <2>3, <3>1, <3>2 DEF FormFlow, SameOffers, Running
  <2>7. CASE Continue(1)
    <3>1. /\ SameOffers(runs') /\ runs'[1].here = runs[1].here /\ runs'[1].pc = "sent"
          /\ runs'[1].step = runs[1].step + 1
      BY <2>1, <2>7, ContinueRuns
    <3>2. UNCHANGED <<page, log, acked>> BY <2>7 DEF Continue
    <3>3. runs'[1].step > 1
      <4>1. runs[1].step \in 1..Len(runs[1].offer.steps) /\ Len(runs[1].offer.steps) \in {1, 2}
        <5>1. runs[1].offer \in OffersOf(SchemaPages) /\ runs[1].step \in DOMAIN runs[1].offer.steps
          BY <2>1, HookIs
        <5>2. \A o \in OffersOf(SchemaPages) :
                Len(o.steps) \in {1, 2} /\ DOMAIN o.steps = 1..Len(o.steps)
          BY EverySite DEF SiteOK
        <5>. QED BY <5>1, <5>2
      <4>. QED BY <3>1, <4>1
    <3>. QED BY <2>1, <2>3, <3>1, <3>2, <3>3 DEF FormFlow, SameOffers, Running
  <2>8. CASE Settle(1)
    <3>1. runs[1].offer.then = "Schema" /\ page # "Schema" BY <1>3, <2>1 DEF SchemaForms
    <3>2. Show("Schema") /\ UNCHANGED <<log, acked>> BY <2>8, <3>1 DEF Settle
    <3>3. SameOffers(runs') /\ runs'[1].pc = "done" BY <2>1, <2>8, SettleRuns
    <3>4. "Schema" \in DOMAIN SchemaPages BY SchemaPagesAre
    <3>5. /\ page' = "Schema"
          /\ \A q \in QueriesOf(SchemaPages) :
                q \in Mounted("Schema", cache) /\ ~q.suspense => cache'[q].fetch # Idle
          /\ \A q \in QueriesOf(SchemaPages) : \A j \in acked :
                NotBehind(cache[q], j) => NotBehind(cache'[q], j)
      BY <3>1, <3>2, <3>4, ShowFresh DEF UpToDate
    <3>6. Subjects \subseteq Mounted("Schema", cache)
      <4>1. SiteOf("Schema") = SchemaPages BY <3>4, SiteIs
      <4>2. Current = SchemaPages[page] BY Here
      <4>. QED BY <1>3, <4>1, <4>2, SchemaPagesAre DEF Mounted
    <3>7. ASSUME NEW q \in Subjects, NEW j \in acked PROVE Kept(cache'[q], j)
      <4>1. q \in QueriesOf(SchemaPages) BY SubjectsCached
      <4>2. ~q.suspense BY SubjectsKept DEF SchemaHooks
      <4>3. NotBehind(cache[q], j) BY <4>1 DEF UpToDate, Fresh
      <4>4. cache'[q].fetch # Idle /\ NotBehind(cache'[q], j)
        BY <3>5, <3>6, <4>1, <4>2, <4>3
      <4>. QED BY <4>4 DEF NotBehind, Kept
    <3>. QED BY <2>1, <2>3, <3>2, <3>3, <3>5, <3>7 DEF SubjectFlow, SameOffers
  <2>. QED BY <1>8, <2>1, <2>4, <2>5, <2>6, <2>7, <2>8 DEF Step
<1>. QED BY <1>5, <1>6, <1>7, <1>8, FlowSteps

\* What the pages of a site show is sound, on the schema pages also by the way they follow
\* each other.
CacheInv == (\E S \in Sites : Sound(S)) /\ Flow

\* The invariant holds when a page is opened.
LEMMA CacheInit ==
  ASSUME Init
  PROVE  CacheInv
<1>1. \E S \in Sites : Sound(S) BY SoundInit
<1>2. /\ log = <<>> /\ runs = <<>> /\ acked = {} /\ dialog = {} BY DEF Init
<1>3. DOMAIN runs = {} /\ DOMAIN log = {} BY <1>2
<1>4. SchemaFlow BY <1>2, <1>3 DEF SchemaFlow, FormFlow, SubjectFlow, ListFlow
<1>. QED BY <1>1, <1>4 DEF CacheInv, Flow

\* And every step keeps it.
LEMMA CacheStep ==
  ASSUME CacheInv, [Next]_vars
  PROVE  CacheInv'
<1>1. PICK S \in Sites : Sound(S) BY DEF CacheInv
<1>2. Sound(S)' BY <1>1, SoundStep
<1>3. ASSUME page' \in DOMAIN SchemaPages, Undisturbed' PROVE SchemaFlow'
  <2>1. SchemaPages \in Sites BY DEF Sites
  <2>2. page \in DOMAIN S /\ page' \in DOMAIN S /\ events \in Seq(Kinds)
    BY <1>1, <1>2 DEF Sound, Typed
  <2>3. S = SchemaPages BY <1>3, <2>1, <2>2, OneSite
  <2>4. Undisturbed
    <3>1. events' = events \/ \E k : Event(k)
      BY DEF Next, vars, User, Navigate, Type, Use, AskConfirm, Confirm, CancelDialog,
         Focus,
             Reconnect, Interval, Retry, Wake, Step, Apply, Reject, Acknowledge,
               Continue, Settle,
             Answer, Fail, Deliver, Foreign
    <3>. QED BY <1>3, <2>2, <3>1, Undisturbs
  <2>5. SchemaFlow BY <2>2, <2>3, <2>4 DEF CacheInv, Flow
  <2>6. page \in SchemaForms \cup {"Schemas", "Schema", "SchemaDiff"}
    BY <2>2, <2>3, SchemaPagesAre DEF SchemaForms
  <2>. QED BY <1>1, <1>3, <2>3, <2>5, <2>6, DiffFlows, FormFlows, SubjectFlows,
    ListFlows
<1>. QED BY <1>2, <1>3 DEF CacheInv, Flow

\* What the page shows is as fresh as the mutations that were answered promise.
LEMMA ShowsFresh ==
  ASSUME CacheInv
  PROVE  FreshAfterMutation
<1>1. PICK S \in Sites : Sound(S) BY DEF CacheInv
<1>. /\ page \in DOMAIN S /\ Typed(S) /\ log \in Seq(RequestsOf(S))
     /\ acked \subseteq 1..Len(log)
     /\ cache \in Caches(S, Len(log)) /\ Fresh(Active(page, cache), cache, log, acked)
  BY <1>1 DEF Sound, Typed, UpToDate
<1>2. SUFFICES ASSUME \A i \in DOMAIN runs : runs[i].pc # "waiting" /\ ~Halfway(i),
                      NEW q \in Active(page, cache), NEW i \in acked,
                      cache[q].fetch = Idle, ~cache[q].err, ~cache[q].joined,
                      Affects(log[i], q), <<log[i], q>> \notin Unrefreshed
               PROVE  cache[q].data >= i
  BY DEF FreshAfterMutation
<1>3. q \in QueriesOf(S) /\ i \in Nat /\ i > 0 BY DEF Active, Caches
<1>4. /\ Refreshed(log[i], q) => Marked(cache[q], i)
      /\ Asleep(cache[q])
  BY <1>3 DEF Fresh, Caches
<1>5. SUFFICES ASSUME ~Kept(cache[q], i) PROVE FALSE BY <1>2, <1>3 DEF Kept, Idle
<1>6. ~Lagging(log[i], q) BY <1>2 DEF Unrefreshed, Lagging
<1>7. log[i] \in SchemaRequests /\ q \in Subjects
  BY <1>2, <1>4, <1>5, <1>6 DEF Refreshed, Marked, Asleep
<1>8. Undisturbed BY <1>2, <1>7 DEF Unrefreshed, Undisturbed, SchemaRequests, Subjects
<1>9. S = SchemaPages BY <1>3, <1>7, OnlySchemas
<1>10. SchemaFlow BY <1>8, <1>9 DEF CacheInv, Flow
<1>11. page # "SchemaDiff" BY <1>10 DEF SchemaFlow
<1>12. page \notin SchemaForms
  <2>1. SUFFICES ASSUME FormFlow PROVE FALSE BY <1>10 DEF SchemaFlow
  <2>. QED BY <1>2, <2>1 DEF FormFlow, Halfway
<1>13. page # "Schema"
  BY <1>5, <1>7, <1>10, <1>2, DeletionShownElsewhere DEF SchemaFlow, SubjectFlow
<1>14. page # "Schemas"
  <2>1. SUFFICES ASSUME page = "Schemas" PROVE FALSE OBVIOUS
  <2>2. SiteOf(page) = SchemaPages BY <1>9, SiteIs
  <2>. QED BY <1>7, <2>1, <2>2, SchemaPagesAre DEF Active
<1>. QED BY <1>9, <1>11, <1>12, <1>13, <1>14, SchemaPagesAre DEF SchemaForms

\* The variables have their types.
LEMMA ShowsTyped ==
  ASSUME CacheInv
  PROVE  TypeOK
<1>1. PICK S \in Sites : Sound(S) BY DEF CacheInv
<1>. /\ page \in DOMAIN S /\ log \in Seq(RequestsOf(S)) /\ acked \subseteq 1..Len(log)
     /\ cache \in Caches(S, Len(log)) /\ RunsOK(S, runs, log) /\ Dialog(S, dialog)
     /\ confirming \in BOOLEAN /\ draft \in BOOLEAN
  BY <1>1 DEF Sound, Typed
<1>2. page \in DOMAIN SiteOf(page) BY SiteIs
<1>3. \A q \in DOMAIN cache :
         /\ cache[q].data \in None..Len(log)
         /\ cache[q].fetch \in Idle..Len(log)
         /\ {cache[q].stale, cache[q].err, cache[q].joined} \subseteq BOOLEAN
  BY DEF Caches, Entries
<1>4. ASSUME NEW i \in DOMAIN runs
      PROVE  /\ runs[i].pc \in {"sent", "applied", "waiting", "done", "failed"}
             /\ runs[i].step \in DOMAIN runs[i].offer.steps
             /\ runs[i].waits \subseteq DOMAIN cache
  <2>1. runs[i] \in Run(S) /\ GoodRun(runs[i], log) BY DEF RunsOK
  <2>2. DOMAIN cache = QueriesOf(S) BY DEF Caches
  <2>. QED BY <2>1, <2>2 DEF Run, GoodRun, Progresses
<1>5. acked \subseteq DOMAIN log OBVIOUS
<1>6. Cardinality(dialog) <= 1
  <2>1. CASE dialog = {} BY <2>1, FS_EmptySet
  <2>2. CASE dialog # {}
    <3>1. PICK o \in dialog : dialog = {o} BY <2>2 DEF Dialog
    <3>2. Cardinality({o}) = 1 BY FS_Singleton
    <3>. QED BY <3>1, <3>2
  <2>. QED BY <2>1, <2>2
<1>. QED BY <1>2, <1>3, <1>4, <1>5, <1>6 DEF TypeOK

\* No mutation that asks for confirmation runs more often than it was confirmed.
LEMMA ShowsConfirmed ==
  ASSUME CacheInv
  PROVE  ConfirmedOnce
<1>1. PICK S \in Sites : Sound(S) BY DEF CacheInv
<1>2. Cardinality(Asked(runs)) \in Nat /\ opened \in Nat
  BY <1>1, AskedFinite DEF Sound, Typed, RunsOK
<1>3. Cardinality(Asked(runs)) + Owed <= opened /\ Owed \in {0, 1}
  BY <1>1 DEF Sound, Counted, Owed
<1>4. Cardinality(Asked(runs)) <= opened BY <1>2, <1>3
<1>. QED BY <1>4 DEF ConfirmedOnce, Asked

\* After a mutation has been answered, no page shows data from before it: its query was read
\* after it, is being read, or has failed (the lag of a group and the subjects the mutations
\* of the schemas do not invalidate excepted, as ShowsChanges says).
THEOREM ShowsWhatWasChanged == Spec => []ShowsChanges
<1>1. Init => CacheInv BY CacheInit
<1>2. CacheInv /\ [Next]_vars => CacheInv' BY CacheStep
<1>3. CacheInv => ShowsChanges BY ShowsTyped, ShowsFresh, ShowsConfirmed
   DEF ShowsChanges
<1>. QED BY <1>1, <1>2, <1>3, PTL DEF Spec

\* Every change in the log is somebody else's or was applied for a step of a control.
Foreigners == "foreign" \in Range(events)
AppliedFor(j, i) ==
    \E k \in 1..runs[i].step :
        /\ log[j] = runs[i].offer.steps[k].request
        /\ runs[i].pc \in {"sent", "failed"} => k < runs[i].step
Signed == \A j \in DOMAIN log : Foreigners \/ \E i \in DOMAIN runs : AppliedFor(j, i)

\* No step of a control undoes what was applied for it.
RunsKept ==
    \A j \in DOMAIN runs :
        /\ j \in DOMAIN runs' /\ runs'[j].offer = runs[j].offer
        /\ runs'[j].step \in Nat /\ runs[j].step <= runs'[j].step
        /\ runs'[j].pc \in {"sent", "failed"} =>
              runs[j].pc \in {"sent", "failed"} \/ runs[j].step < runs'[j].step

\* An event that is recorded.
LEMMA EventIs ==
  ASSUME events \in Seq(Kinds), NEW k, Event(k)
  PROVE  events' # <<>> /\ k \in Range(events') /\ Range(events) \subseteq Range(events')
<1>1. events' = Append(events, k) BY DEF Event
<1>2. /\ DOMAIN events = 1..Len(events) /\ DOMAIN events' = 1..(Len(events) + 1)
      /\ Len(events) \in Nat
      /\ events'[Len(events) + 1] = k
      /\ \A j \in 1..Len(events) : events'[j] = events[j]
  BY <1>1
<1>3. \A j \in DOMAIN events : j \in DOMAIN events' /\ events'[j] = events[j]
  BY <1>2
<1>4. Len(events) + 1 \in DOMAIN events' BY <1>2
<1>5. events' # <<>> BY <1>4
<1>. QED BY <1>2, <1>3, <1>4, <1>5 DEF Range

\* A foreign change that was recorded stays recorded.
LEMMA EventsKept ==
  ASSUME events \in Seq(Kinds)
  PROVE  /\ events' = events => (Foreigners => Foreigners')
         /\ \A k : Event(k) => (Foreigners => Foreigners') /\ (k = "foreign" => Foreigners')
<1>1. events' = events => (Foreigners => Foreigners') BY DEF Foreigners
<1>2. \A k : Event(k) => k \in Range(events') /\ Range(events) \subseteq Range(events')
  BY EventIs
<1>. QED BY <1>1, <1>2 DEF Foreigners

\* A step records one event or none.
LEMMA NextEvents == [Next]_vars => events' = events \/ \E k : Event(k)
BY DEF Next, vars, User, Navigate, Type, Use, AskConfirm, Confirm, CancelDialog, Focus,
       Reconnect, Interval, Retry, Wake, Step, Apply, Reject, Acknowledge, Continue,
         Settle,
       Answer, Fail, Deliver, Foreign

\* The type of a mutation under way.
LEMMA RunsAre ==
  ASSUME NEW S, RunsOK(S, runs, log)
  PROVE  \A j \in DOMAIN runs : runs[j] \in Run(S) /\ runs[j].step \in Nat
<1>1. \A j \in DOMAIN runs : runs[j] \in Run(S) BY DEF RunsOK
<1>. QED BY <1>1 DEF Run

\* A step of a mutation never takes one back.
LEMMA StepsKeepRuns ==
  ASSUME NEW S, Sound(S), NEW i \in DOMAIN runs, Step(i)
  PROVE  RunsKept
<1>. S \in Sites /\ RunsOK(S, runs, log) /\ log \in Seq(RequestsOf(S)) /\ DOMAIN cache = QueriesOf(S)
  BY DEF Sound, Typed, Caches
<1>1. \A j \in DOMAIN runs : runs[j].step \in Nat BY RunsAre
<1>2. CASE Apply(i)
  <2>1. runs[i].pc = "sent" BY <1>2 DEF Apply
  <2>. QED BY <1>1, <1>2, <2>1, ApplyRuns DEF RunsKept, SameOffers
<1>3. CASE Reject(i)
  <2>1. runs[i].pc = "sent" BY <1>3 DEF Reject
  <2>. QED BY <1>1, <1>3, <2>1, RejectRuns DEF RunsKept, SameOffers
<1>4. CASE Acknowledge(i)
  <2>1. runs[i].pc = "applied" BY <1>4 DEF Acknowledge
  <2>. QED BY <1>1, <1>4, <2>1, AckRuns DEF RunsKept, SameOffers
<1>5. CASE Continue(i)
  <2>1. runs[i].pc = "waiting" BY <1>5 DEF Continue
  <2>2. /\ SameOffers(runs') /\ runs'[i].step = runs[i].step + 1
        /\ \A j \in DOMAIN runs : j # i => runs'[j] = runs[j]
    BY <1>5, ContinueRuns
  <2>3. \A j \in DOMAIN runs : runs'[j].step \in Nat
        /\ (j = i => runs[j].step < runs'[j].step) /\ (j # i => runs'[j] = runs[j])
    BY <1>1, <2>2
  <2>. QED BY <1>1, <2>1, <2>2, <2>3 DEF RunsKept, SameOffers
<1>6. CASE Settle(i)
  <2>1. runs[i].pc = "waiting" BY <1>6 DEF Settle
  <2>. QED BY <1>1, <1>6, <2>1, SettleRuns DEF RunsKept, SameOffers
<1>. QED BY <1>2, <1>3, <1>4, <1>5, <1>6 DEF Step

\* No step takes a mutation back.
LEMMA NextRuns ==
  ASSUME NEW S, Sound(S), [Next]_vars
  PROVE  RunsKept
<1>. S \in Sites /\ page \in DOMAIN S /\ Typed(S) /\ RunsOK(S, runs, log)
  BY DEF Sound, Typed
<1>1. \A j \in DOMAIN runs : runs[j] \in Run(S) /\ runs[j].step \in Nat BY RunsAre
<1>2. ASSUME UNCHANGED runs PROVE RunsKept BY <1>1, <1>2 DEF RunsKept
<1>3. ASSUME NEW o \in OffersOf(S), Start(o) PROVE RunsKept
  <2>1. /\ RunsOK(S, runs', log) /\ Len(runs') = Len(runs) + 1
        /\ \A j \in DOMAIN runs : runs'[j] = runs[j]
    BY <1>3, StartRuns
  <2>2. \A j \in DOMAIN runs : j \in DOMAIN runs' BY <2>1 DEF RunsOK
  <2>. QED BY <1>1, <2>1, <2>2 DEF RunsKept
<1>4. ASSUME NEW p, Navigate(p) PROVE RunsKept
  <2>1. runs' = [j \in DOMAIN runs |-> [runs[j] EXCEPT !.here = FALSE]]
    BY <1>4 DEF Navigate
  <2>2. ASSUME NEW j \in DOMAIN runs
        PROVE  /\ runs'[j].offer = runs[j].offer /\ runs'[j].step = runs[j].step
               /\ runs'[j].pc = runs[j].pc /\ j \in DOMAIN runs'
    BY <1>1, <2>1 DEF Run
  <2>. QED BY <1>1, <2>2 DEF RunsKept
<1>5. ASSUME NEW o \in Offered, Use(o) PROVE RunsKept
  <2>1. o \in OffersOf(S) BY Here
  <2>. QED BY <1>3, <1>5, <2>1 DEF Use
<1>6. CASE Confirm
  <2>1. PICK o \in dialog : Start(o) BY <1>6 DEF Confirm
  <2>2. o \in OffersOf(S) BY <2>1 DEF Typed, Dialog
  <2>. QED BY <1>3, <2>1, <2>2
<1>7. ASSUME NEW q, EndWait(q) PROVE RunsKept
  BY <1>1, <1>7, EndRuns DEF RunsKept, SameOffers
<1>8. CASE User
  BY <1>2, <1>4, <1>5, <1>6, <1>8
     DEF User, Type, AskConfirm, CancelDialog, Focus, Reconnect, Interval, Retry, Wake
<1>9. ASSUME NEW i \in DOMAIN runs, Step(i) PROVE RunsKept BY <1>9, StepsKeepRuns
<1>10. ASSUME NEW q \in DOMAIN cache, Answer(q) PROVE RunsKept
  BY <1>7, <1>10 DEF Answer, Fail, Deliver
<1>11. ASSUME NEW r, Foreign(r) PROVE RunsKept BY <1>2, <1>11 DEF Foreign
<1>12. CASE UNCHANGED vars BY <1>2, <1>12 DEF vars
<1>. QED BY <1>8, <1>9, <1>10, <1>11, <1>12 DEF Next

\* What the server applied was asked for here, or somebody else was there.
LEMMA SignedStep ==
  ASSUME NEW S, Sound(S), Signed, [Next]_vars
  PROVE  Signed'
<1>. /\ S \in Sites /\ RunsOK(S, runs, log) /\ log \in Seq(RequestsOf(S))
     /\ events \in Seq(Kinds)
  BY DEF Sound, Typed
<1>1. RunsKept BY NextRuns
<1>2. Foreigners => Foreigners' BY NextEvents, EventsKept
<1>3. ASSUME NEW j \in DOMAIN log, j \in DOMAIN log', log'[j] = log[j], ~Foreigners'
      PROVE  \E i \in DOMAIN runs' : AppliedFor(j, i)'
  <2>1. PICK i \in DOMAIN runs : AppliedFor(j, i) BY <1>2, <1>3 DEF Signed
  <2>2. PICK k \in 1..runs[i].step :
              /\ log[j] = runs[i].offer.steps[k].request
              /\ runs[i].pc \in {"sent", "failed"} => k < runs[i].step
    BY <2>1 DEF AppliedFor
  <2>3. runs[i].step \in Nat BY RunsAre
  <2>4. /\ i \in DOMAIN runs' /\ runs'[i].offer = runs[i].offer
        /\ runs'[i].step \in Nat /\ runs[i].step <= runs'[i].step
        /\ runs'[i].pc \in {"sent", "failed"} =>
              runs[i].pc \in {"sent", "failed"} \/ runs[i].step < runs'[i].step
    BY <1>1 DEF RunsKept
  <2>5. k \in 1..runs'[i].step /\ (runs'[i].pc \in {"sent",
                                                    "failed"} => k < runs'[i].step)
    BY <2>2, <2>3, <2>4
  <2>. QED BY <1>3, <2>2, <2>4, <2>5 DEF AppliedFor
<1>4. ASSUME log' = log PROVE Signed' BY <1>3, <1>4 DEF Signed
<1>5. ASSUME NEW i \in DOMAIN runs, Apply(i) PROVE Signed'
  <2>1. log' = Append(log, HookOf(i).request) BY <1>5 DEF Apply
  <2>2. /\ DOMAIN log = 1..Len(log) /\ DOMAIN log' = 1..(Len(log) + 1)
        /\ Len(log) \in Nat
        /\ log'[Len(log) + 1] = HookOf(i).request
        /\ \A j \in DOMAIN log : log'[j] = log[j] /\ j \in DOMAIN log'
    BY <2>1
  <2>. PICK m \in Nat : m = Len(log) + 1
    <3>1. Len(log) + 1 \in Nat BY <2>2
    <3>. QED BY <3>1
  <2>3. AppliedFor(m, i)'
    <3>1. /\ runs'[i].pc = "applied" /\ runs'[i].step = runs[i].step
          /\ runs'[i].offer = runs[i].offer
      BY <1>5, ApplyRuns DEF SameOffers
    <3>2. runs[i].step \in Nat /\ runs[i].step \in DOMAIN runs[i].offer.steps
          /\ HookOf(i) = runs[i].offer.steps[runs[i].step]
          /\ runs[i].offer \in OffersOf(S)
      BY HookIs DEF Run
    <3>3. runs[i].step \in 1..runs[i].step
      <4>1. DOMAIN runs[i].offer.steps = 1..Len(runs[i].offer.steps)
        BY <3>2, EverySite DEF SiteOK
      <4>. QED BY <3>2, <4>1
    <3>4. /\ log'[m] = runs'[i].offer.steps[runs[i].step].request
          /\ runs[i].step \in 1..runs'[i].step /\ runs'[i].pc \notin {"sent", "failed"}
      BY <2>2, <3>1, <3>2, <3>3
    <3>. QED BY <3>4 DEF AppliedFor
  <2>4. i \in DOMAIN runs' BY <1>1 DEF RunsKept
  <2>5. \A j \in DOMAIN log' : j \in DOMAIN log \/ j = m BY <2>2
  <2>. QED BY <1>3, <2>2, <2>3, <2>4, <2>5 DEF Signed
<1>6. ASSUME NEW r, Foreign(r) PROVE Signed'
  <2>1. Foreigners' BY <1>6, EventsKept DEF Foreign
  <2>. QED BY <2>1 DEF Signed
<1>7. log' = log \/ (\E i \in DOMAIN runs : Apply(i)) \/ \E r : Foreign(r)
  BY DEF Next, vars, User, Navigate, Type, Use, AskConfirm, Confirm, CancelDialog,
     Focus,
         Reconnect, Interval, Retry, Wake, Step, Reject, Acknowledge, Continue, Settle,
         Answer, Fail, Deliver
<1>. QED BY <1>4, <1>5, <1>6, <1>7

\* Text is typed into a form that is shown.
DraftShown == draft => Current.form.typed /\ Open(page, cache)
Drafting(S) == Sound(S) /\ Signed /\ DraftShown /\ draft

\* A page is open when what it waits for has arrived.
LEMMA OpenIs ==
  ASSUME NEW S \in Sites, page \in DOMAIN S
  PROVE  \A d : Open(page, d) <=> /\ \A q \in S[page].gate : d[q].data # None /\ ~d[q].err
                                  /\ \A q \in S[page].quiet : d[q].fetch = Idle
BY SiteIs DEF Open

\* Only the form of a schema hides while its subject is fetched, and no control or polling
\* fetches that.
LEMMA HiddenBy ==
  ASSUME NEW S, Drafting(S), NEW q \in S[page].quiet
  PROVE  /\ q \in Subjects /\ q \in Current.limited /\ ~q.polls
         /\ \A i \in DOMAIN runs : ~Covered(HookOf(i), q)
<1>. S \in Sites /\ page \in DOMAIN S /\ RunsOK(S, runs, log)
  BY DEF Drafting, Sound, Typed
<1>1. Current = S[page] /\ S[page].form.typed BY Here DEF Drafting, DraftShown
<1>2. S = SchemaPages /\ page = "SchemaEdit" BY <1>1, Forms
<1>3. q = useGetLatestSchema /\ q \in Current.limited BY <1>1, <1>2, EditsLatest
<1>4. \A o \in OffersOf(SchemaPages) : \A k \in DOMAIN o.steps : o.steps[k] \in SchemaHooks
  <2>1. ASSUME NEW o \in OffersOf(SchemaPages), NEW k \in DOMAIN o.steps
        PROVE  o.steps[k] \in SchemaHooks
    <3>1. ValidOffer(o, SchemaHooks, DOMAIN SchemaPages)
      BY <2>1, SchemaSite DEF OffersOf, Whole, ValidPage, ValidView
    <3>2. CASE \E h \in SchemaHooks : o.steps = <<h>> BY <3>2
    <3>3. CASE \E h, g \in SchemaHooks : o.steps = <<h, g>>
      <4>1. PICK h \in SchemaHooks, g \in SchemaHooks : o.steps = <<h, g>> BY <3>3
      <4>2. DOMAIN o.steps = {1, 2} /\ o.steps[1] = h /\ o.steps[2] = g BY <4>1
      <4>. QED BY <4>2
    <3>. QED BY <3>1, <3>2, <3>3 DEF ValidOffer
  <2>. QED BY <2>1
<1>5. \A i \in DOMAIN runs : HookOf(i) \in SchemaHooks BY <1>2, <1>4, HookIs
<1>6. q \in Subjects BY <1>3 DEF Subjects
<1>7. ~q.polls BY <1>6, SubjectsKept DEF SchemaHooks
<1>. QED BY <1>3, <1>5, <1>6, <1>7, SubjectsKept

\* An answer to a mutation leaves the form where it is.
LEMMA AckOpen ==
  ASSUME NEW S, Drafting(S), NEW i \in DOMAIN runs, Acknowledge(i)
  PROVE  Open(page, cache')
<1>. /\ S \in Sites /\ page \in DOMAIN S /\ log \in Seq(RequestsOf(S))
     /\ cache \in Caches(S, Len(log)) /\ Open(page, cache)
  BY DEF Drafting, DraftShown, Sound, Typed
<1>. DEFINE h == HookOf(i)
            d == Invalidate(h, cache, Active(page, cache))
<1>1. cache' = d BY DEF Acknowledge
<1>2. \A q \in QueriesOf(S) :
        Invalidated(cache[q], d[q], q \in Matching(h, cache),
                    q \in Restarts(h, cache, Active(page, cache)))
  BY InvalidateIs
<1>3. \A q \in S[page].gate : d[q].data # None /\ ~d[q].err
  BY <1>2, GatesCached, OpenIs DEF Invalidated
<1>4. ASSUME NEW q \in S[page].quiet PROVE d[q].fetch = Idle
  <2>1. ~Covered(h, q) BY HiddenBy
  <2>2. q \notin Restarts(h, cache, Active(page, cache))
    BY <2>1 DEF Restarts, Matching, Covered
  <2>3. q \in QueriesOf(S) BY GatesCached, EverySite DEF SiteOK
  <2>4. Invalidated(cache[q], d[q], q \in Matching(h, cache),
                    q \in Restarts(h, cache, Active(page, cache)))
    BY <1>2, <2>3
  <2>5. cache[q].fetch = Idle BY OpenIs
  <2>. HIDE DEF d, h
  <2>. QED BY <2>2, <2>4, <2>5 DEF Invalidated
<1>. QED BY <1>1, <1>3, <1>4, OpenIs

\* What refetches on its own leaves it too, except when the network comes back.
LEMMA WakeOpen ==
  ASSUME NEW S, Drafting(S), Focus \/ Interval \/ Retry
  PROVE  Open(page, cache')
<1>. /\ S \in Sites /\ page \in DOMAIN S /\ log \in Seq(RequestsOf(S))
     /\ cache \in Caches(S, Len(log)) /\ Open(page, cache)
  BY DEF Drafting, DraftShown, Sound, Typed
<1>. DEFINE Quiet(X) == \A q \in S[page].quiet : q \notin X
<1>1. PICK k, X : Wake(k, X) /\ Quiet(X)
  <2>1. CASE Focus
    <3>1. Quiet(Active(page, cache) \ Current.limited) BY HiddenBy
    <3>. QED BY <2>1, <3>1 DEF Focus
  <2>2. CASE Interval
    <3>1. Quiet({q \in Active(page, cache) : q.polls}) BY HiddenBy
    <3>. QED BY <2>2, <3>1 DEF Interval
  <2>3. CASE Retry
    <3>1. Quiet({q \in Active(page, cache) : cache[q].err})
      <4>1. S[page].quiet \subseteq S[page].gate BY EverySite DEF SiteOK
      <4>. QED BY <4>1, OpenIs
    <3>. QED BY <2>3, <3>1 DEF Retry
  <2>. QED BY <2>1, <2>2, <2>3
<1>2. cache' = Ensure(cache, X) BY <1>1 DEF Wake
<1>3. ASSUME NEW q \in S[page].gate PROVE cache'[q].data # None /\ ~cache'[q].err
  <2>1. q \in QueriesOf(S) /\ cache[q] \in Entries(Len(log)) BY GatesCached DEF Caches
  <2>2. Begun(cache[q], cache'[q]) BY <1>2, <2>1, EnsureIs
  <2>3. cache[q].data # None /\ ~cache[q].err BY OpenIs
  <2>. QED BY <2>1, <2>2, <2>3, BeginIs DEF Begun
<1>4. ASSUME NEW q \in S[page].quiet PROVE cache'[q].fetch = Idle
  <2>1. q \notin X BY <1>1
  <2>2. q \in QueriesOf(S) BY GatesCached, EverySite DEF SiteOK
  <2>3. cache'[q] = cache[q] BY <1>2, <2>1, <2>2 DEF Ensure, Caches
  <2>. QED BY <2>3, OpenIs
<1>. QED BY <1>3, <1>4, OpenIs

\* It goes when a query it needs fails.
LEMMA FailOpen ==
  ASSUME NEW S, Drafting(S), NEW q \in DOMAIN cache, Fail(q)
  PROVE  Open(page, cache') \/ (cache'[q].err /\ ~cache[q].err)
<1>. /\ S \in Sites /\ page \in DOMAIN S /\ log \in Seq(RequestsOf(S))
     /\ cache \in Caches(S, Len(log)) /\ Open(page, cache) /\ q \in QueriesOf(S)
  BY DEF Drafting, DraftShown, Sound, Typed, Caches
<1>1. cache' = [cache EXCEPT ![q].fetch = Idle, ![q].err = TRUE] BY DEF Fail
<1>2. /\ cache'[q].fetch = Idle /\ cache'[q].err
      /\ \A x \in QueriesOf(S) : x # q => cache'[x] = cache[x]
  <2>1. cache[q] \in Entries(Len(log)) BY DEF Caches
  <2>. QED BY <1>1, <2>1 DEF Caches, Entries
<1>3. CASE q \in S[page].gate BY <1>2, <1>3, OpenIs
<1>4. CASE q \notin S[page].gate
  <2>1. S[page].quiet \subseteq S[page].gate BY EverySite DEF SiteOK
  <2>2. \A x \in S[page].gate : cache'[x] = cache[x] BY <1>2, <1>4, GatesCached
  <2>. QED BY <2>1, <2>2, OpenIs
<1>. QED BY <1>3, <1>4

\* An answer keeps it, and replaces its text only by what somebody else or its own control
\* changed.
LEMMA DeliverOpen ==
  ASSUME NEW S, Drafting(S), NEW q \in DOMAIN cache, NEW n, Deliver(q, n)
  PROVE  /\ Open(page, cache')
         /\ Replaces(q, n) =>
              /\ q \in Current.form.source /\ cache'[q].data # cache[q].data
              /\ \/ cache[q].data = None \/ Foreigners
                 \/ \E i \in DOMAIN runs : runs[i].offer \in Offered /\ runs[i].pc # "failed"
<1>. /\ S \in Sites /\ page \in DOMAIN S /\ log \in Seq(RequestsOf(S)) /\ Typed(S)
     /\ UpToDate
     /\ cache \in Caches(S, Len(log)) /\ Open(page, cache) /\ q \in QueriesOf(S)
     /\ RunsOK(S, runs, log) /\ Signed /\ Current.form.typed
  BY DEF Drafting, DraftShown, Sound, Typed, Caches
<1>1. cache' = Answered(q, n) BY DeliverGood
<1>2. n \in 0..Len(log)
  <2>1. n \in cache[q].fetch..Len(log) /\ cache[q].fetch # Idle BY DEF Deliver
  <2>2. cache[q].fetch \in Idle..Len(log) /\ Len(log) \in Nat BY DEF Caches, Entries
  <2>. QED BY <2>1, <2>2 DEF Idle
<1>3. /\ cache'[q].data = n /\ cache'[q].fetch = Idle /\ ~cache'[q].err
      /\ \A x \in QueriesOf(S) : x # q => cache'[x] = cache[x]
  <2>1. cache[q] \in Entries(Len(log)) BY DEF Caches
  <2>. QED BY <1>1, <2>1 DEF Caches, Entries, Answered
<1>4. Open(page, cache')
  <2>1. \A x \in S[page].gate : cache'[x].data # None /\ ~cache'[x].err
    BY <1>2, <1>3, GatesCached, OpenIs DEF None
  <2>2. \A x \in S[page].quiet : cache'[x].fetch = Idle
    <3>1. S[page].quiet \subseteq QueriesOf(S) BY GatesCached, EverySite DEF SiteOK
    <3>. QED BY <1>3, <3>1, OpenIs
  <2>. QED BY <2>1, <2>2, OpenIs
<1>5. ASSUME Replaces(q, n), cache[q].data # None
      PROVE  /\ cache'[q].data # cache[q].data
             /\ \/ Foreigners
                \/ \E i \in DOMAIN runs : runs[i].offer \in Offered /\ runs[i].pc # "failed"
  <2>1. q \in Current.form.source
        /\ \E j \in (cache[q].data + 1)..n : Affects(log[j], q)
    BY <1>5 DEF Replaces
  <2>2. PICK j \in (cache[q].data + 1)..n : Affects(log[j], q) BY <2>1
  <2>3. cache[q].data \in Nat
    <3>1. cache[q].data \in None..Len(log) /\ Len(log) \in Nat BY DEF Caches, Entries
    <3>. QED BY <1>5, <3>1 DEF None
  <2>4. j \in DOMAIN log /\ n > cache[q].data BY <1>2, <2>2, <2>3
  <2>5. ASSUME ~Foreigners
        PROVE  \E i \in DOMAIN runs : runs[i].offer \in Offered /\ runs[i].pc # "failed"
    <3>1. PICK i \in DOMAIN runs : AppliedFor(j, i) BY <2>4, <2>5 DEF Signed
    <3>2. PICK k \in 1..runs[i].step :
                /\ log[j] = runs[i].offer.steps[k].request
                /\ runs[i].pc \in {"sent", "failed"} => k < runs[i].step
      BY <3>1 DEF AppliedFor
    <3>3. /\ runs[i].offer \in OffersOf(S)
          /\ runs[i].step \in DOMAIN runs[i].offer.steps
          /\ DOMAIN runs[i].offer.steps = 1..Len(runs[i].offer.steps)
          /\ Len(runs[i].offer.steps) \in {1, 2}
      <4>1. runs[i].offer \in OffersOf(S) /\ runs[i].step \in DOMAIN runs[i].offer.steps
        BY HookIs
      <4>. QED BY <4>1, EverySite DEF SiteOK
    <3>4. k \in DOMAIN runs[i].offer.steps BY <3>3
    <3>5. Current = S[page] BY Here
    <3>6. S = ConnectPages /\ page = "ConnectorConfig" /\ q = useConnectorConfig
      BY <2>1, <3>5, Forms
    <3>7. runs[i].offer = SaveConfig /\ SaveConfig \in ConnectPages["ConnectorConfig"].inner.offers
          /\ Len(SaveConfig.steps) = 1
      BY <2>2, <3>2, <3>3, <3>4, <3>6, ConfigForm
    <3>8. runs[i].pc # "failed" BY <3>2, <3>3, <3>7
    <3>9. runs[i].offer \in Offered BY <3>5, <3>6, <3>7 DEF Offered
    <3>. QED BY <3>8, <3>9
  <2>. QED BY <1>3, <2>3, <2>4, <2>5
<1>6. Replaces(q, n) => q \in Current.form.source BY DEF Replaces
<1>7. cache[q].data = None => cache'[q].data # cache[q].data BY <1>2, <1>3 DEF None
<1>. QED BY <1>4, <1>5, <1>6, <1>7

DraftInv == \E S \in Sites : Sound(S) /\ Signed /\ DraftShown

\* There is no draft at first.
LEMMA DraftInit ==
  ASSUME Init
  PROVE  DraftInv
<1>1. \E S \in Sites : Sound(S) BY SoundInit
<1>2. log = <<>> /\ draft = FALSE BY DEF Init
<1>3. DOMAIN log = {} BY <1>2
<1>. QED BY <1>1, <1>2, <1>3 DEF DraftInv, Signed, DraftShown

\* A draft is of a form that is shown.
LEMMA DraftStep ==
  ASSUME NEW S, Sound(S), DraftShown, [Next]_vars
  PROVE  DraftShown'
<1>1. ASSUME page' = page, draft' => Current.form.typed /\ Open(page, cache')
      PROVE DraftShown'
  <2>1. Current' = Current BY <1>1 DEF Current
  <2>2. Open(page, cache)' <=> Open(page, cache') BY <1>1 DEF Open
  <2>. QED BY <1>1, <2>1, <2>2 DEF DraftShown
<1>2. ASSUME UNCHANGED <<page, cache>>, draft' => draft PROVE DraftShown'
  BY <1>1, <1>2 DEF DraftShown
<1>3. ASSUME NEW p, Show(p) PROVE DraftShown' BY <1>3 DEF Show, DraftShown
<1>4. ASSUME UNCHANGED page, draft' => draft /\ Open(page, cache') PROVE DraftShown'
  BY <1>1, <1>4 DEF DraftShown
<1>5. CASE Type BY <1>1, <1>5 DEF Type
<1>6. ASSUME NEW i \in DOMAIN runs, Step(i) PROVE DraftShown'
  <2>1. CASE Settle(i)
    BY <1>2, <1>3, <2>1 DEF Settle
  <2>2. CASE Acknowledge(i) BY <1>4, <2>2 DEF Acknowledge
  <2>. QED BY <1>2, <1>6, <2>1, <2>2 DEF Step, Apply, Reject, Continue
<1>7. ASSUME NEW q \in DOMAIN cache, Answer(q) PROVE DraftShown'
  BY <1>4, <1>7 DEF Answer, Fail, Deliver
<1>8. CASE Focus \/ Reconnect \/ Interval \/ Retry
  BY <1>4, <1>8 DEF Focus, Reconnect, Interval, Retry, Wake
<1>9. CASE User
  BY <1>2, <1>3, <1>5, <1>8, <1>9
     DEF User, Navigate, Use, AskConfirm, Confirm, CancelDialog
<1>10. ASSUME NEW r, Foreign(r) PROVE DraftShown' BY <1>2, <1>10 DEF Foreign
<1>11. CASE UNCHANGED vars BY <1>2, <1>11 DEF vars
<1>. QED BY <1>6, <1>7, <1>9, <1>10, <1>11 DEF Next

\* A draft that goes was sent, left, or replaced for one of the reasons KeepsDraft lists.
LEMMA DraftGoes ==
  ASSUME NEW S, Sound(S), Signed, DraftShown, [Next]_vars
  PROVE  KeepsDraft
<1>1. SUFFICES ASSUME draft, ~draft', page' = page PROVE KeepsDraft BY DEF KeepsDraft
<1>2. Drafting(S) BY <1>1 DEF Drafting
<1>3. ASSUME NEW i \in DOMAIN runs, Step(i) PROVE KeepsDraft
  <2>1. CASE Settle(i)
    <3>1. RunsOK(S, runs, log) /\ S \in Sites BY DEF Sound, Typed
    <3>2. runs'[i].pc = "done" BY <2>1, <3>1, SettleRuns
    <3>3. runs[i].pc = "waiting" BY <2>1 DEF Settle
    <3>. QED BY <3>2, <3>3 DEF KeepsDraft
  <2>2. CASE Acknowledge(i) BY <1>1, <1>2, <2>2, AckOpen DEF Acknowledge
  <2>. QED BY <1>1, <1>3, <2>1, <2>2 DEF Step, Apply, Reject, Continue
<1>4. ASSUME NEW q \in DOMAIN cache, Fail(q) PROVE KeepsDraft
  <2>1. ~Open(page, cache') BY <1>1, <1>4 DEF Fail
  <2>. QED BY <1>2, <1>4, <2>1, FailOpen DEF KeepsDraft
<1>5. ASSUME NEW q \in DOMAIN cache, NEW n, Deliver(q, n) PROVE KeepsDraft
  <2>1. Open(page, cache') BY <1>2, <1>5, DeliverOpen
  <2>2. Replaces(q, n) BY <1>1, <1>5, <2>1 DEF Deliver
  <2>3. /\ q \in Current.form.source /\ cache'[q].data # cache[q].data
        /\ \/ cache[q].data = None \/ Foreigners
           \/ \E i \in DOMAIN runs : runs[i].offer \in Offered /\ runs[i].pc # "failed"
    BY <1>2, <1>5, <2>2, DeliverOpen
  <2>. QED BY <2>3 DEF KeepsDraft, Foreigners
<1>6. CASE Focus \/ Interval \/ Retry
  <2>1. draft' = (draft /\ Open(page, cache')) BY <1>6 DEF Focus, Interval, Retry, Wake
  <2>. QED BY <1>1, <1>2, <1>6, <2>1, WakeOpen
<1>7. CASE Reconnect BY <1>7 DEF KeepsDraft
<1>8. CASE User
  <2>1. ASSUME NEW p \in DOMAIN SiteOf(page), Navigate(p) PROVE FALSE
    BY <1>1, <2>1 DEF Navigate, Show
  <2>. QED BY <1>1, <1>6, <1>7, <1>8, <2>1
        DEF User, Type, Use, AskConfirm, Confirm, CancelDialog
<1>9. ASSUME NEW q \in DOMAIN cache, Answer(q) PROVE KeepsDraft
  BY <1>4, <1>5, <1>9 DEF Answer
<1>10. ASSUME NEW r, Foreign(r) PROVE KeepsDraft BY <1>1, <1>10 DEF Foreign
<1>11. CASE UNCHANGED vars BY <1>1, <1>11 DEF vars
<1>. QED BY <1>3, <1>8, <1>9, <1>10, <1>11 DEF Next

\* What the user has typed into a form stays there until it is sent, the page is left, or the
\* data the form shows were changed, lost or read for the first time.
THEOREM TypedTextIsKept == Spec => DraftKept
<1>1. Init => DraftInv BY DraftInit
<1>2. DraftInv /\ [Next]_vars => DraftInv'
  BY SoundStep, SignedStep, DraftStep DEF DraftInv
<1>3. DraftInv /\ [Next]_vars => [KeepsDraft]_vars BY DraftGoes DEF DraftInv
<1>. QED BY <1>1, <1>2, <1>3, PTL DEF Spec, DraftKept

\* Refetches a mutation waits for.  At most one mutation has been answered, its page
\* is still shown, and it is still waiting.
Alone ==
    /\ "navigate" \notin Range(events)
    /\ \A i, j \in acked : i = j
    /\ acked = {} \/ \E i \in DOMAIN runs : runs[i].pc = "waiting"

\* Mutations under way have places of their own in the log.
Applied(r) == r.pc \in {"applied", "waiting"}
Numbered ==
    \A i \in DOMAIN runs :
        /\ runs[i].pc = "applied" => runs[i].at \notin acked
        /\ runs[i].pc = "waiting" => runs[i].at \in acked
        /\ \A j \in DOMAIN runs : i # j /\ Applied(runs[i]) /\ Applied(runs[j])
                                  => runs[i].at # runs[j].at

\* The queries whose refetch the mutation waits for: those mounted when it was answered.
Watched == Current.outer.reads \cup (IF events = <<>> THEN Current.inner.reads ELSE {})
Refetched(e, n, watched, waited) ==
    /\ NotBehind(e, n) /\ Marked(e, n)
    /\ watched => ~e.joined /\ (e.data >= n \/ e.err \/ waited)
Answering(i) ==
    \A q \in Matching(HookOf(i), cache) :
        Refetched(cache[q], runs[i].at, HookOf(i).awaits /\ q \in Watched, q \in runs[i].waits)

\* Nothing is fetched before the first event or answer, and what the page reads is there.
Calm == events = <<>> /\ acked = {} =>
            \A q \in DOMAIN cache : cache[q].fetch = Idle /\ ~cache[q].err
Loaded == \A q \in DOMAIN cache :
             q \in Current.outer.reads \cup Current.inner.reads => cache[q].data # None
Waiting == Calm /\ Loaded /\ \A i \in DOMAIN runs : runs[i].pc = "waiting" => Answering(i)
WaitInv == Numbered /\ (Alone => Waiting)

\* What was recorded stays recorded.
LEMMA EventsGrow ==
  ASSUME NEW S, Sound(S), [Next]_vars
  PROVE  Range(events) \subseteq Range(events') /\ (events' = <<>> => events = <<>>)
<1>1. events \in Seq(Kinds) BY DEF Sound, Typed
<1>. QED BY <1>1, NextEvents, EventIs

\* A mutation that goes on as it was, but for the waits of X.
Same(j, X) ==
    /\ j \in DOMAIN runs /\ runs'[j].pc = runs[j].pc /\ runs'[j].at = runs[j].at
    /\ runs'[j].offer = runs[j].offer /\ runs'[j].step = runs[j].step
    /\ runs'[j].waits = runs[j].waits \ X
Others(I, X) == \A j \in DOMAIN runs' \ I : Applied(runs'[j]) => Same(j, X)

\* What the user does leaves those that are under way as they are.
LEMMA UserRuns ==
  ASSUME NEW S, Sound(S), User
  PROVE  Others({}, {})
<1>. S \in Sites /\ page \in DOMAIN S /\ Typed(S) /\ RunsOK(S, runs, log)
  BY DEF Sound, Typed
<1>1. \A j \in DOMAIN runs : runs[j] \in Run(S) BY RunsAre
<1>2. ASSUME UNCHANGED runs PROVE Others({}, {}) BY <1>2 DEF Others, Same
<1>3. ASSUME NEW o \in OffersOf(S), Start(o) PROVE Others({}, {})
  <2>. DEFINE r == [offer |-> o, step |-> 1, pc |-> "sent", at |-> 0, waits |-> {},
                    here |-> TRUE]
  <2>1. /\ RunsOK(S, runs', log) /\ Len(runs') = Len(runs) + 1
        /\ \A j \in DOMAIN runs : runs'[j] = runs[j]
        /\ runs'[Len(runs) + 1] = r
    BY <1>3, StartRuns
  <2>2. ~Applied(r) BY DEF Applied
  <2>. HIDE DEF r
  <2>3. \A j \in DOMAIN runs' : j \in DOMAIN runs \/ j = Len(runs) + 1
    BY <2>1 DEF RunsOK
  <2>. QED BY <2>1, <2>2, <2>3 DEF Others, Same
<1>4. ASSUME NEW p, Navigate(p) PROVE Others({}, {})
  <2>1. runs' = [j \in DOMAIN runs |-> [runs[j] EXCEPT !.here = FALSE]]
    BY <1>4 DEF Navigate
  <2>2. ASSUME NEW j \in DOMAIN runs PROVE Same(j, {})
    BY <1>1, <2>1 DEF Run, Same
  <2>. QED BY <2>1, <2>2 DEF Others
<1>5. ASSUME NEW o \in Offered, Use(o) PROVE Others({}, {})
  <2>1. o \in OffersOf(S) BY Here
  <2>. QED BY <1>3, <1>5, <2>1 DEF Use
<1>6. CASE Confirm
  <2>1. PICK o \in dialog : Start(o) BY <1>6 DEF Confirm
  <2>2. o \in OffersOf(S) BY <2>1 DEF Typed, Dialog
  <2>. QED BY <1>3, <2>1, <2>2
<1>. QED
  BY <1>2, <1>4, <1>5, <1>6
     DEF User, Type, AskConfirm, CancelDialog, Focus, Reconnect, Interval, Retry, Wake

\* An answer to a query ends the waits for it, and nothing else.
LEMMA AnswerRuns ==
  ASSUME NEW S, Sound(S), NEW q, EndWait(q)
  PROVE  Others({}, {q})
<1>. RunsOK(S, runs, log) BY DEF Sound, Typed
<1>1. runs' = [j \in DOMAIN runs |-> [runs[j] EXCEPT !.waits = @ \ {q}]] BY DEF EndWait
<1>2. \A j \in DOMAIN runs : runs[j] \in Run(S) BY RunsAre
<1>3. ASSUME NEW j \in DOMAIN runs PROVE Same(j, {q})
  <2>1. runs'[j] = [runs[j] EXCEPT !.waits = @ \ {q}] BY <1>1
  <2>. QED BY <1>2, <2>1 DEF Run, Same
<1>. QED BY <1>1, <1>3 DEF Others

\* A mutation the server applies gets the next place in the log.
LEMMA ApplyOthers ==
  ASSUME NEW S, Sound(S), NEW i \in DOMAIN runs, Apply(i)
  PROVE  Others({i}, {}) /\ runs'[i].pc = "applied" /\ runs'[i].at = Len(log) + 1
         /\ DOMAIN runs' = DOMAIN runs
<1>. RunsOK(S, runs, log) /\ log \in Seq(RequestsOf(S)) BY DEF Sound, Typed
<1>1. runs' = [runs EXCEPT ![i].pc = "applied", ![i].at = Len(log')]
      /\ log' = Append(log, HookOf(i).request)
  BY DEF Apply
<1>2. \A j \in DOMAIN runs : runs[j] \in Run(S) BY RunsAre
<1>3. /\ runs'[i] = [runs[i] EXCEPT !.pc = "applied", !.at = Len(log')]
      /\ \A j \in DOMAIN runs \ {i} : runs'[j] = runs[j]
      /\ DOMAIN runs' = DOMAIN runs
  BY <1>1 DEF RunsOK
<1>4. Len(log') = Len(log) + 1 BY <1>1
<1>5. runs'[i].pc = "applied" /\ runs'[i].at = Len(log') BY <1>2, <1>3 DEF Run
<1>6. \A j \in DOMAIN runs \ {i} : Same(j, {}) BY <1>3 DEF Same
<1>. QED BY <1>3, <1>4, <1>5, <1>6 DEF Others

\* One it rejects leaves the others alone.
LEMMA RejectOthers ==
  ASSUME NEW S, Sound(S), NEW i \in DOMAIN runs, Reject(i)
  PROVE  Others({}, {})
<1>. RunsOK(S, runs, log) BY DEF Sound, Typed
<1>1. runs' = [runs EXCEPT ![i].pc = "failed"] BY DEF Reject
<1>2. \A j \in DOMAIN runs : runs[j] \in Run(S) BY RunsAre
<1>3. /\ runs'[i] = [runs[i] EXCEPT !.pc = "failed"]
      /\ \A j \in DOMAIN runs \ {i} : runs'[j] = runs[j]
      /\ DOMAIN runs' = DOMAIN runs
  BY <1>1 DEF RunsOK
<1>4. runs'[i].pc = "failed" BY <1>2, <1>3 DEF Run
<1>5. ~Applied(runs'[i]) BY <1>4 DEF Applied
<1>6. \A j \in DOMAIN runs \ {i} : Same(j, {}) BY <1>3 DEF Same
<1>. QED BY <1>3, <1>5, <1>6 DEF Others

\* One that is answered waits for its refetches, which take the place of those that others wait for.
LEMMA AckOthers ==
  ASSUME NEW S, Sound(S), NEW i \in DOMAIN runs, Acknowledge(i)
  PROVE  /\ Others({i}, Restarts(HookOf(i), cache, Active(page, cache)))
         /\ runs'[i].pc = "waiting" /\ runs'[i].at = runs[i].at
         /\ runs'[i].offer = runs[i].offer /\ runs'[i].step = runs[i].step
         /\ runs'[i].waits = WaitsFor(HookOf(i), cache, Active(page, cache))
         /\ DOMAIN runs' = DOMAIN runs
<1>. RunsOK(S, runs, log) BY DEF Sound, Typed
<1>. DEFINE W == WaitsFor(HookOf(i), cache, Active(page, cache))
            G == Restarts(HookOf(i), cache, Active(page, cache))
<1>1. runs' = [j \in DOMAIN runs |->
                  IF j = i THEN [runs[i] EXCEPT !.pc = "waiting", !.waits = W]
                  ELSE [runs[j] EXCEPT !.waits = @ \ G]]
  BY DEF Acknowledge
<1>. HIDE DEF W, G
<1>2. \A j \in DOMAIN runs : runs[j] \in Run(S) BY RunsAre
<1>3. runs'[i] = [runs[i] EXCEPT !.pc = "waiting", !.waits = W] BY <1>1
<1>4. /\ runs'[i].pc = "waiting" /\ runs'[i].at = runs[i].at
      /\ runs'[i].offer = runs[i].offer /\ runs'[i].step = runs[i].step
      /\ runs'[i].waits = W
  BY <1>2, <1>3 DEF Run
<1>5. ASSUME NEW j \in DOMAIN runs \ {i} PROVE Same(j, G)
  <2>1. runs'[j] = [runs[j] EXCEPT !.waits = @ \ G] BY <1>1
  <2>. QED BY <1>2, <2>1 DEF Run, Same
<1>6. Others({i}, G) BY <1>1, <1>5 DEF Others
<1>. QED BY <1>1, <1>4, <1>6 DEF W, G

\* One that goes on to its next step has no place yet.
LEMMA ContinueOthers ==
  ASSUME NEW S, Sound(S), NEW i \in DOMAIN runs, Continue(i)
  PROVE  Others({}, {}) /\ ~Applied(runs'[i])
<1>. S \in Sites /\ RunsOK(S, runs, log) BY DEF Sound, Typed
<1>1. /\ runs'[i].pc = "sent" /\ \A j \in DOMAIN runs : j # i => runs'[j] = runs[j]
      /\ SameOffers(runs')
  BY ContinueRuns
<1>2. DOMAIN runs' = DOMAIN runs BY <1>1 DEF SameOffers
<1>3. ~Applied(runs'[i]) BY <1>1 DEF Applied
<1>. QED BY <1>1, <1>2, <1>3 DEF Others, Same

\* One that is over has none any more.
LEMMA SettleOthers ==
  ASSUME NEW S, Sound(S), NEW i \in DOMAIN runs, Settle(i)
  PROVE  Others({}, {}) /\ ~Applied(runs'[i])
<1>. RunsOK(S, runs, log) BY DEF Sound, Typed
<1>. DEFINE moves == runs[i].offer.then # "" /\ runs[i].offer.then # page
<1>1. runs' = [j \in DOMAIN runs |->
                  [runs[j] EXCEPT !.pc = IF j = i THEN "done" ELSE @,
                   !.here = @ /\ ~moves]]
  BY DEF Settle
<1>. HIDE DEF moves
<1>2. \A j \in DOMAIN runs : runs[j] \in Run(S) BY RunsAre
<1>3. runs'[i].pc = "done"
  <2>1. runs'[i] = [runs[i] EXCEPT !.pc = "done", !.here = @ /\ ~moves] BY <1>1
  <2>. QED BY <1>2, <2>1 DEF Run
<1>4. ASSUME NEW j \in DOMAIN runs \ {i} PROVE Same(j, {})
  <2>1. PICK b \in BOOLEAN : b = (runs[j].here /\ ~moves)
    <3>1. (runs[j].here /\ ~moves) \in BOOLEAN OBVIOUS
    <3>. QED BY <3>1
  <2>2. runs'[j] = [runs[j] EXCEPT !.pc = @, !.here = @ /\ ~moves] BY <1>1
  <2>3. runs'[j] = [runs[j] EXCEPT !.here = b] BY <1>2, <2>1, <2>2 DEF Run
  <2>. QED BY <1>2, <2>3 DEF Run, Same
<1>5. ~Applied(runs'[i]) BY <1>3 DEF Applied
<1>. QED BY <1>1, <1>4, <1>5 DEF Others

\* Places stay apart where mutations go on as they were.
LEMMA NumberedOthers ==
  ASSUME Numbered, NEW X, Others({}, X), acked' = acked
  PROVE  Numbered'
BY DEF Numbered, Others, Same, Applied

\* Answers and new mutations keep the places apart.
LEMMA NumberedStep ==
  ASSUME NEW S, Sound(S), Numbered, [Next]_vars
  PROVE  Numbered'
<1>1. CASE User
  <2>1. acked' = acked
    BY <1>1 DEF User, Navigate, Type, Use, AskConfirm, Confirm, CancelDialog, Focus,
       Reconnect,
                Interval, Retry, Wake
  <2>. QED BY <1>1, <2>1, UserRuns, NumberedOthers
<1>2. ASSUME NEW i \in DOMAIN runs, Step(i) PROVE Numbered'
  <2>1. CASE Apply(i)
    <3>1. /\ Others({i}, {}) /\ runs'[i].pc = "applied" /\ runs'[i].at = Len(log) + 1
          /\ DOMAIN runs' = DOMAIN runs /\ acked' = acked
      BY <2>1, ApplyOthers DEF Apply
    <3>2. acked \subseteq 1..Len(log) /\ Len(log) \in Nat BY DEF Sound, Typed
    <3>3. \A j \in DOMAIN runs : runs[j].pc = "applied" => runs[j].at \in 1..Len(log)
      BY DEF Sound, Typed, RunsOK, GoodRun
    <3>4. Len(log) + 1 \notin 1..Len(log) BY <3>2
    <3>5. \A j \in DOMAIN runs' \ {i} : Applied(runs'[j]) =>
             /\ runs'[j].at \in 1..Len(log) /\ runs'[j].at = runs[j].at
             /\ runs'[j].pc = runs[j].pc /\ Applied(runs[j])
      BY <3>1, <3>2, <3>3 DEF Others, Same, Applied, Numbered
    <3>. QED BY <3>1, <3>2, <3>4, <3>5 DEF Numbered, Applied
  <2>2. CASE Acknowledge(i)
    <3>. DEFINE G == Restarts(HookOf(i), cache, Active(page, cache))
    <3>1. /\ Others({i}, G) /\ runs'[i].pc = "waiting" /\ runs'[i].at = runs[i].at
          /\ DOMAIN runs' = DOMAIN runs
      BY <2>2, AckOthers
    <3>2. runs[i].pc = "applied" /\ acked' = acked \cup {runs[i].at}
      BY <2>2 DEF Acknowledge
    <3>. HIDE DEF G
    <3>3. \A j \in DOMAIN runs' \ {i} : Applied(runs'[j]) =>
             /\ runs'[j].at = runs[j].at /\ runs'[j].pc = runs[j].pc /\ Applied(runs[j])
             /\ runs[j].at # runs[i].at
      BY <3>1, <3>2 DEF Others, Same, Applied, Numbered
    <3>. QED BY <3>1, <3>2, <3>3 DEF Numbered, Applied
  <2>3. CASE Reject(i)
    <3>1. acked' = acked BY <2>3 DEF Reject
    <3>. QED BY <2>3, <3>1, RejectOthers, NumberedOthers
  <2>4. CASE Continue(i)
    <3>1. acked' = acked BY <2>4 DEF Continue
    <3>. QED BY <2>4, <3>1, ContinueOthers, NumberedOthers
  <2>5. CASE Settle(i)
    <3>1. acked' = acked BY <2>5 DEF Settle
    <3>. QED BY <2>5, <3>1, SettleOthers, NumberedOthers
  <2>. QED BY <1>2, <2>1, <2>2, <2>3, <2>4, <2>5 DEF Step
<1>3. ASSUME NEW q \in DOMAIN cache, Answer(q) PROVE Numbered'
  <2>1. acked' = acked /\ EndWait(q) BY <1>3 DEF Answer, Fail, Deliver
  <2>. QED BY <2>1, AnswerRuns, NumberedOthers
<1>4. ASSUME UNCHANGED <<runs, acked>> PROVE Numbered'
  <2>1. Others({}, {}) BY <1>4 DEF Others, Same
  <2>. QED BY <1>4, <2>1, NumberedOthers
<1>5. ASSUME NEW r, Foreign(r) PROVE Numbered' BY <1>4, <1>5 DEF Foreign
<1>6. CASE UNCHANGED vars BY <1>4, <1>6 DEF vars
<1>. QED BY <1>1, <1>2, <1>3, <1>5, <1>6 DEF Next

\* What may begin, arrive or fail without the mutation losing its refetch.
LEMMA BegunRefetched ==
  ASSUME NEW R, log \in Seq(R), NEW e \in Entries(Len(log)), NEW f, Begun(e, f),
         NEW n \in 1..Len(log), NEW watched \in BOOLEAN, NEW waited \in BOOLEAN,
         watched => e.data # None, Refetched(e, n, watched, waited)
  PROVE  Refetched(f, n, watched, waited)
<1>1. NotBehind(f, n) /\ Marked(f, n) /\ f.data = e.data BY BegunKeeps DEF Refetched
<1>2. CASE f = e BY <1>2
<1>3. CASE e.fetch = Idle /\ f = Begin(e)
  <2>1. ~f.joined /\ (f.err <=> e.err /\ e.data # None) BY <1>3, BeginIs
  <2>. QED BY <1>1, <2>1 DEF Refetched
<1>. QED BY <1>2, <1>3 DEF Begun

\* A fetch that ends, with data or an error, is what the mutation waited for.
LEMMA EndedRefetched ==
  ASSUME NEW R, log \in Seq(R), NEW e \in Entries(Len(log)), NEW n \in 1..Len(log),
         NEW watched \in BOOLEAN, NEW waited \in BOOLEAN,
           Refetched(e, n, watched, waited),
         e.fetch # Idle
  PROVE  /\ \A m \in e.fetch..Len(log) :
               Refetched([e EXCEPT !.data = m, !.fetch = Idle, !.stale = FALSE,
                          !.err = FALSE],
                         n, watched, FALSE)
         /\ Refetched([e EXCEPT !.fetch = Idle, !.err = TRUE], n, watched, FALSE)
<1>1. /\ e = [data |-> e.data, stale |-> e.stale, err |-> e.err, fetch |-> e.fetch,
              joined |-> e.joined]
      /\ e.data \in None..Len(log) /\ e.fetch \in Idle..Len(log) /\ e.joined \in BOOLEAN
      /\ Len(log) \in Nat
  BY DEF Entries
<1>2. e.joined \/ e.fetch >= n BY DEF Refetched, NotBehind
<1>3. watched => ~e.joined BY DEF Refetched
<1>4. ASSUME NEW m \in e.fetch..Len(log)
      PROVE Refetched([e EXCEPT !.data = m, !.fetch = Idle, !.stale = FALSE,
                       !.err = FALSE],
                      n, watched, FALSE)
  <2>. DEFINE f == [e EXCEPT !.data = m, !.fetch = Idle, !.stale = FALSE, !.err = FALSE]
  <2>1. f.data = m /\ f.fetch = Idle /\ f.joined = e.joined /\ ~f.err BY <1>1
  <2>2. e.joined \/ m >= n BY <1>1, <1>2
  <2>. HIDE DEF f
  <2>3. Refetched(f, n, watched, FALSE)
    BY <1>3, <2>1, <2>2 DEF Refetched, NotBehind, Marked, Kept
  <2>. QED BY <2>3 DEF f
<1>5. Refetched([e EXCEPT !.fetch = Idle, !.err = TRUE], n, watched, FALSE)
  <2>. DEFINE f == [e EXCEPT !.fetch = Idle, !.err = TRUE]
  <2>1. f.fetch = Idle /\ f.joined = e.joined /\ f.err BY <1>1
  <2>. HIDE DEF f
  <2>2. Refetched(f, n, watched, FALSE)
    BY <1>3, <2>1 DEF Refetched, NotBehind, Marked, Kept
  <2>. QED BY <2>2 DEF f
<1>. QED BY <1>4, <1>5

\* A waiting mutation was waiting already, and goes on as it was, but for the waits of X.
Stays(X) == \A i \in DOMAIN runs' : runs'[i].pc = "waiting" => Same(i, X)

\* Those that are under way include those that wait.
LEMMA OthersStay == ASSUME NEW X, Others({}, X) PROVE Stays(X)
BY DEF Others, Stays, Applied

\* A mutation waits on the page it was used on.
LEMMA AloneBefore ==
  ASSUME NEW X, Stays(X), acked' = acked, Range(events) \subseteq Range(events'), Alone'
  PROVE  Alone
<1>1. \A i \in DOMAIN runs' : runs'[i].pc = "waiting" => i \in DOMAIN runs /\ runs[i].pc = "waiting"
  BY DEF Stays, Same
<1>. QED BY <1>1 DEF Alone

\* What a waiting mutation keeps.
LEMMA WaitsOn ==
  ASSUME NEW S, Sound(S), Numbered, NEW X, Stays(X), NEW i \in DOMAIN runs',
         runs'[i].pc = "waiting"
  PROVE  /\ i \in DOMAIN runs /\ runs[i].pc = "waiting" /\ runs'[i].at = runs[i].at
         /\ HookOf(i)' = HookOf(i) /\ runs'[i].waits = runs[i].waits \ X
         /\ runs[i].at \in acked /\ runs[i].at \in 1..Len(log)
<1>1. Same(i, X) BY DEF Stays
<1>2. acked \subseteq 1..Len(log) BY DEF Sound, Typed
<1>. QED BY <1>1, <1>2 DEF Same, HookOf, Numbered

\* The fetches of X end, for good or not, and others begin.
LEMMA WaitsThrough ==
  ASSUME NEW S, Sound(S), WaitInv, NEW X, Stays(X), UNCHANGED <<page, acked>>,
         Range(events) \subseteq Range(events'), events' = <<>> => events = <<>>,
         Calm => Calm',
         NEW c \in Caches(S, Len(log)), \A q \in QueriesOf(S) \ X : c[q] = cache[q],
         \A q \in QueriesOf(S) : cache[q].data # None => c[q].data # None,
         \A q \in QueriesOf(S) \cap X : \A n \in 1..Len(log) : \A w, x \in BOOLEAN :
             Refetched(cache[q], n, w, x) => Refetched(c[q], n, w, FALSE),
         DOMAIN cache' = QueriesOf(S), \A q \in QueriesOf(S) : Begun(c[q], cache'[q])
  PROVE  Alone' => Waiting'
<1>1. SUFFICES ASSUME Alone' PROVE Waiting' OBVIOUS
<1>2. Waiting BY <1>1, AloneBefore DEF WaitInv
<1>3. /\ log \in Seq(RequestsOf(S)) /\ DOMAIN cache = QueriesOf(S)
      /\ \A q \in QueriesOf(S) : c[q] \in Entries(Len(log))
  BY DEF Sound, Typed, Caches
<1>4. Current' = Current BY DEF Current
<1>5. \A q \in QueriesOf(S) : cache'[q].data = c[q].data BY <1>3, BegunKeeps
<1>6. Loaded'
  <2>1. Loaded BY <1>2 DEF Waiting
  <2>. QED BY <1>3, <1>4, <1>5, <2>1 DEF Loaded
<1>7. Watched' \subseteq Watched BY <1>4 DEF Watched
<1>8. ASSUME NEW i \in DOMAIN runs', runs'[i].pc = "waiting" PROVE Answering(i)'
  <2>1. /\ i \in DOMAIN runs /\ runs[i].pc = "waiting" /\ runs'[i].at = runs[i].at
        /\ HookOf(i)' = HookOf(i) /\ runs'[i].waits = runs[i].waits \ X
        /\ runs[i].at \in 1..Len(log)
    BY <1>8, WaitsOn DEF WaitInv
  <2>2. Answering(i) BY <1>2, <2>1 DEF Waiting
  <2>3. Matching(HookOf(i)', cache') = Matching(HookOf(i), cache)
    BY <1>3, <2>1 DEF Matching
  <2>4. ASSUME NEW q \in Matching(HookOf(i), cache)
        PROVE  Refetched(cache'[q], runs[i].at, HookOf(i).awaits /\ q \in Watched',
                         q \in runs[i].waits \ X)
    <3>. q \in QueriesOf(S) BY <1>3 DEF Matching
    <3>1. PICK w \in BOOLEAN : w <=> HookOf(i).awaits /\ q \in Watched OBVIOUS
    <3>2. PICK x \in BOOLEAN : x <=> q \in runs[i].waits OBVIOUS
    <3>3. PICK y \in BOOLEAN : y <=> q \in runs[i].waits \ X OBVIOUS
    <3>4. Refetched(cache[q], runs[i].at, w, x)
      BY <2>2, <3>1, <3>2 DEF Answering, Refetched
    <3>5. Refetched(c[q], runs[i].at, w, y)
      <4>1. CASE q \in X
        <5>1. ~y BY <3>3, <4>1
        <5>2. Refetched(c[q], runs[i].at, w, FALSE) BY <2>1, <3>4, <4>1
        <5>. QED BY <5>1, <5>2 DEF Refetched
      <4>2. CASE q \notin X
        <5>1. (x <=> y) /\ c[q] = cache[q] BY <3>2, <3>3, <4>2
        <5>. QED BY <3>4, <5>1 DEF Refetched
      <4>. QED BY <4>1, <4>2
    <3>6. w => c[q].data # None
      <4>1. Watched \subseteq Current.outer.reads \cup Current.inner.reads
        BY DEF Watched
      <4>2. Loaded BY <1>2 DEF Waiting
      <4>. QED BY <1>3, <3>1, <4>1, <4>2 DEF Loaded
    <3>7. Refetched(cache'[q], runs[i].at, w, y)
      BY <1>3, <2>1, <3>5, <3>6, BegunRefetched
    <3>. QED BY <1>7, <3>1, <3>3, <3>7 DEF Refetched
  <2>. QED BY <2>1, <2>3, <2>4 DEF Answering
<1>9. Calm' BY <1>2 DEF Waiting
<1>. QED BY <1>6, <1>8, <1>9 DEF Waiting

\* Nothing is fetched but by what is recorded.
LEMMA WaitsFetching ==
  ASSUME NEW S, Sound(S), WaitInv, Stays({}), UNCHANGED <<page, acked>>,
         Range(events) \subseteq Range(events'),
           events' = <<>> => events = <<>> /\ cache' = cache,
         DOMAIN cache' = QueriesOf(S),
           \A q \in QueriesOf(S) : Begun(cache[q], cache'[q])
  PROVE  Alone' => Waiting'
<1>1. Calm => Calm' BY DEF Calm
<1>2. cache \in Caches(S, Len(log)) BY DEF Sound, Typed
<1>3. \A q \in QueriesOf(S) \cap {} : \A n \in 1..Len(log) : \A w, x \in BOOLEAN :
          Refetched(cache[q], n, w, x) => Refetched(cache[q], n, w, FALSE)
  OBVIOUS
<1>. QED BY <1>1, <1>2, <1>3, WaitsThrough

\* So where the cache is left alone.
LEMMA WaitsStill ==
  ASSUME NEW S, Sound(S), WaitInv, Stays({}), UNCHANGED <<page, cache, acked>>,
         Range(events) \subseteq Range(events'), events' = <<>> => events = <<>>
  PROVE  Alone' => Waiting'
<1>1. DOMAIN cache = QueriesOf(S) BY DEF Sound, Typed, Caches
<1>. QED BY <1>1, WaitsFetching DEF Begun

\* An entry whose fetch was answered.
LEMMA ArrivedIs ==
  ASSUME NEW n \in Nat, NEW e \in Entries(n), NEW m \in 0..n
  PROVE  LET f == [e EXCEPT !.data = m, !.fetch = Idle, !.stale = FALSE,
                   !.err = FALSE] IN
         f \in Entries(n) /\ f.data = m
<1>1. Idle \in Idle..n /\ m \in None..n BY DEF Idle, None
<1>. QED BY <1>1 DEF Entries

\* An entry whose fetch failed.
LEMMA FailedIs ==
  ASSUME NEW n \in Nat, NEW e \in Entries(n)
  PROVE  LET f == [e EXCEPT !.fetch = Idle, !.err = TRUE] IN
         f \in Entries(n) /\ f.data = e.data
<1>1. Idle \in Idle..n BY DEF Idle
<1>. QED BY <1>1 DEF Entries

\* An answer ends the wait for a query with data as new as its fetch, or an error.
LEMMA WaitsAnswered ==
  ASSUME NEW S, Sound(S), WaitInv, NEW q \in DOMAIN cache, Answer(q), [Next]_vars
  PROVE  Alone' => Waiting'
<1>. /\ S \in Sites /\ page \in DOMAIN S /\ log \in Seq(RequestsOf(S))
     /\ RunsOK(S, runs, log)
     /\ cache \in Caches(S, Len(log)) /\ DOMAIN cache = QueriesOf(S)
  BY DEF Sound, Typed, Caches
<1>1. cache[q] \in Entries(Len(log)) /\ Len(log) \in Nat BY DEF Caches
<1>2. EndWait(q) /\ cache[q].fetch # Idle /\ UNCHANGED <<page, acked>>
  BY DEF Answer, Fail, Deliver
<1>3. Stays({q}) BY <1>2, AnswerRuns, OthersStay
<1>4. Range(events) \subseteq Range(events') /\ (events' = <<>> => events = <<>>)
  BY EventsGrow
<1>5. Calm => Calm' BY <1>2, <1>4 DEF Calm
<1>6. ASSUME NEW c \in Caches(S, Len(log)), NEW f, c = [cache EXCEPT ![q] = f],
             f.data = cache[q].data \/ f.data # None,
             \A n \in 1..Len(log) : \A w, x \in BOOLEAN :
                 Refetched(cache[q], n, w, x) => Refetched(f, n, w, FALSE),
             DOMAIN cache' = QueriesOf(S),
               \A r \in QueriesOf(S) : Begun(c[r], cache'[r])
      PROVE  Alone' => Waiting'
  <2>1. c[q] = f /\ \A r \in QueriesOf(S) \ {q} : c[r] = cache[r] BY <1>6
  <2>2. \A r \in QueriesOf(S) : cache[r].data # None => c[r].data # None BY <1>6, <2>1
  <2>3. \A r \in QueriesOf(S) \cap {q} : \A n \in 1..Len(log) : \A w, x \in BOOLEAN :
            Refetched(cache[r], n, w, x) => Refetched(c[r], n, w, FALSE)
    BY <1>6, <2>1
  <2>4. DOMAIN cache' = QueriesOf(S) /\ \A r \in QueriesOf(S) : Begun(c[r], cache'[r])
    BY <1>6
  <2>. QED BY <1>2, <1>3, <1>4, <1>5, <2>1, <2>2, <2>3, <2>4, WaitsThrough
<1>7. CASE Fail(q)
  <2>. DEFINE f == [cache[q] EXCEPT !.fetch = Idle, !.err = TRUE]
  <2>1. cache' = [cache EXCEPT ![q] = f] BY <1>7 DEF Fail
  <2>2. f.data = cache[q].data BY <1>1 DEF Entries
  <2>3. f \in Entries(Len(log)) BY <1>1, FailedIs
  <2>4. \A n \in 1..Len(log) : \A w, x \in BOOLEAN :
            Refetched(cache[q], n, w, x) => Refetched(f, n, w, FALSE)
    BY <1>1, <1>2, EndedRefetched
  <2>. HIDE DEF f
  <2>5. cache' \in Caches(S, Len(log)) BY <2>1, <2>3 DEF Caches
  <2>6. DOMAIN cache' = QueriesOf(S) BY <2>5 DEF Caches
  <2>. QED BY <1>6, <2>1, <2>2, <2>4, <2>5, <2>6 DEF Begun
<1>8. ASSUME NEW m, Deliver(q, m) PROVE Alone' => Waiting'
  <2>. DEFINE f == [cache[q] EXCEPT !.data = m, !.fetch = Idle, !.stale = FALSE,
                    !.err = FALSE]
              c == Answered(q, m)
  <2>1. c = [cache EXCEPT ![q] = f] BY DEF Answered
  <2>2. m \in cache[q].fetch..Len(log) /\ \E skip \in Skips(page, c) : cache' = Mount(page, c, skip)
    BY <1>8 DEF Deliver, Answered
  <2>3. f.data = m /\ m # None /\ f \in Entries(Len(log))
    <3>1. m \in 0..Len(log) BY <1>1, <1>2, <2>2 DEF Entries, Idle
    <3>2. f.data = m /\ f \in Entries(Len(log)) BY <1>1, <3>1, ArrivedIs
    <3>3. m # None BY <3>1 DEF None
    <3>. QED BY <3>2, <3>3
  <2>4. \A n \in 1..Len(log) : \A w, x \in BOOLEAN :
            Refetched(cache[q], n, w, x) => Refetched(f, n, w, FALSE)
    BY <1>1, <1>2, <2>2, EndedRefetched
  <2>. HIDE DEF f, c
  <2>5. c \in Caches(S, Len(log)) BY <2>1, <2>3 DEF Caches
  <2>6. PICK skip \in Skips(page, c) : cache' = Mount(page, c, skip) BY <2>2
  <2>7. cache' \in Caches(S, Len(log)) /\ \A r \in QueriesOf(S) : Begun(c[r], cache'[r])
    BY <2>5, <2>6, MountKeeps
  <2>8. DOMAIN cache' = QueriesOf(S) BY <2>7 DEF Caches
  <2>. QED BY <1>6, <2>1, <2>3, <2>4, <2>5, <2>7, <2>8
<1>. QED BY <1>7, <1>8 DEF Answer

\* A page where nothing was fetched is open.
LEMMA CalmOpen ==
  ASSUME NEW S, Sound(S), Calm, Loaded, events = <<>>, acked = {}
  PROVE  Open(page, cache)
<1>. S \in Sites /\ page \in DOMAIN S /\ DOMAIN cache = QueriesOf(S)
  BY DEF Sound, Typed, Caches
<1>1. SiteOf(page) = S /\ Current = S[page] BY Here
<1>2. S[page].gate \subseteq S[page].outer.reads /\ S[page].gate \subseteq QueriesOf(S)
  BY GatesRead, GatesCached
<1>3. S[page].quiet \subseteq S[page].gate BY EverySite DEF SiteOK
<1>4. \A q \in S[page].gate : cache[q].data # None /\ ~cache[q].err /\ cache[q].fetch = Idle
  BY <1>1, <1>2 DEF Calm, Loaded
<1>. QED BY <1>1, <1>3, <1>4 DEF Open

\* The first mutation that is answered waits for all it refetches.
LEMMA WaitsAnswer ==
  ASSUME NEW S, Sound(S), WaitInv, NEW i \in DOMAIN runs, Acknowledge(i)
  PROVE  Alone' => Waiting'
<1>1. SUFFICES ASSUME Alone' PROVE Waiting' OBVIOUS
<1>. /\ S \in Sites /\ page \in DOMAIN S /\ log \in Seq(RequestsOf(S))
     /\ RunsOK(S, runs, log)
     /\ cache \in Caches(S, Len(log)) /\ DOMAIN cache = QueriesOf(S)
  BY DEF Sound, Typed, Caches
<1>. DEFINE h == HookOf(i)
            a == runs[i].at
            active == Active(page, cache)
            G == Restarts(h, cache, active)
            d == Invalidate(h, cache, active)
<1>2. /\ runs[i].pc = "applied" /\ cache' = d /\ acked' = acked \cup {a}
      /\ UNCHANGED <<page, log, events>>
  BY DEF Acknowledge
<1>3. /\ Others({i}, G) /\ runs'[i].at = a
      /\ runs'[i].waits = WaitsFor(h, cache, active)
      /\ HookOf(i)' = h
  BY AckOthers DEF HookOf
<1>4. a \in 1..Len(log) /\ Len(log) \in Nat BY <1>2, HookIs
<1>5. acked = {} /\ a \in acked' /\ Alone
  <2>1. a \notin acked BY <1>2 DEF WaitInv, Numbered
  <2>. QED BY <1>1, <1>2, <2>1 DEF Alone
<1>6. Calm /\ Loaded BY <1>5 DEF WaitInv, Waiting
<1>7. d \in Caches(S, Len(log)) /\ \A q \in QueriesOf(S) : Invalidated(cache[q], d[q], q \in Matching(h, cache), q \in G)
  BY InvalidateIs
<1>8. DOMAIN d = QueriesOf(S) BY <1>7 DEF Caches
<1>9. Current' = Current /\ Watched' = Watched BY <1>2 DEF Current, Watched
<1>. HIDE DEF d, a, h, active
<1>10. Calm' BY <1>5 DEF Calm
<1>11. Loaded' BY <1>2, <1>6, <1>7, <1>8, <1>9 DEF Loaded, Invalidated
<1>12. ASSUME NEW j \in DOMAIN runs', runs'[j].pc = "waiting" PROVE j = i
  <2>1. SUFFICES ASSUME j # i PROVE FALSE OBVIOUS
  <2>2. Same(j, G) BY <1>3, <1>12, <2>1 DEF Others, Applied
  <2>3. j \in DOMAIN runs /\ runs[j].pc = "waiting" BY <1>12, <2>2 DEF Same
  <2>4. runs[j].at \in acked BY <2>3 DEF WaitInv, Numbered
  <2>. QED BY <1>5, <2>4
<1>13. ASSUME NEW q \in Matching(h, cache)
       PROVE  Refetched(d[q], a, h.awaits /\ q \in Watched, q \in WaitsFor(h, cache, active))
  <2>1. q \in QueriesOf(S) /\ Invalidated(cache[q], d[q], TRUE, q \in G)
    BY <1>7, <1>13 DEF Matching
  <2>2. cache[q] \in Entries(Len(log)) BY <2>1 DEF Caches
  <2>3. CASE q \in G
    <3>1. d[q].fetch = Len(log) /\ ~d[q].joined BY <2>1, <2>3 DEF Invalidated
    <3>2. q \in active BY <2>3 DEF Restarts
    <3>3. h.awaits => q \in WaitsFor(h, cache, active) BY <1>13, <3>2 DEF WaitsFor
    <3>. QED BY <1>4, <3>1, <3>3 DEF Refetched, NotBehind, Marked, Kept
  <2>4. CASE q \notin G
    <3>1. d[q].fetch = cache[q].fetch /\ d[q].stale /\ (cache[q].fetch # Idle => d[q].joined)
      BY <2>1, <2>4 DEF Invalidated
    <3>2. q \notin Watched
      <4>1. SUFFICES ASSUME q \in Watched PROVE FALSE OBVIOUS
      <4>2. cache[q].data # None BY <1>6, <2>1, <4>1 DEF Loaded, Watched
      <4>3. q \in active
        <5>1. SiteOf(page) = S /\ Current = S[page] BY Here
        <5>2. events = <<>> => Open(page, cache) BY <1>5, <1>6, CalmOpen
        <5>. QED BY <2>1, <4>1, <5>1, <5>2 DEF Active, Watched, active
      <4>. QED BY <1>13, <2>4, <4>2, <4>3 DEF Restarts
    <3>. QED BY <3>1, <3>2 DEF Refetched, NotBehind, Marked, Kept
  <2>. QED BY <2>3, <2>4
<1>14. Matching(h, cache') = Matching(h, cache) BY <1>2, <1>8 DEF Matching
<1>15. Answering(i)' BY <1>2, <1>3, <1>9, <1>13, <1>14 DEF Answering
<1>. QED BY <1>10, <1>11, <1>12, <1>15 DEF Waiting

\* Nothing waits at first.
LEMMA WaitInit ==
  ASSUME Init
  PROVE  WaitInv
<1>1. runs = <<>> /\ acked = {} /\ DOMAIN runs = {} BY DEF Init
<1>2. \A q \in DOMAIN cache : /\ cache[q].fetch = Idle /\ ~cache[q].err
                              /\ q \in Current.outer.reads \cup Current.inner.reads
                                    => cache[q].data # None
  <2>1. \A q \in DOMAIN cache :
            cache[q] = IF q \in Current.outer.reads \cup Current.inner.reads
                       THEN [Empty EXCEPT !.data = 0] ELSE Empty
    BY DEF Init
  <2>2. /\ Empty.fetch = Idle /\ ~Empty.err
        /\ [Empty EXCEPT !.data = 0].fetch = Idle /\ ~[Empty EXCEPT !.data = 0].err
        /\ [Empty EXCEPT !.data = 0].data # None
    BY DEF Empty, None
  <2>. HIDE DEF Empty
  <2>. QED BY <2>1, <2>2
<1>3. Numbered BY <1>1 DEF Numbered
<1>. QED BY <1>1, <1>2, <1>3 DEF WaitInv, Waiting, Calm, Loaded

\* And every step keeps it.
LEMMA WaitStep ==
  ASSUME NEW S, Sound(S), WaitInv, [Next]_vars
  PROVE  WaitInv'
<1>. /\ S \in Sites /\ page \in DOMAIN S /\ log \in Seq(RequestsOf(S))
     /\ cache \in Caches(S, Len(log)) /\ events \in Seq(Kinds)
  BY DEF Sound, Typed
<1>1. Numbered' BY NumberedStep DEF WaitInv
<1>2. Range(events) \subseteq Range(events') /\ (events' = <<>> => events = <<>>)
  BY EventsGrow
<1>3. ASSUME Stays({}), UNCHANGED <<page, cache, acked>> PROVE Alone' => Waiting'
  BY <1>2, <1>3, WaitsStill
<1>4. CASE User
  <2>1. Stays({}) BY <1>4, UserRuns, OthersStay
  <2>2. ASSUME NEW p, Navigate(p) PROVE ~Alone'
    BY <2>2, EventIs DEF Navigate, Alone
  <2>3. ASSUME NEW k, NEW Y, Wake(k, Y) PROVE Alone' => Waiting'
    <3>1. cache' = Ensure(cache, Y) /\ UNCHANGED <<page, acked>> /\ events' # <<>>
      BY <2>3, EventIs DEF Wake
    <3>2. cache' \in Caches(S, Len(log)) /\ \A q \in QueriesOf(S) : Begun(cache[q], cache'[q])
      BY <3>1, EnsureIs
    <3>3. DOMAIN cache' = QueriesOf(S) BY <3>2 DEF Caches
    <3>. QED BY <1>2, <2>1, <3>1, <3>2, <3>3, WaitsFetching
  <2>4. ASSUME Focus \/ Reconnect \/ Interval \/ Retry PROVE Alone' => Waiting'
    BY <2>3, <2>4 DEF Focus, Reconnect, Interval, Retry
  <2>5. Alone' => Waiting'
    BY <1>3, <1>4, <2>1, <2>2, <2>4
       DEF User, Type, Use, AskConfirm, Confirm, CancelDialog
  <2>. QED BY <1>1, <2>5 DEF WaitInv
<1>5. ASSUME NEW i \in DOMAIN runs, Step(i) PROVE WaitInv'
  <2>1. CASE Apply(i)
    <3>1. Others({i}, {}) /\ runs'[i].pc = "applied" BY <2>1, ApplyOthers
    <3>2. Stays({}) BY <3>1 DEF Others, Stays, Applied
    <3>3. UNCHANGED <<page, cache, acked>> BY <2>1 DEF Apply
    <3>. QED BY <1>1, <1>3, <3>2, <3>3 DEF WaitInv
  <2>2. CASE Reject(i)
    <3>1. Stays({}) BY <2>2, RejectOthers, OthersStay
    <3>2. UNCHANGED <<page, cache, acked>> BY <2>2 DEF Reject
    <3>. QED BY <1>1, <1>3, <3>1, <3>2 DEF WaitInv
  <2>3. CASE Acknowledge(i) BY <1>1, <2>3, WaitsAnswer DEF WaitInv
  <2>4. ASSUME Continue(i) \/ Settle(i) PROVE WaitInv'
    <3>1. Others({}, {}) /\ ~Applied(runs'[i]) BY <2>4, ContinueOthers, SettleOthers
    <3>2. runs[i].pc = "waiting" /\ acked' = acked BY <2>4 DEF Continue, Settle
    <3>3. runs[i].at \in acked BY <3>2 DEF WaitInv, Numbered
    <3>4. ~Alone'
      <4>1. SUFFICES ASSUME Alone' PROVE FALSE OBVIOUS
      <4>2. PICK j \in DOMAIN runs' : runs'[j].pc = "waiting"
        BY <3>2, <3>3, <4>1 DEF Alone
      <4>3. j # i /\ Same(j, {}) BY <3>1, <4>2 DEF Others, Applied
      <4>4. j \in DOMAIN runs /\ runs[j].pc = "waiting" BY <4>2, <4>3 DEF Same
      <4>5. runs[j].at \in acked /\ runs[j].at # runs[i].at
        BY <3>2, <4>3, <4>4 DEF WaitInv, Numbered, Applied
      <4>. QED BY <3>2, <3>3, <4>1, <4>5 DEF Alone
    <3>. QED BY <1>1, <3>4 DEF WaitInv
  <2>. QED BY <1>5, <2>1, <2>2, <2>3, <2>4 DEF Step
<1>6. ASSUME NEW q \in DOMAIN cache, Answer(q) PROVE WaitInv'
  BY <1>1, <1>6, WaitsAnswered DEF WaitInv
<1>7. ASSUME UNCHANGED <<page, cache, acked, runs>> PROVE WaitInv'
  <2>1. Stays({}) BY <1>7 DEF Stays, Same
  <2>. QED BY <1>1, <1>3, <1>7, <2>1 DEF WaitInv
<1>8. ASSUME NEW r, Foreign(r) PROVE WaitInv' BY <1>7, <1>8 DEF Foreign
<1>9. CASE UNCHANGED vars BY <1>7, <1>9 DEF vars
<1>. QED BY <1>4, <1>5, <1>6, <1>8, <1>9 DEF Next

\* A mutation stops waiting when there is nothing left to wait for.
LEMMA WaitsUntilEmpty ==
  ASSUME NEW S, Sound(S), [Next]_vars, NEW i \in DOMAIN runs, runs[i].pc = "waiting",
         runs'[i].pc # "waiting"
  PROVE  runs[i].waits = {}
<1>. /\ S \in Sites /\ page \in DOMAIN S /\ Typed(S) /\ RunsOK(S, runs, log)
     /\ log \in Seq(RequestsOf(S)) /\ DOMAIN cache = QueriesOf(S)
  BY DEF Sound, Typed, Caches
<1>1. \A j \in DOMAIN runs : runs[j] \in Run(S) BY RunsAre
<1>2. ASSUME UNCHANGED runs PROVE FALSE BY <1>2
<1>3. ASSUME NEW o \in OffersOf(S), Start(o) PROVE FALSE BY <1>3, StartRuns
<1>4. ASSUME NEW p, Navigate(p) PROVE FALSE
  <2>1. runs' = [j \in DOMAIN runs |-> [runs[j] EXCEPT !.here = FALSE]]
    BY <1>4 DEF Navigate
  <2>. QED BY <1>1, <2>1 DEF Run
<1>5. ASSUME NEW o \in Offered, Use(o) PROVE FALSE
  <2>1. o \in OffersOf(S) BY Here
  <2>. QED BY <1>3, <1>5, <2>1 DEF Use
<1>6. CASE Confirm
  <2>1. PICK o \in dialog : Start(o) BY <1>6 DEF Confirm
  <2>2. o \in OffersOf(S) BY <2>1 DEF Typed, Dialog
  <2>. QED BY <1>3, <2>1, <2>2
<1>7. ASSUME NEW q, EndWait(q) PROVE FALSE BY <1>7, EndRuns
<1>8. CASE User
  BY <1>2, <1>4, <1>5, <1>6, <1>8
     DEF User, Type, AskConfirm, CancelDialog, Focus, Reconnect, Interval, Retry, Wake
<1>9. ASSUME NEW j \in DOMAIN runs, Step(j) PROVE runs[i].waits = {}
  <2>1. CASE Apply(j)
    <3>1. runs[j].pc = "sent" BY <2>1 DEF Apply
    <3>. QED BY <2>1, <3>1, ApplyRuns
  <2>2. CASE Reject(j)
    <3>1. runs[j].pc = "sent" BY <2>2 DEF Reject
    <3>. QED BY <2>2, <3>1, RejectRuns
  <2>3. CASE Acknowledge(j) BY <2>3, AckRuns
  <2>4. CASE Continue(j)
    <3>1. runs[j].waits = {} BY <2>4 DEF Continue
    <3>. QED BY <2>4, <3>1, ContinueRuns
  <2>5. CASE Settle(j)
    <3>1. runs[j].waits = {} BY <2>5 DEF Settle
    <3>. QED BY <2>5, <3>1, SettleRuns
  <2>. QED BY <1>9, <2>1, <2>2, <2>3, <2>4, <2>5 DEF Step
<1>10. ASSUME NEW q \in DOMAIN cache, Answer(q) PROVE FALSE
  BY <1>7, <1>10 DEF Answer, Fail, Deliver
<1>11. ASSUME NEW r, Foreign(r) PROVE FALSE BY <1>2, <1>11 DEF Foreign
<1>12. CASE UNCHANGED vars BY <1>2, <1>12 DEF vars
<1>. QED BY <1>8, <1>9, <1>10, <1>11, <1>12 DEF Next

\* One answer at most.
LEMMA OneAnswer ==
  ASSUME NEW S, Sound(S), ~(Cardinality(acked) > 1)
  PROVE  \A i, j \in acked : i = j
<1>1. SUFFICES ASSUME NEW i \in acked, NEW j \in acked, i # j PROVE FALSE OBVIOUS
<1>2. acked \subseteq 1..Len(log) /\ Len(log) \in Nat BY DEF Sound, Typed
<1>3. IsFiniteSet(acked)
  <2>1. IsFiniteSet(1..Len(log)) BY <1>2, FS_Interval
  <2>. QED BY <1>2, <2>1, FS_Subset
<1>4. IsFiniteSet({i}) /\ Cardinality({i}) = 1 BY FS_Singleton
<1>5. Cardinality({i} \cup {j}) = 2 BY <1>1, <1>4, FS_AddElement
<1>6. {i} \cup {j} \subseteq acked OBVIOUS
<1>7. Cardinality({i} \cup {j}) <= Cardinality(acked) BY <1>3, <1>6, FS_Subset
<1>8. Cardinality(acked) \in Nat BY <1>3, FS_CardinalityType
<1>. QED BY <1>5, <1>7, <1>8

\* What the mutation waited for is shown.
LEMMA ResolvesFresh ==
  ASSUME NEW S, Sound(S), WaitInv, [Next]_vars, NEW i \in DOMAIN runs,
         runs[i].pc = "waiting", runs'[i].pc # "waiting", HookOf(i).awaits,
         NEW q \in Matching(HookOf(i), cache) \cap Active(page, cache)
  PROVE  \/ cache[q].data >= runs[i].at
         \/ cache[q].err \/ cache[q].joined \/ Reopened(q)
         \/ Cardinality(acked) > 1 \/ "navigate" \in Range(events)
<1>1. SUFFICES ASSUME ~(Cardinality(acked) > 1), "navigate" \notin Range(events)
               PROVE  \/ cache[q].data >= runs[i].at
                      \/ cache[q].err \/ cache[q].joined \/ Reopened(q)
  OBVIOUS
<1>. /\ S \in Sites /\ page \in DOMAIN S /\ DOMAIN cache = QueriesOf(S)
     /\ cache \in Caches(S, Len(log)) /\ log \in Seq(RequestsOf(S))
  BY DEF Sound, Typed, Caches
<1>2. Alone BY <1>1, OneAnswer DEF Alone
<1>3. Answering(i) BY <1>2 DEF WaitInv, Waiting
<1>4. runs[i].waits = {} BY WaitsUntilEmpty
<1>5. q \in QueriesOf(S) /\ cache[q] \in Entries(Len(log)) BY DEF Caches, Active
<1>6. Refetched(cache[q], runs[i].at, q \in Watched, FALSE)
  BY <1>3, <1>4 DEF Answering, Refetched
<1>7. CASE q \in Watched BY <1>6, <1>7 DEF Refetched
<1>8. CASE q \notin Watched
  <2>1. q \notin Current.outer.reads BY <1>8 DEF Watched
  <2>2. events # <<>>
    <3>1. SiteOf(page) = S /\ Current = S[page] BY Here
    <3>. QED BY <1>8, <3>1 DEF Watched, Active
  <2>3. CASE cache[q].fetch # Idle BY <2>1, <2>2, <2>3 DEF Reopened
  <2>4. CASE cache[q].fetch = Idle
    <3>1. Asleep(cache[q]) BY DEF Sound, UpToDate, Fresh
    <3>2. runs[i].at \in 1..Len(log) /\ Len(log) \in Nat
      <4>1. acked \subseteq 1..Len(log) /\ Len(log) \in Nat BY DEF Sound, Typed
      <4>2. runs[i].at \in acked BY DEF WaitInv, Numbered
      <4>. QED BY <4>1, <4>2
    <3>3. ~(cache[q].fetch >= runs[i].at) BY <2>4, <3>2 DEF Idle
    <3>. QED BY <1>6, <2>4, <3>1, <3>3 DEF Refetched, Marked, Kept, Asleep
  <2>. QED BY <2>3, <2>4
<1>. QED BY <1>7, <1>8

ResolveInv == \E S \in Sites : Sound(S) /\ WaitInv

\* A mutation that waits for its refetches resolves no sooner than the page shows the change,
\* or that the refetch failed (unless another mutation replaced the refetch, the user left
\* the page, or its inner part was mounted again meanwhile, and is being fetched).
THEOREM WaitsForFreshData == Spec => ResolvesWithFreshData
<1>. DEFINE Fine(i, q) == \/ cache[q].data >= runs[i].at
                          \/ cache[q].err \/ cache[q].joined \/ Reopened(q)
                          \/ Cardinality(acked) > 1 \/ "navigate" \in Range(events)
            Resolves == \A i \in DOMAIN runs :
               runs[i].pc = "waiting" /\ runs'[i].pc # "waiting" /\ HookOf(i).awaits
               => \A q \in Matching(HookOf(i), cache) \cap Active(page, cache) : Fine(i, q)
<1>1. Init => ResolveInv BY SoundInit, WaitInit DEF ResolveInv
<1>2. ResolveInv /\ [Next]_vars => ResolveInv'
  BY SoundStep, WaitStep DEF ResolveInv
<1>3. ResolveInv /\ [Next]_vars => [Resolves]_vars BY ResolvesFresh DEF ResolveInv
<1>. QED BY <1>1, <1>2, <1>3, PTL DEF Spec, ResolvesWithFreshData
============================================================================
