------------------------------- MODULE Pages -------------------------------
(***************************************************************************)
(* The pages of the web interface, by what they read and what they let the *)
(* user do: every component is a View, the queries its hooks subscribe to  *)
(* and the mutations its controls start; a page puts components together.  *)
(* Markup is what a component does with the data and is left out.          *)
(***************************************************************************)
EXTENDS Hooks, TLC

\* A control that runs mutations, one after the other, then moves to a page
\* ("" to stay).  confirm: asks through the confirmation dialog first;
\* alone: disabled while any mutation is running (useIsMutating);
\* form: the form it submits, "" for none, which takes no other submission
\* meanwhile (isSubmitting).
Offer(steps, confirm, alone, form, then) ==
    [steps |-> steps, confirm |-> confirm, alone |-> alone,
     form |-> form, then |-> then]
Ask(hook, then) == Offer(<<hook>>, TRUE, FALSE, "", then)
AskAlone(hook) == Offer(<<hook>>, TRUE, TRUE, "", "")
Press(hook, alone) == Offer(<<hook>>, FALSE, alone, "", "")
Submit(form, steps, then) == Offer(steps, FALSE, FALSE, form, then)

View(reads, offers) == [reads |-> reads, offers |-> offers]
Nothing == View({}, {})
a \sqcup b == View(a.reads \cup b.reads, a.offers \cup b.offers)

\* A page: outer is always there, inner only when every query of gate has
\* succeeded and none of quiet is fetching; limited queries are not refetched
\* on window focus.  form: the inner part holds a text the user types, which
\* is replaced when a query of source brings other data.
Page(outer, gate, quiet, inner, limited, form) ==
    [outer |-> outer, gate |-> gate, quiet |-> quiet, inner |-> inner,
     limited |-> limited, form |-> form]
NoForm == [typed |-> FALSE, source |-> {}]
Form(source) == [typed |-> TRUE, source |-> source]
Framed(frame, view) == Page(frame, {}, {}, view, {}, NoForm)
Plain(view) == Framed(view, Nothing)

---------------------------------------------------------------------------
\* Topics
TopicTable == View({useTopics}, {})
TopicActionsCell ==
    View({}, {Ask(useClearTopicMessages, ""), Ask(useRecreateTopic, ""),
              Ask(useDeleteTopic, "")})
BatchActionsBar ==
    View({}, {Ask(useDeleteTopic, ""), Ask(useClearTopicMessages, "")})
TopicListPage == Page(TopicTable, {useTopics}, {useTopics},
                      TopicActionsCell \sqcup BatchActionsBar, {}, NoForm)
TopicNew == View({}, {Submit("TopicNew", <<useCreateTopic>>, "TopicOverview")})

\* The frame of a topic's tabs, with the producing sidebar always mounted.
TopicFrame == View({useTopicDetails, useTopicConnectors}, {})
TopicActions ==
    View({}, {Ask(useClearTopicMessages, ""), Ask(useRecreateTopic, ""),
              Ask(useDeleteTopic, "Topics")})
SendMessage ==
    View({useTopicDetails, useSerdes},
         {Submit("SendMessage", <<useSendMessage>>, "")})
TopicTab(inner, limited, form) ==
    Page(TopicFrame \sqcup TopicActions \sqcup SendMessage,
         {useTopicDetails}, {}, inner, {useSerdes} \cup limited, form)

Overview == View({useTopicDetails}, {})
OverviewActionsCell ==
    View({useTopicDetails}, {Press(useClearTopicMessages, FALSE)})
Settings == View({useTopicConfig}, {})
TopicConsumerGroups ==
    View({useTopicConsumerGroups, useGetConsumerGroupsLag}, {})
Acls == View({useTopicAcls}, {})
\* The query of an analysis is disabled once a result came and enabled again
\* by the same handler that ran the mutation, so it is refetched either way.
Statistics == View({}, {Press(useAnalyzeTopic, FALSE)})
Metrics == View({useTopicAnalysis}, {Press(useCancelTopicAnalysis, FALSE)})
Edit == View({useTopicDetails, useTopicConfig},
             {Submit("Edit", <<useUpdateTopic>>, "TopicOverview")})
DangerZone == View({}, {Ask(useIncreaseTopicPartitionsCount, ""),
                        Ask(useUpdateTopicReplicationFactor, "")})

TopicPages ==
    [Topics |-> TopicListPage,
     TopicNew |-> Plain(TopicNew),
     TopicOverview |-> TopicTab(Overview \sqcup OverviewActionsCell, {}, NoForm),
     TopicSettings |-> TopicTab(Settings, {}, NoForm),
     TopicConsumers |-> TopicTab(TopicConsumerGroups,
                                 {useGetConsumerGroupsLag}, NoForm),
     TopicStatistics |-> TopicTab(Statistics \sqcup Metrics, {}, NoForm),
     TopicAcls |-> TopicTab(Acls, {}, NoForm),
     TopicEdit |-> TopicTab(Edit \sqcup DangerZone, {useTopicConfig},
                            Form({}))]

---------------------------------------------------------------------------
\* Kafka Connect
ConnectHeader == View({useConnects("withStats")}, {})
Clusters == View({useConnects("withStats")}, {})
ConnectorsTable == View({useConnectors}, {})
ConnectorStateItems == View({}, {Press(useUpdateConnectorState, TRUE)})
ConnectorDangerItems ==
    View({}, {Ask(useDeleteConnector, ""), AskAlone(useResetConnectorOffsets)})
ConnectorActionsCell == ConnectorStateItems \sqcup ConnectorDangerItems
ConnectorNew ==
    View({useConnects("")},
         {Submit("New", <<useCreateConnector>>, "ConnectorTasks")})
ConnectorDetailsPage == View({useConnector, useConnectorTasks}, {})
RestartMenu == View({useConnector}, {Press(useUpdateConnectorState, TRUE)})
DangerMenu ==
    View({useConnector}, {Ask(useDeleteConnector, "Connectors"),
                          AskAlone(useResetConnectorOffsets)})
ConnectorActions == RestartMenu \sqcup DangerMenu
ConnectorTasks == View({useConnectorTasks}, {})
ActionsCellTasks == View({}, {Ask(useRestartConnectorTask, "")})
ConnectorConfig ==
    View({useConnectorConfig},
         {Submit("Config", <<useUpdateConnectorConfig>>, "")})
ConnectorTopics == View({useConnector}, {})
ConnectorTab(inner, form) ==
    Page(ConnectorDetailsPage \sqcup ConnectorActions,
         {useConnector, useConnectorTasks}, {}, inner, {}, form)

ConnectPages ==
    [Connects |-> Plain(ConnectHeader \sqcup Clusters),
     Connectors |->
         Plain(ConnectHeader \sqcup ConnectorsTable \sqcup ConnectorActionsCell),
     ConnectorNew |-> Plain(ConnectorNew),
     ConnectorTasks |-> ConnectorTab(ConnectorTasks \sqcup ActionsCellTasks,
                                     NoForm),
     ConnectorConfig |-> ConnectorTab(ConnectorConfig,
                                      Form({useConnectorConfig})),
     ConnectorTopics |-> ConnectorTab(ConnectorTopics, NoForm)]

---------------------------------------------------------------------------
\* Consumer groups
useConsumerGroupsLagTrends == View({useGetConsumerGroupsLag}, {})
GroupList == View({useConsumerGroups}, {}) \sqcup useConsumerGroupsLagTrends
GroupMetrics ==
    View({useConsumerGroupDetails}, {}) \sqcup useConsumerGroupsLagTrends
GroupDetails ==
    View({useConsumerGroupDetails},
         {Ask(useDeleteConsumerGroupMutation, "Groups")}) \sqcup GroupMetrics
GroupTopicsTable ==
    View({}, {Ask(useDeleteConsumerGroupOffsetsMutation, "")})
ResetOffsets == View({useConsumerGroupDetails}, {})
\* navigate(-1): back to the details the form was opened from.
ResetOffsetsForm ==
    View({}, {Offer(<<useResetConsumerGroupOffsetsMutation>>,
                    FALSE, FALSE, "", "Group")})

GroupPages ==
    [Groups |-> Page(GroupList, {}, {}, Nothing, {useGetConsumerGroupsLag},
                     NoForm),
     Group |-> Page(GroupDetails, {useConsumerGroupDetails}, {},
                    GroupTopicsTable, {useGetConsumerGroupsLag}, NoForm),
     GroupReset |-> Page(ResetOffsets, {useConsumerGroupDetails}, {},
                         ResetOffsetsForm, {}, Form({}))]

---------------------------------------------------------------------------
\* Schemas
SchemaList == View({useGetSchemas}, {})
GlobalSchemaSelector ==
    View({useGetGlobalCompatibilityLayer},
         {Ask(useUpdateGlobalSchemaCompatibilityLevel, "")})
SchemaNew == View({}, {Submit("New", <<useCreateSchema>>, "Schema")})
SchemaDetails == View({useGetSchemasVersions, useGetLatestSchema},
                      {Ask(useDeleteSchema, "Schemas")})
SchemaDiff == View({useGetSchemasVersions}, {})
SchemaEdit == View({useGetLatestSchema}, {})
SchemaEditForm ==
    View({}, {Submit("Edit", steps, "Schema") : steps \in
                {<<useUpdateSchemaCompatibilityLayer>>, <<useCreateSchema>>,
                 <<useUpdateSchemaCompatibilityLayer, useCreateSchema>>}})

SchemaPages ==
    [Schemas |-> Page(SchemaList \sqcup View(GlobalSchemaSelector.reads, {}),
                      {useGetGlobalCompatibilityLayer},
                      {useGetGlobalCompatibilityLayer},
                      View({}, GlobalSchemaSelector.offers), {}, NoForm),
     SchemaNew |-> Plain(SchemaNew),
     Schema |-> Plain(SchemaDetails),
     SchemaDiff |-> Plain(SchemaDiff),
     SchemaEdit |-> Page(SchemaEdit, {useGetLatestSchema},
                         {useGetLatestSchema}, SchemaEditForm,
                         {useGetLatestSchema}, Form({}))]

---------------------------------------------------------------------------
\* Access control lists: the form slides in next to the list.
AclList == View({useAcls}, {Ask(useDeleteAclMutation, "")})
useTopicsOptions == View({useTopics}, {})
useConsumerGroupsOptions == View({useConsumerGroups}, {})
CustomACLForm == View({}, {Press(useCreateCustomAcl, FALSE)})
ForConsumersForm == View({}, {Press(useCreateConsumersAcl, FALSE)})
                    \sqcup useTopicsOptions \sqcup useConsumerGroupsOptions
ForProducersForm ==
    View({}, {Press(useCreateProducerAcl, FALSE)}) \sqcup useTopicsOptions
ForKafkaStreamAppsForm ==
    View({}, {Press(useCreateStreamAppAcl, FALSE)}) \sqcup useTopicsOptions

AclPages ==
    [Acls |-> Framed(AclList, CustomACLForm),
     AclForConsumers |-> Framed(AclList, ForConsumersForm),
     AclForProducers |-> Framed(AclList, ForProducersForm),
     AclForStreams |-> Framed(AclList, ForKafkaStreamAppsForm)]

---------------------------------------------------------------------------
\* Brokers
BrokersList == View({useClusters, useClusterStats, useBrokers}, {})
Broker == View({useClusterStats, useBrokers}, {})
BrokerLogdir == View({useBrokerLogDirs}, {})
BrokerMetrics == View({useBrokerMetrics}, {})
Configs == View({useBrokerConfig}, {})
InputCell == View({}, {Ask(useUpdateBrokerConfigByName, "")})
BrokerTab(inner) == Page(Broker, {useBrokers}, {}, inner, {}, NoForm)

BrokerPages ==
    [Brokers |-> Plain(BrokersList),
     BrokerLogdirs |-> BrokerTab(BrokerLogdir),
     BrokerMetrics |-> BrokerTab(BrokerMetrics),
     BrokerConfigs |-> BrokerTab(Configs \sqcup InputCell)]

---------------------------------------------------------------------------
\* The list of clusters, and the two lists of the KSQL page (what its query
\* does is in Ksql).
Dashboard == View({useGetUserInfo, useClusters}, {})
KsqlDb == View({useKsqlTables, useKsqlStreams}, {})
TableView(list) == View({list}, {})
KsqlTab(list) == Page(KsqlDb, KsqlDb.reads, {}, TableView(list), {}, NoForm)

ListPages ==
    [Dashboard |-> Plain(Dashboard),
     KsqlTables |-> KsqlTab(useKsqlTables),
     KsqlStreams |-> KsqlTab(useKsqlStreams)]

---------------------------------------------------------------------------
Sites == {TopicPages, ConnectPages, GroupPages, SchemaPages, AclPages,
          BrokerPages, ListPages}
=============================================================================
