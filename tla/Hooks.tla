------------------------------- MODULE Hooks -------------------------------
(***************************************************************************)
(* The data hooks of the web interface (frontend/src/lib/hooks/api): what  *)
(* every query is cached under and asks for, and what every mutation sends *)
(* and then invalidates.  Keys are the sequences the hooks build; a filter *)
(* object (page, search, sort order) is the single element "filters".      *)
(***************************************************************************)
EXTENDS Api

\* A query of the cache: its key and the request its queryFn sends.
\* suspense: useSuspenseQuery, which keeps data fresh for a second;
\* polls: refetchInterval is set.
Query(key, request, suspense, polls) ==
    [key |-> key, request |-> request, suspense |-> suspense, polls |-> polls]

useQuery(key, request) == Query(key, request, FALSE, FALSE)
useSuspenseQuery(key, request) == Query(key, request, TRUE, FALSE)

\* A mutation: its request, the key prefixes its onSuccess invalidates, and
\* whether onSuccess returns that promise, so that mutateAsync waits for it.
Mutation(request, refreshes, awaits) ==
    [request |-> request, refreshes |-> refreshes, awaits |-> awaits]

\* topics.ts
topicKeys(rest) == <<"clusters", "c", "topics">> \o rest
topicKey(rest) == topicKeys(<<"t">> \o rest)
useTopics == useQuery(topicKeys(<<"filters">>), getTopics)
useTopicDetails == useQuery(topicKey(<<>>), getTopicDetails)
useTopicConfig == useSuspenseQuery(topicKey(<<"config">>), getTopicConfigs)
useTopicConsumerGroups ==
    useSuspenseQuery(topicKey(<<"consumerGroups">>), getTopicConsumerGroups)
useTopicConnectors ==
    useSuspenseQuery(topicKey(<<"connectors">>), getTopicConnectors)
useTopicAcls == useQuery(topicKey(<<"acls">>), listTopicAcls)
useTopicAnalysis ==
    Query(topicKey(<<"statistics">>), getTopicAnalysis, FALSE, TRUE)

\* Every change of a topic invalidates everything known about topics.
OfTopics(request) == Mutation(request, {topicKeys(<<>>)}, FALSE)
useCreateTopic == OfTopics(createTopic)
useUpdateTopic == OfTopics(updateTopic)
useIncreaseTopicPartitionsCount == OfTopics(increaseTopicPartitions)
useUpdateTopicReplicationFactor == OfTopics(changeReplicationFactor)
useDeleteTopic == OfTopics(deleteTopic)
useClearTopicMessages == OfTopics(deleteTopicMessages)
useRecreateTopic == OfTopics(recreateTopic)
useSendMessage == OfTopics(sendTopicMessages)
useAnalyzeTopic ==
    Mutation(analyzeTopic, {topicKey(<<"statistics">>)}, FALSE)
useCancelTopicAnalysis ==
    Mutation(cancelTopicAnalysis, {topicKey(<<"statistics">>)}, FALSE)

\* topicMessages.tsx: the serdes offered for producing.
useSerdes == useSuspenseQuery(topicKey(<<"serdes", "SERIALIZE">>), getSerdes)

\* kafkaConnect.ts
connectsKey(withStats) == <<"clusters", "c", "connects", withStats>>
connectorsKey == <<"clusters", "c", "connectors">>
connectorKey(rest) ==
    <<"clusters", "c", "connects", "k", "connectors", "n">> \o rest
connectorTasksKey == connectorKey(<<"tasks">>)
useConnects(withStats) == useQuery(connectsKey(withStats), getConnects)
useConnectors == useQuery(connectorsKey, getAllConnectors)
useConnector == useQuery(connectorKey(<<>>), getConnector)
useConnectorTasks == useQuery(connectorTasksKey, getConnectorTasks)
useConnectorConfig == useQuery(connectorKey(<<"config">>), getConnectorConfig)
BugUpdateConnectorState ==
    Mutation(updateConnectorState, {connectorsKey}, TRUE)
useUpdateConnectorState ==
    Mutation(updateConnectorState, {connectorsKey, connectorKey(<<>>)}, TRUE)
useRestartConnectorTask ==
    Mutation(restartConnectorTask, {connectorTasksKey}, TRUE)
useUpdateConnectorConfig ==
    Mutation(setConnectorConfig, {connectorKey(<<>>)}, FALSE)
useCreateConnector == Mutation(createConnector, {connectorsKey}, TRUE)
useDeleteConnector == Mutation(deleteConnector, {connectorsKey}, TRUE)
useResetConnectorOffsets ==
    Mutation(resetConnectorOffsets, {connectorKey(<<>>)}, TRUE)

\* consumers.ts; the lag of the groups has a key of its own.
groupKeys(rest) == <<"clusters", "c", "consumerGroups">> \o rest
useConsumerGroups == useQuery(groupKeys(<<"filters">>), getConsumerGroupsPage)
useConsumerGroupDetails == useQuery(groupKeys(<<"g">>), getConsumerGroup)
useGetConsumerGroupsLag ==
    useQuery(<<"clusters", "c", "consumerGroupsLag", "ids">>,
             getConsumerGroupsLag)
OfGroups(request) == Mutation(request, {groupKeys(<<>>)}, FALSE)
useDeleteConsumerGroupMutation == OfGroups(deleteConsumerGroup)
useResetConsumerGroupOffsetsMutation == OfGroups(resetConsumerGroupOffsets)
useDeleteConsumerGroupOffsetsMutation == OfGroups(deleteConsumerGroupOffsets)

\* schemas.ts: the predicate of the mutations matches the list only, since
\* the second element of the other keys is not the cluster.
schemaListKey == <<"schemas", "c">>
globalCompatibilityKey == <<"global_compatibility_schemas", "c">>
useGetSchemas == useQuery(schemaListKey \o <<"filters">>, getSchemas)
useGetLatestSchema ==
    useQuery(<<"schemas", "latest_schemas", "c", "s">>, getLatestSchema)
useGetSchemasVersions ==
    useQuery(<<"schemas_version", "c", "s">>, getAllVersionsBySubject)
useGetGlobalCompatibilityLayer ==
    useQuery(globalCompatibilityKey, getGlobalSchemaCompatibilityLevel)
BugOfSchemas(request) == Mutation(request, {<<"schemas">>}, TRUE)
OfSchemas(request) == Mutation(request, {schemaListKey}, TRUE)
useCreateSchema == OfSchemas(createNewSchema)
useUpdateSchemaCompatibilityLayer == OfSchemas(updateSchemaCompatibilityLevel)
useDeleteSchema == OfSchemas(deleteSchema)
useUpdateGlobalSchemaCompatibilityLevel ==
    Mutation(updateGlobalSchemaCompatibilityLevel,
             {globalCompatibilityKey, schemaListKey}, TRUE)

\* acl.ts
aclsKey == <<"clusters", "c", "acls">>
useAcls == useQuery(aclsKey \o <<"filters">>, listAcls)
OfAcls(request) == Mutation(request, {aclsKey}, FALSE)
useCreateCustomAcl == OfAcls(createAcl)
useCreateConsumersAcl == OfAcls(createConsumerAcl)
useCreateProducerAcl == OfAcls(createProducerAcl)
useCreateStreamAppAcl == OfAcls(createStreamAppAcl)
useDeleteAclMutation == OfAcls(deleteAcl)

\* brokers.ts, clusters.ts
brokerKey(rest) == <<"clusters", "c", "brokers">> \o rest
useBrokers == Query(brokerKey(<<>>), getBrokers, FALSE, TRUE)
useBrokerMetrics ==
    useSuspenseQuery(brokerKey(<<"b", "metrics">>), getBrokersMetrics)
useBrokerLogDirs ==
    useSuspenseQuery(brokerKey(<<"b", "logDirs">>), getAllBrokersLogdirs)
useBrokerConfig ==
    useSuspenseQuery(brokerKey(<<"b", "settings">>), getBrokerConfig)
useUpdateBrokerConfigByName ==
    Mutation(updateBrokerConfigByName, {brokerKey(<<"b", "settings">>)}, TRUE)
useClusters == useQuery(<<"clusters">>, getClusters)
useClusterStats == Query(<<"clusterStats", "c">>, getClusterStats, TRUE, TRUE)

\* ksqlDb.tsx and roles.ts
useKsqlTables == useQuery(<<"clusters", "c", "ksqlDb", "tables">>, listTables)
useKsqlStreams == useQuery(<<"clusters", "c", "ksqlDb", "streams">>, listStreams)
useGetUserInfo == useSuspenseQuery(<<"userInfo">>, getUserAuthInfo)
=============================================================================
