-------------------------------- MODULE Api --------------------------------
(***************************************************************************)
(* The requests the web interface sends: one definition per operation of   *)
(* the generated client, giving the method and the path the operation      *)
(* builds.  One cluster "c" and one entity of each kind (topic "t", group  *)
(* "g", connect "k" with connector "n", subject "s", broker "b") stand for *)
(* all of them; query parameters and bodies are left out, since what a     *)
(* request shows or changes does not depend on them here.                  *)
(***************************************************************************)
EXTENDS Sequences

Request(method, path) == [method |-> method, path |-> path]

\* Paths below /api/clusters/{clusterName}.
InCluster(method, rest) == Request(method, <<"clusters", "c">> \o rest)

\* TopicsApi: next to what is left out, a request names its cluster and, here
\* and for the other entities below, the one it is about.
OnTopic(method, rest) == InCluster(method, <<"topics", "t">> \o rest)
getTopics == InCluster("GET", <<"topics">>)
createTopic == InCluster("POST", <<"topics">>)
getTopicDetails == OnTopic("GET", <<>>)
updateTopic == OnTopic("PATCH", <<>>)
recreateTopic == OnTopic("POST", <<>>)
deleteTopic == OnTopic("DELETE", <<>>)
getTopicConfigs == OnTopic("GET", <<"config">>)
getTopicConnectors == OnTopic("GET", <<"connectors">>)
listTopicAcls == OnTopic("GET", <<"acls">>)
increaseTopicPartitions == OnTopic("PATCH", <<"partitions">>)
changeReplicationFactor == OnTopic("PATCH", <<"replications">>)
getTopicAnalysis == OnTopic("GET", <<"analysis">>)
analyzeTopic == OnTopic("POST", <<"analysis">>)
cancelTopicAnalysis == OnTopic("DELETE", <<"analysis">>)

\* MessagesApi
sendTopicMessages == OnTopic("POST", <<"messages">>)
deleteTopicMessages == OnTopic("DELETE", <<"messages">>)
getSerdes == OnTopic("GET", <<"serdes">>)

\* ConsumerGroupsApi
OnGroup(method, rest) == InCluster(method, <<"consumer-groups", "g">> \o rest)
getConsumerGroupsPage == InCluster("GET", <<"consumer-groups", "paged">>)
getConsumerGroupsLag == InCluster("GET", <<"consumer-groups", "lag">>)
getTopicConsumerGroups == OnTopic("GET", <<"consumer-groups">>)
getConsumerGroup == OnGroup("GET", <<>>)
deleteConsumerGroup == OnGroup("DELETE", <<>>)
deleteConsumerGroupOffsets == OnGroup("DELETE", <<"topics", "t">>)
resetConsumerGroupOffsets == OnGroup("POST", <<"offsets">>)

\* KafkaConnectApi
OnConnector(method, rest) ==
    InCluster(method, <<"connects", "k", "connectors", "n">> \o rest)
getConnects == InCluster("GET", <<"connects">>)
getAllConnectors == InCluster("GET", <<"connectors">>)
createConnector == InCluster("POST", <<"connects", "k", "connectors">>)
getConnector == OnConnector("GET", <<>>)
deleteConnector == OnConnector("DELETE", <<>>)
getConnectorConfig == OnConnector("GET", <<"config">>)
setConnectorConfig == OnConnector("PUT", <<"config">>)
getConnectorTasks == OnConnector("GET", <<"tasks">>)
restartConnectorTask ==
    OnConnector("POST", <<"tasks", "0", "action", "restart">>)
updateConnectorState == OnConnector("POST", <<"action", "a">>)
resetConnectorOffsets == OnConnector("DELETE", <<"offsets">>)

\* SchemasApi
OnSubject(method, rest) == InCluster(method, <<"schemas", "s">> \o rest)
getSchemas == InCluster("GET", <<"schemas">>)
createNewSchema == InCluster("POST", <<"schemas">>)
getLatestSchema == OnSubject("GET", <<"latest">>)
getAllVersionsBySubject == OnSubject("GET", <<"versions">>)
deleteSchema == OnSubject("DELETE", <<>>)
updateSchemaCompatibilityLevel == OnSubject("PUT", <<"compatibility">>)
getGlobalSchemaCompatibilityLevel ==
    InCluster("GET", <<"schemas", "compatibility">>)
updateGlobalSchemaCompatibilityLevel ==
    InCluster("PUT", <<"schemas", "compatibility">>)

\* AclsApi
listAcls == InCluster("GET", <<"acls">>)
createAcl == InCluster("POST", <<"acls">>)
createConsumerAcl == InCluster("POST", <<"acls", "consumer">>)
createProducerAcl == InCluster("POST", <<"acls", "producer">>)
createStreamAppAcl == InCluster("POST", <<"acls", "streamapp">>)
deleteAcl == InCluster("DELETE", <<"acls">>)

\* BrokersApi and ClustersApi
getBrokers == InCluster("GET", <<"brokers">>)
getBrokerConfig == InCluster("GET", <<"brokers", "b", "configs">>)
updateBrokerConfigByName ==
    InCluster("PUT", <<"brokers", "b", "configs", "name">>)
getBrokersMetrics == InCluster("GET", <<"brokers", "b", "metrics">>)
getAllBrokersLogdirs == InCluster("GET", <<"brokers", "logdirs">>)
getClusterStats == InCluster("GET", <<"stats">>)
getClusters == Request("GET", <<"clusters">>)

\* KsqlApi and AuthorizationApi
listTables == InCluster("GET", <<"ksql", "tables">>)
listStreams == InCluster("GET", <<"ksql", "streams">>)
getUserAuthInfo == Request("GET", <<"authorization">>)

=============================================================================
