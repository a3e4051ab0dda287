---------------------------- MODULE ConfigModel ----------------------------
(***************************************************************************)
(* The application configuration as its three readers know it.  A JSON or  *)
(* YAML document is the set of the paths it holds a value at, an array     *)
(* standing for its items.  The generated client converts a document field *)
(* by field, so that it keeps the paths of its models and drops all others *)
(* (generated-sources/models); the server reads some paths and stores the  *)
(* document as it is (internal/infra/config).                              *)
(***************************************************************************)
EXTENDS Sequences

Fields(names) == {<<n>> : n \in names}
Nested(key, model) == {<<key>> \o path : path \in model}

---------------------------------------------------------------------------
\* The generated models of one cluster.
Ssl == Fields({"truststoreLocation", "truststorePassword", "verify"})
SchemaRegistryAuthOauth ==
    Fields({"tokenUrl", "clientId", "clientSecret", "scopes",
            "tokenCacheEnabled", "tokenRefreshBuffer", "maxRetries"})
SchemaRegistryAuth ==
    Fields({"username", "password"}) \cup Nested("oauth", SchemaRegistryAuthOauth)
SchemaRegistrySsl == Fields({"keystoreLocation", "keystorePassword"})
KsqldbServerAuth == Fields({"username", "password"})
KafkaConnect ==
    Fields({"name", "address", "username", "password", "keystoreLocation",
            "keystorePassword"})
PrometheusStorage ==
    Fields({"url", "remoteWrite", "pushGatewayUrl", "pushGatewayUsername",
            "pushGatewayPassword", "pushGatewayJobName"})
ClusterMetricsStoreConfig == Nested("prometheus", PrometheusStorage)
Metrics ==
    Fields({"type", "port", "ssl", "username", "password", "keystoreLocation",
            "keystorePassword", "prometheusExpose"})
    \cup Nested("store", ClusterMetricsStoreConfig)
Serde ==
    Fields({"name", "className", "filePath", "properties", "topicKeysPattern",
            "topicValuesPattern"})
Masking ==
    Fields({"type", "fields", "fieldsNamePattern", "maskingCharsReplacement",
            "replacement", "topicKeysPattern", "topicValuesPattern"})
Audit ==
    Fields({"level", "topic", "auditTopicsPartitions", "topicAuditEnabled",
            "consoleAuditEnabled", "auditTopicProperties"})
\* properties are split as the form does, into those of security and others.
KafkaClusters ==
    Fields({"readOnly", "schemaRegistry", "ksqldbServer", "consumerProperties",
            "producerProperties", "defaultKeySerde", "defaultValueSerde",
            "pollingThrottleRate"})
    \cup Nested("properties", Fields({"security", "other"}))
    \cup Nested("ssl", Ssl)
    \cup Nested("schemaRegistryAuth", SchemaRegistryAuth)
    \cup Nested("schemaRegistrySsl", SchemaRegistrySsl)
    \cup Nested("ksqldbServerSsl", SchemaRegistrySsl)
    \cup Nested("ksqldbServerAuth", KsqldbServerAuth)
    \cup Nested("kafkaConnect", KafkaConnect)
    \cup Nested("metrics", Metrics) \cup Nested("serde", Serde)
    \cup Nested("masking", Masking) \cup Nested("audit", Audit)

---------------------------------------------------------------------------
\* The generated models of everything else.
Opaquetoken == Fields({"clientId", "clientSecret", "introspectionUri"})
Jwt ==
    Fields({"jwkSetUri", "jwsAlgorithms", "issuerUri", "publicKeyLocation",
            "audiences", "authorityPrefix", "authoritiesClaimDelimiter",
            "authoritiesClaimName", "principalClaimName"})
ResourceServer == Nested("jwt", Jwt) \cup Nested("opaquetoken", Opaquetoken)
Oauth2Client ==
    Fields({"provider", "clientId", "clientSecret", "clientName", "redirectUri",
            "authorizationGrantType", "issuerUri", "authorizationUri",
            "tokenUri", "userInfoUri", "jwkSetUri", "userNameAttribute",
            "scope", "customParams"})
Oauth2 == Nested("client", Oauth2Client) \cup Nested("resourceServer", ResourceServer)
Auth == Fields({"type"}) \cup Nested("oauth2", Oauth2)
RbacPermission == Fields({"resource", "value", "actions"})
RbacSubjects == Fields({"provider", "type", "value", "regex"})
RbacRoles ==
    Fields({"name", "clusters"}) \cup Nested("subjects", RbacSubjects)
    \cup Nested("permissions", RbacPermission)
RbacDefaultRole == Nested("permissions", RbacPermission)
Rbac == Nested("roles", RbacRoles) \cup Nested("defaultRole", RbacDefaultRole)
Webclient == Fields({"maxInMemoryBufferSize", "responseTimeoutMs"})
Polling ==
    Fields({"pollTimeoutMs", "maxPageSize", "defaultPageSize",
            "responseTimeoutMs"})
Cache == Fields({"enabled", "connectClusterCacheExpiry"})
Kafka ==
    Fields({"adminClientTimeout", "internalTopicPrefix"})
    \cup Nested("polling", Polling) \cup Nested("cache", Cache)
    \cup Nested("defaultMetricsStorage", ClusterMetricsStoreConfig)
Properties ==
    Nested("auth", Auth) \cup Nested("rbac", Rbac)
    \cup Nested("webclient", Webclient) \cup Nested("kafka", Kafka)

---------------------------------------------------------------------------
\* A configuration is its clusters and the settings around them.
ClustersFromJSON(c) == [c EXCEPT !.has = @ \cap KafkaClusters]
FromJSON(config) ==
    [settings |-> config.settings \cap Properties,
     clusters |-> [i \in DOMAIN config.clusters |->
                     ClustersFromJSON(config.clusters[i])]]

---------------------------------------------------------------------------
\* What the server reads.
SecretStores ==
    Fields({"keystoreLocation", "keystorePassword", "truststoreLocation",
            "truststorePassword"})
Login == Fields({"username", "password"})
ClusterCfg ==
    Fields({"readOnly", "schemaRegistry", "ksqldbServer", "defaultKeySerde",
            "defaultValueSerde", "pollingThrottleRate"})
    \cup Nested("properties", Fields({"security", "other"}))
    \cup Nested("ssl", Ssl)
    \cup Nested("schemaRegistryAuth", Login)
    \cup Nested("schemaRegistrySsl", SecretStores)
    \cup Nested("ksqldbServerAuth", Login)
    \cup Nested("ksqldbServerSsl", SecretStores)
    \cup Nested("kafkaConnect", Fields({"name", "address"}) \cup Login
                                \cup SecretStores)
    \cup Nested("serde", Serde \ Fields({"className", "filePath"}))
    \cup Nested("masking", Masking)
ServerCfg == Nested("server", Fields({"port"}))
=============================================================================
