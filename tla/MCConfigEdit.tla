---------------------------- MODULE MCConfigEdit ----------------------------
(* Two clusters, one with something in every kind of section and settings  *)
(* only one side knows; files that conflict by name, by address, and       *)
(* within themselves.                                                      *)
EXTENDS ConfigEdit

Cluster(name, addr, has) == [name |-> name, addr |-> addr, has |-> has]
MCInitial ==
    <<Cluster(<<"a">>, "x",
              {<<"schemaRegistry">>, <<"schemaRegistrySsl", "truststoreLocation">>,
               <<"kafkaConnect", "name">>, <<"kafkaConnect", "address">>,
               <<"kafkaConnect", "username">>, <<"kafkaConnect", "password">>,
               <<"kafkaConnect", "truststoreLocation">>,
               <<"ssl", "truststoreLocation">>, <<"ssl", "truststorePassword">>,
               <<"properties", "security">>, <<"pollingThrottleRate">>}),
      Cluster(<<"b">>, "y", {<<"ssl", "truststoreLocation">>,
                              <<"kafkaConnect", "username">>})>>
MCSettings ==
    {<<"auth", "oauth2", "client", "clientId">>,
     <<"rbac", "roles", "permissions", "value">>,
     <<"webclient", "responseTimeoutMs">>,
     <<"kafka", "polling", "pollTimeoutMs">>, <<"server", "port">>}
MCFiles ==
    {<<Cluster(<<"a">>, "z", {}), Cluster(<<"c">>, "x", {})>>,
     <<Cluster(<<"a", 1>>, "w", {<<"ksqldbServerSsl", "truststoreLocation">>})>>}
MCTypedNames == {<<"c">>}
=============================================================================
