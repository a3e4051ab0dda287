----------------------------- MODULE ConfigForm -----------------------------
(***************************************************************************)
(* The form of a cluster (widgets/ClusterConfigForm): its sections, how    *)
(* they are configured and removed, what a stored cluster fills in, what   *)
(* the schema requires, and the cluster a filled form is saved as.         *)
(***************************************************************************)
EXTENDS ConfigModel

\* A section stores each of its fields at a path of the cluster.  kind:
\* "object" is switched on and off by isActive; "dormant" likewise, but
\* Configure leaves isActive false; "list" holds items; "plain" is saved
\* whenever it is there; "custom" can only be removed.  fresh: the fields that
\* have a value once the section is configured.
Section(kind, paths, required, fresh) ==
    [kind |-> kind, paths |-> paths, required |-> required, fresh |-> fresh]
At(key, fields) == [f \in fields |-> <<key, f>>]

Credentials == {"username", "password"}
SSLForm == {"keystoreLocation", "keystorePassword"}
Service(url, auth, ssl) ==
    [f \in {"url"} \cup Credentials \cup SSLForm |->
        CASE f = "url" -> <<url>>
          [] f \in Credentials -> <<auth, f>>
          [] f \in SSLForm -> <<ssl, f>>]

SchemaRegistry ==
    Section("object", Service("schemaRegistry", "schemaRegistryAuth",
                              "schemaRegistrySsl"), {"url"}, {})
KSQL ==
    Section("dormant", Service("ksqldbServer", "ksqldbServerAuth",
                               "ksqldbServerSsl"), {"url"}, {})
MetricsForm ==
    Section("object", At("metrics", {"type", "port"} \cup Credentials \cup SSLForm),
            {"type", "port"}, {})
Serdes ==
    Section("list", At("serde", {"name", "className", "filePath", "properties",
                                 "topicKeysPattern", "topicValuesPattern"}),
            {"name", "className", "filePath", "topicKeysPattern",
             "topicValuesPattern"},
            {"topicKeysPattern", "topicValuesPattern"})
KafkaConnects ==
    Section("list", At("kafkaConnect",
                       {"name", "address"} \cup Credentials \cup SSLForm),
            {"name", "address"}, {})
MaskingForm ==
    Section("list", At("masking", {"type", "fields", "fieldsNamePattern",
                                   "maskingCharsReplacement", "replacement",
                                   "topicKeysPattern", "topicValuesPattern"}),
            {"type"}, {})
Truststore ==
    Section("plain", [truststoreLocation |-> <<"ssl", "truststoreLocation">>,
                      truststorePassword |-> <<"ssl", "truststorePassword">>],
            {}, {})
CustomAuthentication ==
    Section("custom", [security |-> <<"properties", "security">>], {}, {})
Authentication ==
    Section("object", [method |-> <<"properties", "security">>], {"method"}, {})

FormSections ==
    [schemaRegistry |-> SchemaRegistry, ksql |-> KSQL, metrics |-> MetricsForm,
     serde |-> Serdes, kafkaConnect |-> KafkaConnects, masking |-> MaskingForm,
     truststore |-> Truststore, customAuth |-> CustomAuthentication,
     auth |-> Authentication]
Names == DOMAIN FormSections
AlwaysOpen(s) == FormSections[s].kind \in {"list", "custom"}

---------------------------------------------------------------------------
\* The methods of authentication: the fields each shows, and the ones the
\* schema requires of it.
AuthenticationMethods ==
    [jaas |-> {"saslJaasConfig", "saslMechanism"},
     gssapi |-> {"saslKerberosServiceName", "storeKey", "keyTabFile", "principal"},
     oauthbearer |-> {"unsecuredLoginStringClaim_sub"},
     password |-> {"isAuth"} \cup Credentials,
     token |-> {"tokenId", "tokenValue"},
     aws |-> {"awsProfileName", "awsRoleArn", "awsRoleSessionName",
              "awsStsRegion"},
     cloud |-> {},
     mTLS |-> SSLForm]
authPropsSchema ==
    [jaas |-> {"saslJaasConfig", "saslMechanism"},
     gssapi |-> {"saslKerberosServiceName", "principal"},
     oauthbearer |-> {"unsecuredLoginStringClaim_sub"},
     password |-> Credentials,
     token |-> {"tokenId", "tokenValue"},
     aws |-> {}, cloud |-> {}, mTLS |-> {"keystoreLocation"}]
HasProtocol(m) == m \notin {"token", "mTLS"}
Methods == DOMAIN AuthenticationMethods

---------------------------------------------------------------------------
\* A section's value is absent, an object without isActive (stored), or one
\* with isActive true or false; fields: those that hold something; open: they
\* are shown.
Value(is, fields, open) == [is |-> is, fields |-> fields, open |-> open]
Absent == Value("absent", {}, FALSE)

\* Configure and Remove.  An object that is there is never made active again.
Toggled(s, v) ==
    LET section == FormSections[s] IN
    CASE section.kind = "list" ->
            IF v.is = "absent" THEN Value("stored", section.fresh, TRUE) ELSE Absent
      [] section.kind = "custom" -> Absent
      [] OTHER ->
            Value(IF v.is = "absent" /\ section.kind # "dormant"
                  THEN "active" ELSE "inactive", {}, ~v.open)

\* The user fills in the fields shown; a method of authentication is chosen
\* among the others, whose fields keep what they hold.
Logs(s) == Credentials \subseteq DOMAIN FormSections[s].paths
Shown(s, m) ==
    IF s = "auth"
    THEN {"method", m} \cup AuthenticationMethods[m]
         \cup (IF HasProtocol(m) THEN {"securityProtocol"} ELSE {})
    ELSE DOMAIN FormSections[s].paths \cup (IF Logs(s) THEN {"isAuth"} ELSE {})
Filled(s, v, m) ==
    Value(IF v.is = "absent" THEN "stored" ELSE v.is,
          (v.fields \ Methods) \cup Shown(s, m), TRUE)

\* The custom properties are offered while there are any, the methods of
\* authentication otherwise.
Offered(sections) ==
    Names \ (IF sections["customAuth"].is = "absent"
             THEN {"customAuth"} ELSE {"auth"})

---------------------------------------------------------------------------
\* What a stored cluster fills in: a login only whole, a truststore only
\* whole, a service only with its address.  Nothing is active, lists are open.
parseCredentials(fields) ==
    IF Credentials \subseteq fields THEN fields \cup {"isAuth"}
    ELSE fields \ Credentials
Present(s, fields) ==
    CASE s \in {"schemaRegistry", "ksql"} -> "url" \in fields
      [] s = "truststore" -> fields = DOMAIN FormSections[s].paths
      [] s = "auth" -> FALSE
      [] OTHER -> fields # {}
Stored(s, c) ==
    {f \in DOMAIN FormSections[s].paths : FormSections[s].paths[f] \in c.has}
BugFormFields(c) == [s \in Names \ {"auth"} |-> Value("stored", Stored(s, c), FALSE)]
BugGetInitialFormData(c) ==
    [s \in Names |->
        IF Present(s, Stored(s, c))
        THEN Value("stored", Stored(s, c), AlwaysOpen(s)) ELSE Absent]
getInitialFormData(c) ==
    [s \in Names |->
        IF Present(s, Stored(s, c))
        THEN Value("stored",
                   IF Logs(s) THEN parseCredentials(Stored(s, c)) ELSE Stored(s, c),
                   AlwaysOpen(s))
        ELSE Absent]

\* The schema: an object needs its required fields, active or not, a login
\* that is ticked both of its own, a keystore's password its location, a
\* masking rule a field or a pattern of fields.
Required(s, fields) ==
    FormSections[s].required
    \cup (IF "isAuth" \in fields /\ Logs(s) THEN Credentials ELSE {})
    \cup (IF "keystorePassword" \in fields THEN {"keystoreLocation"} ELSE {})
    \cup (IF s = "masking" /\ "fields" \notin fields THEN {"fieldsNamePattern"} ELSE {})
    \cup (IF "truststorePassword" \in fields THEN {"truststoreLocation"} ELSE {})
    \cup (IF s = "auth"
          THEN UNION {authPropsSchema[m] : m \in fields \cap Methods}
               \cup {"securityProtocol" : m \in {x \in fields \cap Methods :
                                                   HasProtocol(x)}}
          ELSE {})
formSchema(sections) ==
    \A s \in Names : sections[s].is # "absent" =>
        Required(s, sections[s].fields) \subseteq sections[s].fields

\* The cluster a form is saved as.
transformToCredentials(fields) ==
    IF {"isAuth"} \cup Credentials \subseteq fields THEN fields
    ELSE fields \ Credentials
transformToKeystore(fields) ==
    IF "keystoreLocation" \in fields THEN fields ELSE fields \ SSLForm
IsSaved(s, sections) ==
    CASE FormSections[s].kind \in {"object", "dormant"} -> sections[s].is = "active"
      [] s = "customAuth" -> /\ sections[s].is = "stored"
                             /\ sections["auth"].is # "active"
      [] OTHER -> sections[s].is # "absent"
Payload(s, v) ==
    LET fields == transformToKeystore(transformToCredentials(v.fields))
    IN  {FormSections[s].paths[f] :
            f \in fields \cap DOMAIN FormSections[s].paths}
transformFormDataToPayload(form) ==
    [name |-> form.name, addr |-> form.addr,
     has |-> {<<"readOnly">>} \cup
             UNION {Payload(s, form.sections[s]) :
                      s \in {x \in Names : IsSaved(x, form.sections)}}]
=============================================================================
