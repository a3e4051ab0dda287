----------------------------- MODULE TopicForm -----------------------------
(***************************************************************************)
(* The form that creates and edits a topic, and the reconciliation of the  *)
(* topic's settings on the server.  An edit loads the settings into fixed  *)
(* fields and rows of custom parameters and sends the complete set back;   *)
(* the server compares it with the current one and changes the settings    *)
(* one at a time.  Other users change the same settings meanwhile.         *)
(* Values are told apart as: what the broker falls back to, the constant   *)
(* built into the form, one that the form cannot read (a number field      *)
(* holding 0, a cleanup policy not in the list), and values typed in.      *)
(***************************************************************************)
EXTENDS Subsequences, Integers, Sequences, FiniteSets, SequencesExt

CONSTANTS
    Fixed,        \* settings with a field of their own
    Selects,      \* those of them whose field is a drop-down list
    Listed,       \* settings in the table of custom parameters
    Unlisted,     \* settings the form does not know
    NameOrder,    \* all of them, sorted by name
    Typed,        \* values that are typed in
    StartTopics,  \* the overrides a topic may have when the form opens
    MaxRows, MaxKeys, MaxSends, TopicFaults

Names == Fixed \cup Listed \cup Unlisted
TopicValues == {"broker", "std", "odd"} \cup Typed
\* In the steps of an update: remove the override.
NoValue == "unset"

ASSUME TopicFormNames ==
    /\ Selects \subseteq Fixed /\ "retention.ms" \in Fixed
    /\ NameOrder \in Seq(Names) /\ Range(NameOrder) = Names
    /\ Unlisted \cap (Fixed \cup Listed) = {} /\ "" \notin Names
ASSUME TopicFormValues ==
    /\ {"", "broker", "std", "odd", NoValue} \cap Typed = {}
    /\ \A t \in StartTopics : /\ t \in [DOMAIN t -> TopicValues]
                              /\ DOMAIN t \subseteq Names
ASSUME TopicFormBounds == {MaxRows, MaxKeys, MaxSends, TopicFaults} \subseteq Nat

VARIABLES
    form,          \* mode, fields, rows, existing and whether it is pending
    topic,         \* the overrides of the topic: name |-> value
    job,           \* the request: what it asks for, the steps left, and the
                   \* form as it was when it was sent (ghost)
    touched,       \* ghost: settings the user changed in the form
    loaded,        \* ghost: effective values when the form was opened
    foreign,       \* ghost: settings that others changed since then
    topicSpent     \* bounded counters

topicVars == <<form, topic, job, touched, loaded, foreign, topicSpent>>

Effective(t, n) == IF n \in DOMAIN t THEN t[n] ELSE "broker"
AllEffective(t) == [n \in Names |-> Effective(t, n)]
\* f where it is defined, g elsewhere.
Over(f, g) == [x \in DOMAIN f \cup DOMAIN g |-> IF x \in DOMAIN f THEN f[x] ELSE g[x]]
InNameOrder(S) == Part(NameOrder, {i \in DOMAIN NameOrder : NameOrder[i] \in S})
Without(t, n) == [m \in DOMAIN t \ {n} |-> t[m]]
Charge(counter, bound) ==
    /\ topicSpent[counter] < bound
    /\ topicSpent' = [topicSpent EXCEPT ![counter] = @ + 1]

---------------------------------------------------------------------------
\* Loading a topic into the form.
getValue(t, n) == IF Effective(t, n) = "odd" THEN "std" ELSE Effective(t, n)
Row(n, v) == [name |-> n, value |-> v]
BugTopicParamsTransformer(t) ==
    [fields |-> [n \in Fixed |-> getValue(t, n)], rows |-> <<>>]
topicParamsTransformer(t) ==
    LET custom == InNameOrder({n \in Listed : Effective(t, n) # "broker"})
    IN  [fields |-> [n \in Fixed |-> getValue(t, n)],
         rows |-> [i \in DOMAIN custom |-> Row(custom[i], Effective(t, custom[i]))]]
\* A new topic: empty fields and no rows.
Blank == [fields |-> [n \in Fixed |-> ""], rows |-> <<>>]
defaultValues == IF form.mode = "new" THEN Blank
                 ELSE topicParamsTransformer(loaded)

TopicInit ==
    /\ \E mode \in {"edit", "new"} :
          /\ topic \in IF mode = "new" THEN {<<>>} ELSE StartTopics
          /\ LET first == IF mode = "new" THEN Blank
                          ELSE topicParamsTransformer(topic)
             IN  form = [mode |-> mode, existing |-> {}, pending |-> FALSE,
                         fields |-> first.fields, rows |-> first.rows]
    /\ loaded = topic
    /\ job = [phase |-> "none"] /\ touched = {} /\ foreign = {}
    /\ topicSpent = [keys |-> 0, sends |-> 0, faults |-> 0]

---------------------------------------------------------------------------
\* The user edits.  Choosing a name puts the table's value next to it, and
\* existingFields follows the names that were chosen.  A pending request
\* disables the inputs, but neither the drop-down lists nor the delete icons.
RowNames(rows) == {rows[i].name : i \in DOMAIN rows}
Enter(n, v) ==
    /\ Charge("keys", MaxKeys)
    /\ form' = [form EXCEPT !.fields[n] = v]
    /\ touched' = touched \cup {n}
    /\ UNCHANGED <<topic, job, loaded, foreign>>
TypeField(n, v) == ~form.pending /\ Enter(n, v)
TimeToRetainBtn(v) == ~form.pending /\ Enter("retention.ms", v)
updateSelectedOption(n, v) == Enter(n, v)
append ==
    /\ ~form.pending /\ Len(form.rows) < MaxRows /\ Charge("keys", MaxKeys)
    /\ form' = [form EXCEPT !.rows = Append(@, Row("", ""))]
    /\ UNCHANGED <<topic, job, touched, loaded, foreign>>
NameChosen(f, i, n) ==
    [f EXCEPT !.rows[i] = Row(n, IF n \in Listed THEN "std" ELSE ""),
              !.existing = (@ \ {f.rows[i].name}) \cup {n}]
Rename(i, n) ==
    /\ ~form.pending /\ form.rows[i].name # n /\ Charge("keys", MaxKeys)
    /\ form' = NameChosen(form, i, n)
    /\ touched' = touched \cup {n, form.rows[i].name}
    /\ UNCHANGED <<topic, job, loaded, foreign>>
TypeValue(i, v) ==
    /\ ~form.pending /\ Charge("keys", MaxKeys)
    /\ form' = [form EXCEPT !.rows[i].value = v]
    /\ touched' = touched \cup {form.rows[i].name}
    /\ UNCHANGED <<topic, job, loaded, foreign>>
BugRemoveField(i) ==
    /\ form.rows[i].name \in form.existing /\ Charge("keys", MaxKeys)
    /\ form' = [form EXCEPT !.rows = RemoveAt(@, i)]
    /\ touched' = touched \cup {form.rows[i].name}
    /\ UNCHANGED <<topic, job, loaded, foreign>>
removeField(i) ==
    /\ form.rows[i].name \in form.existing /\ Charge("keys", MaxKeys)
    /\ form' = [form EXCEPT !.rows = RemoveAt(@, i),
                            !.existing = @ \ {form.rows[i].name}]
    /\ touched' = touched \cup {form.rows[i].name}
    /\ UNCHANGED <<topic, job, loaded, foreign>>

\* topicFormValidationSchema and the submit button.
isUnique(rows) ==
    \A i, j \in DOMAIN rows : i # j => rows[i].name # rows[j].name
isValid ==
    /\ \A i \in DOMAIN form.rows : "" \notin {form.rows[i].name, form.rows[i].value}
    /\ isUnique(form.rows)
isDirty == form.fields # defaultValues.fields \/ form.rows # defaultValues.rows

\* What is sent.  The reducer lets a later row win; on an edit the fields win
\* over the rows, on a creation the rows win and retention.bytes is left out.
topicReducer(rows) ==
    [n \in RowNames(rows) |->
        rows[CHOOSE i \in DOMAIN rows : rows[i].name = n
                 /\ \A j \in DOMAIN rows : rows[j].name = n => j <= i].value]
formatTopicUpdate(f) == Over(f.fields, topicReducer(f.rows))
BugCreation(f) ==
    LET configs == Over(f.fields, topicReducer(f.rows))
    IN  [n \in {n \in DOMAIN configs : configs[n] # ""} |-> configs[n]]
formatTopicCreation(f) ==
    LET configs == Over(topicReducer(f.rows),
                        [n \in Fixed \ {"retention.bytes"} |-> f.fields[n]])
    IN  [n \in {n \in DOMAIN configs : configs[n] # ""} |-> configs[n]]
onSubmit ==
    /\ isValid /\ ~form.pending /\ isDirty /\ Charge("sends", MaxSends)
    /\ form' = [form EXCEPT !.pending = TRUE]
    /\ job' = [phase |-> "sent", shown |-> form,
               desired |-> IF form.mode = "new" THEN formatTopicCreation(form)
                           ELSE formatTopicUpdate(form)]
    /\ UNCHANGED <<topic, touched, loaded, foreign>>

\* "Cancel" leaves the form; so does a link elsewhere, even while a request is
\* under way, which then goes on without the form.
Leave ==
    /\ form' = [form EXCEPT !.mode = "left"]
    /\ UNCHANGED <<topic, job, touched, loaded, foreign, topicSpent>>
onCancel == ~form.pending /\ Leave

---------------------------------------------------------------------------
\* The server.  The operations of an update, in the order of their names: a
\* value to set ("" deletes it as well), or NoValue to remove an override
\* that is not asked for.
BugConfigOps(current, desired) ==
    LET due == InNameOrder({n \in DOMAIN desired : Effective(current, n) # desired[n]})
    IN  [i \in DOMAIN due |-> Row(due[i], desired[due[i]])]
configOps(current, desired) ==
    LET due == InNameOrder(
                   {n \in DOMAIN desired : Effective(current, n) # desired[n]}
                   \cup (DOMAIN current \ DOMAIN desired))
    IN  [i \in DOMAIN due |->
            Row(due[i], IF due[i] \in DOMAIN desired THEN desired[due[i]]
                        ELSE NoValue)]
UpdateConfigs ==
    /\ job.phase = "sent" /\ job.shown.mode = "edit"
    /\ job' = [phase |-> "applying", shown |-> job.shown, desired |-> job.desired,
               before |-> AllEffective(topic), ops |-> configOps(topic, job.desired)]
    /\ UNCHANGED <<form, topic, touched, loaded, foreign, topicSpent>>
BugAlterTopicConfig(t, op) ==
    IF op.value \in {"", NoValue} THEN <<>>
    ELSE [n \in {op.name} |-> op.value]
AlterTopicConfig(t, op) ==
    IF op.value \in {"", NoValue} THEN Without(t, op.name)
    ELSE Over([n \in {op.name} |-> op.value], t)
ApplyOp ==
    /\ job.phase = "applying" /\ job.ops # <<>>
    /\ topic' = AlterTopicConfig(topic, Head(job.ops))
    /\ job' = [job EXCEPT !.ops = Tail(@)]
    /\ UNCHANGED <<form, touched, loaded, foreign, topicSpent>>
CreateTopic ==
    /\ job.phase = "sent" /\ job.shown.mode = "new"
    /\ topic' = job.desired
    /\ job' = [job EXCEPT !.phase = "created"]
    /\ UNCHANGED <<form, touched, loaded, foreign, topicSpent>>
\* The answer: success leaves the page; a failure keeps the form as it is.
Succeed ==
    /\ \/ job.phase = "created"
       \/ job.phase = "applying" /\ job.ops = <<>>
    /\ job' = [phase |-> "done"]
    /\ form' = [form EXCEPT !.pending = FALSE, !.mode = "left"]
    /\ UNCHANGED <<topic, touched, loaded, foreign, topicSpent>>
BugFail ==
    /\ \/ job.phase = "sent"
       \/ job.phase = "applying" /\ job.ops # <<>>
    /\ Charge("faults", TopicFaults)
    /\ job' = [phase |-> "none"]
    /\ UNCHANGED <<form, topic, touched, loaded, foreign>>
Fail ==
    /\ \/ job.phase = "sent"
       \/ job.phase = "applying" /\ job.ops # <<>>
    /\ Charge("faults", TopicFaults)
    /\ job' = [phase |-> "none"]
    /\ form' = [form EXCEPT !.pending = FALSE]
    /\ UNCHANGED <<topic, touched, loaded, foreign>>

\* Another user changes one setting.
ForeignAlter(n, v) ==
    /\ form.mode = "edit" /\ Effective(topic, n) # v
    /\ Charge("faults", TopicFaults)
    /\ topic' = AlterTopicConfig(topic, Row(n, v))
    /\ foreign' = foreign \cup {n}
    /\ UNCHANGED <<form, job, touched, loaded>>

TopicUser ==
    /\ form.mode # "left"
    /\ \/ append \/ onSubmit \/ onCancel \/ Leave
       \/ \E n \in Fixed \ Selects, v \in Typed \cup {""} : TypeField(n, v)
       \/ \E n \in Selects, v \in Typed : updateSelectedOption(n, v)
       \/ \E v \in Typed : TimeToRetainBtn(v)
       \/ \E i \in DOMAIN form.rows :
             \/ \E n \in Names \cup {""} : Rename(i, n)
             \/ \E v \in Typed \cup {""} : TypeValue(i, v)
             \/ removeField(i)
TopicServer == UpdateConfigs \/ ApplyOp \/ CreateTopic \/ Succeed
TopicNext ==
    \/ TopicUser \/ TopicServer \/ Fail
    \/ \E n \in Names, v \in Typed : ForeignAlter(n, v)
TopicSpec == TopicInit /\ [][TopicNext]_topicVars /\ WF_topicVars(TopicServer)

---------------------------------------------------------------------------
\* What the parts of the state can be.
TopicTypeOK ==
    /\ form.mode \in {"edit", "new", "left"} /\ form.pending \in BOOLEAN
    /\ form.fields \in [Fixed -> TopicValues \cup {""}]
    /\ form.rows \in Seq([name : Names \cup {""}, value : TopicValues \cup {""}])
    /\ DOMAIN topic \subseteq Names /\ Range(topic) \subseteq TopicValues
    /\ job.phase \in {"none", "sent", "applying", "created", "done"}
    /\ form.pending <=> job.phase \in {"sent", "applying", "created"}
    /\ touched \subseteq Names \cup {""} /\ foreign \subseteq Names

\* A name that the list of parameters shows as taken is the name of some row:
\* existingFields follows every rename and removal.
TakenIsUsed == form.existing \subseteq RowNames(form.rows)

\* While an update is being applied, and after it broke off, every setting
\* has the value it had before or the one that is asked for: each step
\* changes one key and never the rest.
Asked(n) == LET asked == n \in DOMAIN job.desired
                value == IF asked THEN job.desired[n] ELSE ""
            IN  IF value = "" THEN "broker" ELSE value
NoThirdValue ==
    job.phase = "applying" =>
        \A n \in Names \ foreign :
            Effective(topic, n) \in {job.before[n], Asked(n)}

\* An update that succeeds leaves the topic as the form was sent: the fields
\* and the rows have their values, and what the form does not hold falls back
\* to the broker's default.
Shown(n) ==
    LET named == {i \in DOMAIN job.shown.rows : job.shown.rows[i].name = n}
    IN  IF n \in Fixed THEN {job.shown.fields[n]}
        ELSE IF named = {} THEN {""}
        ELSE {job.shown.rows[i].value : i \in named}
UpdateAsShown ==
    [][Succeed /\ job.shown.mode = "edit" =>
          \A n \in Names \ foreign :
              \A v \in Shown(n) :
                  Effective(topic, n) = IF v = "" THEN "broker" ELSE v]_topicVars

\* A successful edit keeps every setting that the user did not touch, as far
\* as the form can hold it: a setting that is not in the table is reset, and
\* a value that a field cannot read is replaced by the form's constant.
Holds(n) == n \notin Unlisted /\ ~(n \in Fixed /\ Effective(loaded, n) = "odd")
OthersUntouched ==
    [][Succeed /\ job.shown.mode = "edit" =>
          \A n \in Names \ (touched \cup foreign) :
              Holds(n) => Effective(topic, n) = Effective(loaded, n)]_topicVars

\* A topic is created with what was typed: rows before fields, nothing for an
\* empty field.  The size chosen in the form is not among it.
CreatedAsTyped ==
    [][Succeed /\ job.shown.mode = "new" =>
          /\ \A i \in DOMAIN job.shown.rows :
                Effective(topic, job.shown.rows[i].name) = job.shown.rows[i].value
          /\ \A n \in Fixed \ (RowNames(job.shown.rows) \cup {"retention.bytes"}) :
                Effective(topic, n) =
                    IF job.shown.fields[n] = "" THEN "broker" ELSE job.shown.fields[n]
      ]_topicVars

\* Saving the form makes the topic what the form showed, over all its steps
\* and their failures: the parts above together (TopicForm, topic.go).
TopicAsShown ==
    [](TopicTypeOK /\ TakenIsUsed /\ NoThirdValue)
    /\ UpdateAsShown /\ OthersUntouched /\ CreatedAsTyped
=============================================================================
