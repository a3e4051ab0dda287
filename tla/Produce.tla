------------------------------- MODULE Produce -------------------------------
(***************************************************************************)
(* The "Produce Message" side bar of a topic: its form, the message it was *)
(* opened with to be reproduced, and the requests it sends.  The form is   *)
(* always mounted, hidden or not, and is mounted anew only when it gains   *)
(* or loses the message it reproduces.  Texts are a few classes: "none" is *)
(* the empty one, Generated a sample made from a schema, and the rest what *)
(* a user types or a message holds.                                        *)
(***************************************************************************)
EXTENDS Integers, Sequences

CONSTANTS
    Serdes,       \* serdes that both sides offer
    Preferred,    \* the one the server proposes
    UrlSerde,     \* the one in the address of the page, "none" for none
    HasSchema,    \* serdes with a schema
    Subjects,     \* values of a serde's parameter
    TextsTyped,   \* texts a user types
    Invalid,      \* those that no schema admits
    Messages,     \* messages that can be reproduced
    MaxEdits, MaxPresses, ProduceFaults

ASSUME ProduceBounds ==
    /\ Preferred \in Serdes /\ UrlSerde \in Serdes \cup {"none"}
    /\ HasSchema \subseteq Serdes /\ Invalid \subseteq TextsTyped
    /\ "none" \notin Serdes \cup Subjects \cup TextsTyped
    /\ {MaxEdits, MaxPresses, ProduceFaults} \subseteq Nat

VARIABLES
    bar,           \* the side bar: whether it is open, and its messageData
    draft,         \* the form
    sending,       \* requests that have not been answered
    produced,      \* ghost: messages on the topic, with what they reproduce
    produceSpent   \* bounded counters

produceVars == <<bar, draft, sending, produced, produceSpent>>

Sides == {"key", "value"}
ASSUME MessageShape ==
    Messages \subseteq
        [text : [Sides -> TextsTyped \cup {"none"}], serde : [Sides -> Serdes],
         params : [Sides -> Subjects \cup {"none"}], headers : {"none", "h"},
         partition : Nat]
NoMessage == [none |-> TRUE]
Generated == "sample"
Budget(counter, bound) ==
    /\ produceSpent[counter] < bound
    /\ produceSpent' = [produceSpent EXCEPT ![counter] = @ + 1]

---------------------------------------------------------------------------
\* Defaults: a sample for the preferred serde, the serde of the address, and
\* over both whatever the message brings.
generateValueFromSchema == IF Preferred \in HasSchema THEN Generated ELSE "none"
getDefaultValues == [s \in Sides |-> generateValueFromSchema]
DefaultSerde == IF UrlSerde # "none" THEN UrlSerde ELSE Preferred
\* setMessage: an empty key is not taken over, an empty value is.
messageData(m) ==
    [text |-> [s \in Sides |-> IF s = "key" /\ m.text[s] = "none"
                               THEN getDefaultValues[s] ELSE m.text[s]],
     serde |-> m.serde, params |-> m.params, headers |-> m.headers,
     partition |-> m.partition]
NoData ==
    [text |-> getDefaultValues, serde |-> [s \in Sides |-> DefaultSerde],
     params |-> [s \in Sides |-> "none"], headers |-> "none", partition |-> 0]
BugFormDefaults(m) ==
    IF m = NoMessage THEN NoData
    ELSE [messageData(m) EXCEPT !.serde = NoData.serde]
formDefaults(m) == IF m = NoMessage THEN NoData ELSE messageData(m)

\* A mounted form.  for: ghost, the serde each parameter was chosen for;
\* from: ghost, the message that the form shows unchanged.
Mount(m, id) ==
    [id |-> id, fields |-> formDefaults(m), keep |-> FALSE,
     for |-> formDefaults(m).serde, from |-> m]
ProduceInit ==
    /\ bar = [open |-> FALSE, data |-> NoMessage]
    /\ draft = Mount(NoMessage, 1)
    /\ sending = {} /\ produced = <<>>
    /\ produceSpent = [edits |-> 0, presses |-> 0, faults |-> 0, bars |-> 0]

---------------------------------------------------------------------------
\* The side bar.  The key of the form tells only whether there is a message.
Remounted(data) ==
    IF (data = NoMessage) # (bar.data = NoMessage)
    THEN Mount(data, draft.id + 1)
    ELSE [draft EXCEPT !.from = NoMessage]
openSidebar ==
    /\ ~bar.open /\ Budget("bars", MaxPresses)
    /\ bar' = [bar EXCEPT !.open = TRUE]
    /\ UNCHANGED <<draft, sending, produced>>
openSidebarWithMessage(m) ==
    /\ Budget("bars", MaxPresses)
    /\ bar' = [open |-> TRUE, data |-> m]
    /\ draft' = Remounted(m)
    /\ UNCHANGED <<sending, produced>>
handleCloseSidebar ==
    /\ bar.open
    /\ bar' = [open |-> FALSE, data |-> NoMessage]
    /\ draft' = Remounted(NoMessage)
    /\ UNCHANGED <<sending, produced, produceSpent>>

---------------------------------------------------------------------------
\* The fields.  Only the editors are read-only while the form is submitting.
isSubmittingForm == \E r \in sending : r.form = draft.id
Edit(filled, for) ==
    /\ bar.open /\ Budget("edits", MaxEdits)
    /\ draft' = [draft EXCEPT !.fields = filled, !.for = for, !.from = NoMessage]
    /\ UNCHANGED <<bar, sending, produced>>
BugReadOnly == FALSE
readOnly == isSubmittingForm
TypeText(s, t) ==
    ~readOnly /\ Edit([draft.fields EXCEPT !.text[s] = t], draft.for)
TypeHeaders(h) ==
    ~readOnly /\ Edit([draft.fields EXCEPT !.headers = h], draft.for)
ChoosePartition(p) == Edit([draft.fields EXCEPT !.partition = p], draft.for)
\* The effect on a changed serde drops the parameters chosen for the old one.
BugPrevSerde(params, s) == params
prevSerde(params, s) == [params EXCEPT ![s] = "none"]
ChooseSerde(s, serde) ==
    /\ serde # draft.fields.serde[s]
    /\ Edit([draft.fields EXCEPT !.serde[s] = serde,
                                 !.params = prevSerde(@, s)], draft.for)
renderParameters(s, p) ==
    Edit([draft.fields EXCEPT !.params[s] = p],
         [draft.for EXCEPT ![s] = draft.fields.serde[s]])
KeepContents ==
    /\ bar.open /\ Budget("edits", MaxEdits)
    /\ draft' = [draft EXCEPT !.keep = ~@]
    /\ UNCHANGED <<bar, sending, produced>>

---------------------------------------------------------------------------
\* Submitting: texts are checked against the schema of their serde, headers
\* must be JSON; the request is what the form holds at that moment.
validateBySchema(s) ==
    LET f == draft.fields
    IN f.serde[s] \in HasSchema /\ f.text[s] # "none" => f.text[s] \notin Invalid
submit ==
    /\ bar.open /\ ~isSubmittingForm
    /\ \A s \in Sides : validateBySchema(s)
    /\ draft.fields.headers # "wrong"
    /\ Budget("presses", MaxPresses)
    /\ sending' = sending \cup
                  {[form |-> draft.id, fields |-> draft.fields,
                    keep |-> draft.keep, for |-> draft.for, from |-> draft.from,
                    nr |-> produceSpent.presses]}
    /\ UNCHANGED <<bar, draft, produced>>

\* Success: unless the contents are kept, the texts go back to the samples
\* and the side bar closes, whoever opened it since.
Wiped(r) ==
    IF r.form = draft.id
    THEN [draft EXCEPT !.fields.text = getDefaultValues, !.from = NoMessage]
    ELSE draft
Sent(r) ==
    /\ r \in sending /\ sending' = sending \ {r}
    /\ produced' = Append(produced, [fields |-> r.fields, for |-> r.for,
                                     from |-> r.from])
    /\ IF r.keep THEN UNCHANGED <<bar, draft>>
       ELSE bar' = [bar EXCEPT !.open = FALSE] /\ draft' = Wiped(r)
    /\ UNCHANGED produceSpent
SendFails(r) ==
    /\ r \in sending /\ sending' = sending \ {r}
    /\ Budget("faults", ProduceFaults)
    /\ UNCHANGED <<bar, draft, produced>>

ProduceNext ==
    \/ openSidebar \/ handleCloseSidebar \/ submit \/ KeepContents
    \/ \E m \in Messages : openSidebarWithMessage(m)
    \/ \E s \in Sides : \/ \E t \in TextsTyped \cup {"none"} : TypeText(s, t)
                        \/ \E x \in Serdes : ChooseSerde(s, x)
                        \/ \E p \in Subjects : renderParameters(s, p)
    \/ \E h \in {"none", "h", "wrong"} : TypeHeaders(h)
    \/ \E p \in {0, 1} : ChoosePartition(p)
    \/ \E r \in sending : Sent(r) \/ SendFails(r)
ProduceSpec == ProduceInit /\ [][ProduceNext]_produceVars

---------------------------------------------------------------------------
\* The values the form's state may have.
ProduceTypeOK ==
    /\ bar.open \in BOOLEAN /\ bar.data \in Messages \cup {NoMessage}
    /\ draft.fields.serde \in [Sides -> Serdes]
    /\ draft.fields.params \in [Sides -> Subjects \cup {"none"}]
    /\ draft.fields.text \in [Sides -> TextsTyped \cup {"none", Generated}]
    /\ \A r \in sending : r.form <= draft.id

\* A parameter goes out only with the serde it was chosen for, whatever order
\* serdes, parameters and messages to reproduce are chosen in
\* (SendMessage.tsx:102-116).
ParamsOfSerde ==
    \A i \in 1..Len(produced) : \A s \in Sides :
        produced[i].fields.params[s] # "none" =>
            produced[i].for[s] = produced[i].fields.serde[s]

\* A message reproduced without an edit arrives as it was: its value, its
\* headers, its partition, its serdes and their parameters, and its key if it
\* has one (useProduceMessage.ts, SendMessage.tsx:67-77).  A form that already
\* held a message does not take over another one; from is empty then.
Reproduced ==
    \A i \in 1..Len(produced) :
        LET p == produced[i].fields  m == produced[i].from
        IN m # NoMessage =>
             /\ p.text["value"] = m.text["value"]
             /\ m.text["key"] \in {"none", p.text["key"]}
             /\ <<p.serde, p.params, p.headers, p.partition>> =
                <<m.serde, m.params, m.headers, m.partition>>

\* An answer takes no text from the user but the one that has been produced:
\* what was typed meanwhile, and what failed to be sent, stays.
NothingWiped ==
    [][\A s \in Sides :
          /\ sending' # sending /\ draft'.id = draft.id
          /\ draft'.fields.text[s] # draft.fields.text[s]
          => /\ Len(produced') > Len(produced)
             /\ produced'[Len(produced')].fields.text[s] = draft.fields.text[s]
      ]_produceVars

\* What goes out is what the form or the reproduced message holds, and
\* answers take nothing from the user: the parts above together.
ProduceSafe ==
    [](ProduceTypeOK /\ ParamsOfSerde /\ Reproduced) /\ NothingWiped
=============================================================================
