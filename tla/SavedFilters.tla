---------------------------- MODULE SavedFilters ----------------------------
(***************************************************************************)
(* Saved message filters: the store of named filters, what each topic      *)
(* remembers as its active filter, the address of the page, and the side   *)
(* bar that adds, edits, activates and deletes filters.  Saving asks the   *)
(* server first and goes on when it answers, whatever the user did in the  *)
(* meantime.  The id the server gives to a filter is a function of its     *)
(* code, so the two are one value here; of the other parameters in the     *)
(* address nothing is kept.                                                *)
(***************************************************************************)
EXTENDS Integers

CONSTANTS
    Topics,        \* topics whose messages are looked at
    Labels,        \* names of filters
    Codes,         \* filter codes
    MaxOpens, MaxRegisters, MaxFilterOps, FilterFaults

ASSUME SavedFiltersBounds ==
    /\ "none" \notin Labels \cup Codes /\ Labels # {} /\ Topics # {}
    /\ {MaxOpens, MaxRegisters, MaxFilterOps, FilterFaults} \subseteq Nat

VARIABLES
    saved,         \* the store: name |-> code
    fields,        \* per topic, the filter that local storage remembers
    place,         \* the address: topic, active filter and its code
    sideBar,       \* the side bar: what it is open for, and its form
    registers,     \* registrations not answered yet
    left,          \* ghost: topics that an edit or removal left behind
    cleared,       \* ghost: "Clear all" was used under the present address
    filterSpent    \* bounded counters

filterVars ==
    <<saved, fields, place, sideBar, registers, left, cleared, filterSpent>>

None == [active |-> "none", code |-> "none"]
At(t, pair) == [topic |-> t, active |-> pair.active, code |-> pair.code]
Closed == "closed"
ADD_FILTER_ID == "add"
Pay(counter, bound) ==
    /\ filterSpent[counter] < bound
    /\ filterSpent' = [filterSpent EXCEPT ![counter] = @ + 1]
Operate == Pay("ops", MaxFilterOps)

FiltersInit ==
    /\ saved = <<>> /\ fields = [t \in Topics |-> None]
    /\ \E t \in Topics : place = At(t, None)
    /\ sideBar = [for |-> Closed, form |-> 0]
    /\ registers = {} /\ left = {} /\ cleared = FALSE
    /\ filterSpent = [opens |-> 0, registers |-> 0, ops |-> 0, faults |-> 0]

---------------------------------------------------------------------------
\* The store.
put(store, label, code) ==
    [n \in DOMAIN store \cup {label} |->
        IF n = label THEN code ELSE store[n]]
drop(store, label) == [n \in DOMAIN store \ {label} |-> store[n]]
replace(store, old, label, code) == put(drop(store, old), label, code)
PointingAt(label) == {t \in Topics : fields[t].active = label}

\* Local storage: what is written is stored at once and read back by the next
\* page that asks.
setStoredValue(value) == fields' = value
getStorageValue(t) == fields[t]

\* setSmartFilter: the address and the stored fields of the topic it was made
\* for.  The address goes back to that topic's page.
BugSetFilter(topic, pair) ==
    /\ place' = At(topic, pair)
    /\ cleared' = FALSE /\ UNCHANGED fields
SetFilter(topic, pair) ==
    /\ place' = At(topic, pair)
    /\ setStoredValue([fields EXCEPT ![topic] = pair])
    /\ cleared' = FALSE
BugUnset == [active |-> "none", code |-> place.code]
Unset == None

---------------------------------------------------------------------------
\* The page: coming to a topic by a link restores what is stored, and loading
\* an address stores what it says.
Visit(t) ==
    /\ t # place.topic /\ Operate
    /\ place' = At(t, getStorageValue(t))
    /\ sideBar' = [sideBar EXCEPT !.for = Closed] /\ cleared' = FALSE
    /\ UNCHANGED <<saved, fields, registers, left>>
Reload ==
    /\ Operate
    /\ setStoredValue([fields EXCEPT ![place.topic] =
                          [active |-> place.active, code |-> place.code]])
    /\ left' = IF cleared THEN left \cup {place.topic} ELSE left
    /\ sideBar' = [sideBar EXCEPT !.for = Closed]
    /\ registers' = {} /\ cleared' = FALSE
    /\ UNCHANGED <<saved, place>>

\* The side bar.
setFilterName(target) ==
    /\ sideBar.for # target /\ target \in {ADD_FILTER_ID} \cup DOMAIN saved
    /\ target # ADD_FILTER_ID =>
          \/ sideBar.for = ADD_FILTER_ID
          \/ sideBar.for = Closed /\ place.active = target
    /\ Pay("opens", MaxOpens)
    /\ sideBar' = [for |-> target, form |-> filterSpent'.opens]
    /\ UNCHANGED <<saved, fields, place, registers, left, cleared>>
closeSideBar ==
    /\ sideBar.for # Closed /\ sideBar' = [sideBar EXCEPT !.for = Closed]
    /\ UNCHANGED <<saved, fields, place, registers, left, cleared, filterSpent>>
isSubmitting == \E r \in registers : r.form = sideBar.form

activateFilter(label) ==
    /\ sideBar.for = ADD_FILTER_ID /\ label \in DOMAIN saved /\ Operate
    /\ SetFilter(place.topic, [active |-> label, code |-> saved[label]])
    /\ left' = left \ {place.topic}
    /\ sideBar' = [sideBar EXCEPT !.for = Closed]
    /\ UNCHANGED <<saved, registers>>
Deactivate ==
    /\ sideBar.for = Closed /\ place.active \in DOMAIN saved /\ Operate
    /\ SetFilter(place.topic, Unset)
    /\ left' = left \ {place.topic}
    /\ UNCHANGED <<saved, sideBar, registers>>
BugRemoveFilterIfActive(label) ==
    fields' = [fields EXCEPT ![place.topic] = None]
removeFilterIfActive(label) ==
    setStoredValue([t \in Topics |->
                       IF t \in PointingAt(label) \cup {place.topic} THEN None
                       ELSE fields[t]])
deleteFilterHandler(label) ==
    /\ sideBar.for = ADD_FILTER_ID /\ label \in DOMAIN saved /\ Operate
    /\ saved' = drop(saved, label)
    /\ place' = At(place.topic, Unset)
    /\ removeFilterIfActive(label)
    /\ left' = left \ (PointingAt(label) \cup {place.topic})
    /\ cleared' = FALSE
    /\ UNCHANGED <<sideBar, registers>>
clearAll ==
    /\ sideBar.for = ADD_FILTER_ID /\ DOMAIN saved # {} /\ Operate
    /\ saved' = <<>> /\ setStoredValue([t \in Topics |-> None])
    /\ left' = {} /\ cleared' = (place.active # "none")
    /\ UNCHANGED <<place, sideBar, registers>>

\* Submitting the form.  A given name may be the filter's own; a name taken
\* from the code must be new.
BugSubmitValidation(label, given, own) == TRUE
submitValidation(label, given, own) ==
    label \in DOMAIN saved => given /\ label = own
\* The code is sent with the form and the topic it was typed for.
registerFilter(label, code, own) ==
    [form |-> sideBar.form, topic |-> place.topic, own |-> own,
     active |-> own # "none" /\ place.active = own,
     label |-> label, code |-> code, free |-> label \notin DOMAIN saved]
onSubmitFilter(label, code, given) ==
    LET own == IF sideBar.for \in DOMAIN saved THEN sideBar.for ELSE "none"
    IN  /\ sideBar.for # Closed /\ ~isSubmitting
        /\ submitValidation(label, given, own)
        /\ Pay("registers", MaxRegisters)
        /\ registers' = registers \cup {registerFilter(label, code, own)}
        /\ UNCHANGED <<saved, fields, place, sideBar, left, cleared>>
\* The server has registered the code: save or replace the filter, activate a
\* new one or one that was active, close the side bar.
Registered(r) ==
    LET pair == [active |-> r.label, code |-> r.code]
        others == PointingAt(r.label) \cup IF r.own = "none" THEN {} ELSE PointingAt(r.own)
        activates == r.own = "none" \/ r.active
    IN  /\ r \in registers /\ registers' = registers \ {r}
        /\ saved' = replace(saved, r.own, r.label, r.code)
        /\ IF activates THEN SetFilter(r.topic, pair)
           ELSE UNCHANGED <<fields, place, cleared>>
        /\ left' = (left \cup others) \ IF activates THEN {r.topic} ELSE {}
        /\ sideBar' = [sideBar EXCEPT !.for = Closed]
        /\ UNCHANGED filterSpent
RegisterFails(r) ==
    /\ r \in registers /\ registers' = registers \ {r}
    /\ Pay("faults", FilterFaults)
    /\ UNCHANGED <<saved, fields, place, sideBar, left, cleared>>

FiltersNext ==
    \/ \E t \in Topics : Visit(t)
    \/ Reload \/ closeSideBar \/ Deactivate \/ clearAll
    \/ \E l \in Labels \cup {ADD_FILTER_ID} : setFilterName(l)
    \/ \E l \in Labels : activateFilter(l) \/ deleteFilterHandler(l)
    \/ \E l \in Labels, c \in Codes, given \in BOOLEAN :
          onSubmitFilter(l, c, given)
    \/ \E r \in registers : Registered(r) \/ RegisterFails(r)
FiltersSpec == FiltersInit /\ [][FiltersNext]_filterVars

---------------------------------------------------------------------------
\* What the parts of the state can be.  The name of the active filter and its
\* code come and go together.
FiltersTypeOK ==
    LET Pair(p) == /\ p.active \in Labels \cup {"none"} /\ p.code \in Codes \cup {"none"}
                   /\ p.active = "none" <=> p.code = "none"
    IN  /\ DOMAIN saved \subseteq Labels
        /\ \A l \in DOMAIN saved : saved[l] \in Codes
        /\ DOMAIN fields = Topics /\ \A t \in Topics : Pair(fields[t])
        /\ place.topic \in Topics /\ Pair(place)
        /\ sideBar.for \in Labels \cup {Closed, ADD_FILTER_ID}
        /\ left \subseteq Topics /\ cleared \in BOOLEAN

\* A saved filter changes only when it is edited, or when a filter of the same
\* name was submitted before it existed: the form checks the name and then
\* waits for the server.
NothingOverwritten ==
    [][\A l \in DOMAIN saved :
          l \in DOMAIN saved' /\ saved'[l] # saved[l] =>
              \E r \in registers : r.label = l /\ (r.own = l \/ r.free)]_filterVars

\* What a topic remembers as its active filter is a saved filter with its
\* present code, unless the filter was edited from elsewhere, or the address
\* brought back a filter that "Clear all" had removed.
RememberedIsCurrent ==
    \A t \in Topics \ left :
        fields[t].active = "none" \/
        /\ fields[t].active \in DOMAIN saved
        /\ fields[t].code = saved[fields[t].active]

\* The filter that the address applies is the one that the topic remembers,
\* except that "Clear all" forgets it and leaves the address alone.
AppliedIsRemembered ==
    cleared \/ [active |-> place.active, code |-> place.code]
                   = fields[place.topic]

\* The store, local storage and the address agree about filters and no save
\* overwrites one unasked: the parts above together (AddEditFilter,
\* useMessageFiltersStore).
FiltersSafe ==
    [](FiltersTypeOK /\ RememberedIsCurrent /\ AppliedIsRemembered)
    /\ NothingOverwritten
=============================================================================
