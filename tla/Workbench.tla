----------------------------- MODULE Workbench -----------------------------
(***************************************************************************)
(* Six parts of the application that keep working state of their own: the *)
(* KSQL page, the topic form, the saved message filters, the side bar that *)
(* produces messages, the desktop updater and the frame around the pages.  *)
(* They share neither components nor stored state, so a behaviour is that  *)
(* of the part the user works with; the others rest.                       *)
(***************************************************************************)
EXTENDS Ksql, TopicForm, SavedFilters, Produce, Updater, Shell

VARIABLE page

workbenchVars ==
    <<page, ksqlVars, topicVars, filterVars, produceVars, updateVars,
      shellVars>>

Init ==
    /\ page \in {"ksql", "topic", "filters", "produce", "updates", "shell"}
    /\ KsqlInit /\ TopicInit /\ FiltersInit /\ ProduceInit /\ UpdateInit
    /\ ShellInit
    /\ page # "topic" => form.mode = "new"
    /\ page # "filters" => place.topic = CHOOSE t \in Topics : TRUE
    /\ page # "shell" => /\ at = Home /\ isLarge /\ dynamic
                         /\ folds = [c \in ClusterNames |-> "unset"]

OnKsql(A) ==
    page = "ksql" /\ A
    /\ UNCHANGED <<page, topicVars, filterVars, produceVars, updateVars,
                   shellVars>>
OnTopic(A) ==
    page = "topic" /\ A
    /\ UNCHANGED <<page, ksqlVars, filterVars, produceVars, updateVars,
                   shellVars>>
OnFilters(A) ==
    page = "filters" /\ A
    /\ UNCHANGED <<page, ksqlVars, topicVars, produceVars, updateVars,
                   shellVars>>
OnProduce(A) ==
    page = "produce" /\ A
    /\ UNCHANGED <<page, ksqlVars, topicVars, filterVars, updateVars,
                   shellVars>>
OnUpdates(A) ==
    page = "updates" /\ A
    /\ UNCHANGED <<page, ksqlVars, topicVars, filterVars, produceVars,
                   shellVars>>
OnShell(A) ==
    page = "shell" /\ A
    /\ UNCHANGED <<page, ksqlVars, topicVars, filterVars, produceVars,
                   updateVars>>
Next ==
    \/ OnKsql(KsqlNext) \/ OnTopic(TopicNext) \/ OnFilters(FiltersNext)
    \/ OnProduce(ProduceNext) \/ OnUpdates(UpdateNext)
    \/ OnShell(ShellNext)

\* The server answers what it was asked and notices who has gone, the page
\* takes what arrives, the updater's thread and the launch go on, and React
\* runs the effects of a render; users need not do anything.
Fairness ==
    /\ WF_workbenchVars(OnKsql(KsqlProgress))
    /\ WF_workbenchVars(OnUpdates(UpdateProgress))
    /\ WF_workbenchVars(OnShell(Commit))
Spec == Init /\ [][Next]_workbenchVars /\ Fairness

---------------------------------------------------------------------------
\* The effects of the frame never set each other off for ever: the side bar,
\* the reminder and the redirections come to rest (PageContainer.tsx:44-60,
\* useAllClustersReminder.ts:50-106, ClusterPage.tsx:147-150).
FrameSettles == []<>(page = "shell" => Rested)

\* What was started ends: the server stops a query whose reader is gone, the
\* updater leaves its busy phases, an open update section comes to show the
\* updater's state and the frame comes to rest (ksql.go:118-160, worker.rs,
\* desktopUpdates.ts, PageContainer.tsx).
AllSettles ==
    NothingLeftRunning /\ NeverStuck /\ StatusArrives /\ FrameSettles
=============================================================================
