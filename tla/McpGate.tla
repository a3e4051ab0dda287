------------------------------ MODULE McpGate ------------------------------
(***************************************************************************)
(* Who may act through MCP: the settings dialog of the desktop window, the *)
(* settings service with its lock, the policy file it saves, and the MCP   *)
(* process that an AI client starts, which asks the file before every tool *)
(* call.  Other callers of the local settings API make the same requests   *)
(* without the dialog.  How a client's own configuration is written is the *)
(* subject of ClientConfig; here it is one step that succeeds or fails.    *)
(***************************************************************************)
EXTENDS Integers, FiniteSets

CONSTANTS
    Clusters, ReadOnly,  \* the clusters, and those configured read-only
    Bodies,              \* updates that other callers of the API send
    Clients,             \* the AI clients that can be configured
    MaxClicks,           \* requests made in one behaviour
    MaxCalls,            \* tool calls in one behaviour
    MaxFaults            \* failures in one behaviour

ASSUME McpGateBounds ==
    /\ ReadOnly \subseteq Clusters
    /\ {MaxClicks, MaxCalls, MaxFaults} \subseteq Nat

VARIABLES
    file,              \* the policy file, and whether it is complete
    mutex,             \* the request that holds transitionMu, 0 for none
    requests,          \* requests not answered yet
    entry,             \* the MCP entry in each client's configuration
    window,            \* the settings dialog
    server,            \* the MCP process
    call,              \* its tool call
    clicks, calls, faults,      \* bounded counters
    revoked,           \* write access was taken back and not given since
    last               \* the last request of the dialog that was carried out

vars == <<file, mutex, requests, entry, window, server, call,
          clicks, calls, faults, revoked, last>>

---------------------------------------------------------------------------
\* The policy and its file.
Policy(enabled, allowWrites) ==
    [enabled |-> enabled, allowWrites |-> allowWrites]
Default == Policy(FALSE, FALSE)
BugNormalize(p) == p
normalize(p) == Policy(p.enabled, p.enabled /\ p.allowWrites)
Load == normalize(file.policy)
Readable == file.whole

\* Save writes a temporary file first and then puts it in place.
BugWriteTemp(p) == file' = [whole |-> FALSE, policy |-> p]
WriteTemp(p) == UNCHANGED file
replaceFile(p) == file' = [whole |-> TRUE, policy |-> normalize(p)]

---------------------------------------------------------------------------
\* Requests.
Change(p, confirm) ==
    [kind |-> "update", policy |-> p, confirm |-> confirm, client |-> "",
     replace |-> FALSE]
Setup(c, replace) ==
    [kind |-> "configure", policy |-> Default, confirm |-> FALSE,
     client |-> c, replace |-> replace]
Policies == [enabled : BOOLEAN, allowWrites : BOOLEAN]
Body == {Change(p, confirm) : p \in Policies, confirm \in BOOLEAN}
        \cup {Setup(c, replace) : c \in Clients, replace \in BOOLEAN}
ASSUME McpGateBodies == Bodies \subseteq Body
Send(body, asked) ==
    /\ clicks < MaxClicks /\ clicks' = clicks + 1
    /\ requests' = requests \cup
           {[id |-> clicks', body |-> body, from |-> asked, phase |-> "sent"]}
Sent(phase) == {r \in requests : r.phase = phase}
Becomes(r, phase) ==
    requests' = (requests \ {r}) \cup {[r EXCEPT !.phase = phase]}

\* The service: Update and Configure hold the lock from the first read of the
\* policy to their end.
Lock(r) == mutex = 0 /\ mutex' = r.id
Unlock == mutex' = 0
Answered(r, ok) == Becomes(r, IF ok THEN "done" ELSE "failed")

BugUnconfirmed(r) == FALSE
Unconfirmed(r) ==
    /\ normalize(r.body.policy).allowWrites
    /\ ~Load.allowWrites /\ ~r.body.confirm
BugRefuseUpdate(r) ==
    /\ r \in Sent("sent") /\ r.body.kind = "update" /\ Lock(r)
    /\ ~Readable \/ Unconfirmed(r)
    /\ Answered(r, FALSE)
    /\ UNCHANGED <<file, entry, window, server, call, clicks, calls, faults,
                   revoked, last>>
RefuseUpdate(r) ==
    /\ r \in Sent("sent") /\ r.body.kind = "update" /\ mutex = 0
    /\ ~Readable \/ Unconfirmed(r)
    /\ Answered(r, FALSE)
    /\ UNCHANGED <<file, mutex, entry, window, server, call, clicks, calls,
                   faults, revoked, last>>
Update(r) ==
    /\ r \in Sent("sent") /\ r.body.kind = "update" /\ Lock(r)
    /\ Readable /\ ~Unconfirmed(r)
    /\ WriteTemp(normalize(r.body.policy))
    /\ Becomes(r, "saving")
    /\ UNCHANGED <<entry, window, server, call, clicks, calls, faults,
                   revoked, last>>
Save(r) ==
    /\ r \in Sent("saving")
    /\ replaceFile(r.body.policy) /\ Unlock /\ Answered(r, TRUE)
    /\ last' = IF r.from = "dialog" THEN r.id ELSE last
    /\ UNCHANGED <<entry, window, server, call, clicks, calls, faults, revoked>>
SaveFails(r) ==
    /\ r \in Sent("saving") /\ faults < MaxFaults /\ faults' = faults + 1
    /\ Unlock /\ Answered(r, FALSE)
    /\ UNCHANGED <<file, entry, window, server, call, clicks, calls, revoked,
                   last>>

BugConfigure(r) ==
    /\ r \in Sent("sent") /\ r.body.kind = "configure" /\ mutex = 0
    /\ Readable /\ Load.enabled
    /\ Becomes(r, "configuring")
    /\ UNCHANGED <<file, mutex, entry, window, server, call, clicks, calls,
                   faults, revoked, last>>
Configure(r) ==
    /\ r \in Sent("sent") /\ r.body.kind = "configure" /\ Lock(r)
    /\ Readable /\ Load.enabled
    /\ Becomes(r, "configuring")
    /\ UNCHANGED <<file, entry, window, server, call, clicks, calls, faults,
                   revoked, last>>
RefuseConfigure(r) ==
    /\ r \in Sent("sent") /\ r.body.kind = "configure" /\ mutex = 0
    /\ ~(Readable /\ Load.enabled)
    /\ Answered(r, FALSE)
    /\ UNCHANGED <<file, mutex, entry, window, server, call, clicks, calls,
                   faults, revoked, last>>
Configurable(r) ==
    entry[r.body.client] = "not_configured" \/ r.body.replace
WriteEntry(r) ==
    /\ r \in Sent("configuring") /\ Configurable(r)
    /\ entry' = [entry EXCEPT ![r.body.client] = "configured"]
    /\ Unlock /\ Answered(r, TRUE)
    /\ UNCHANGED <<file, window, server, call, clicks, calls, faults, revoked,
                   last>>
ConfigureFails(r) ==
    /\ r \in Sent("configuring")
    /\ \/ ~Configurable(r) /\ UNCHANGED faults
       \/ faults < MaxFaults /\ faults' = faults + 1
    /\ Unlock /\ Answered(r, FALSE)
    /\ UNCHANGED <<file, entry, window, server, call, clicks, calls, revoked,
                   last>>

\* The process that runs the service dies and is started again.
Crash ==
    /\ requests # {} /\ faults < MaxFaults /\ faults' = faults + 1
    /\ mutex' = 0
    /\ requests' = {[r EXCEPT !.phase = "failed"] : r \in requests}
    /\ UNCHANGED <<file, entry, window, server, call, clicks, calls, revoked,
                   last>>

---------------------------------------------------------------------------
\* The dialog: seen is the policy it shows; update and configure are the
\* requests it waits for, 0 for none; asking is the question on top of it.
Closed == [open |-> FALSE, seen |-> Default, known |-> FALSE, asking |-> "",
           update |-> 0, configure |-> 0, hasty |-> FALSE]
settings == window.seen
isPending == window.update # 0
Usable == window.open /\ window.known /\ window.asking = ""
Fetched(w) == IF Readable THEN [w EXCEPT !.seen = Load, !.known = TRUE] ELSE w

system == <<file, mutex, entry, server, call, calls, faults>>

OpenSettings ==
    /\ ~window.open
    /\ window' = Fetched([window EXCEPT !.open = TRUE])
    /\ UNCHANGED <<system, requests, clicks, revoked, last>>
\* Closing resets the mutations, so that a request still on its way no longer
\* counts as pending.
CloseSettings ==
    /\ window.open /\ window.asking = ""
    /\ window' = [window EXCEPT !.open = FALSE, !.update = 0, !.configure = 0,
                                !.hasty = @ \/ isPending]
    /\ UNCHANGED <<system, requests, clicks, revoked, last>>
Refocus ==
    /\ window.open /\ window' = Fetched(window) /\ window' # window
    /\ UNCHANGED <<system, requests, clicks, revoked, last>>

persistSettings(p, confirm) ==
    /\ Send(Change(p, confirm), "dialog")
    /\ window' = [window EXCEPT !.update = clicks']
    /\ UNCHANGED <<system, last>>
BugBlocked == FALSE
Blocked == isPending
toggleMCP ==
    /\ Usable /\ ~Blocked
    /\ persistSettings(Policy(~settings.enabled, FALSE), FALSE)
    /\ UNCHANGED revoked
toggleWrites ==
    /\ Usable /\ ~Blocked /\ settings.enabled
    /\ IF settings.allowWrites
       THEN persistSettings(Policy(TRUE, FALSE), FALSE)
       ELSE /\ window' = [window EXCEPT !.asking = "writes"]
            /\ UNCHANGED <<system, requests, clicks, last>>
    /\ UNCHANGED revoked
confirmWrites ==
    /\ window.open /\ window.asking = "writes" /\ ~isPending
    /\ persistSettings(Policy(TRUE, TRUE), TRUE)
    /\ revoked' = FALSE
closeConfirmation ==
    /\ \/ window.asking = "writes" /\ ~isPending
       \/ window.asking \in Clients /\ window.configure = 0
    /\ window' = [window EXCEPT !.asking = ""]
    /\ UNCHANGED <<system, requests, clicks, revoked, last>>

\* A client without an entry is configured at once; one with another entry is
\* replaced after a question.
submitClient(c, replace) ==
    /\ settings.enabled /\ window.configure = 0
    /\ Send(Setup(c, replace), "dialog")
    /\ window' = [window EXCEPT !.configure = clicks']
    /\ UNCHANGED <<system, revoked, last>>
ClientAction(c) ==
    /\ Usable
    /\ \/ entry[c] = "not_configured" /\ submitClient(c, FALSE)
       \/ /\ entry[c] = "configuration_conflict" /\ settings.enabled
          /\ window.configure = 0
          /\ window' = [window EXCEPT !.asking = c]
          /\ UNCHANGED <<system, requests, clicks, revoked, last>>
confirmReplacement(c) ==
    window.open /\ window.asking = c /\ submitClient(c, TRUE)

\* Another caller of the settings API.
Put(b) ==
    /\ Send(b, "api")
    /\ revoked' = (revoked /\ ~(b.policy.allowWrites /\ b.confirm))
    /\ UNCHANGED <<system, window, last>>

\* The caller gets its answer.  The dialog reads the settings again before
\* the request stops being pending; a failed one leaves what it shows.
Gives(r) == normalize(r.body.policy).allowWrites
Takes(r) == r.body.kind = "update" /\ ~Gives(r)
Receive(r) ==
    /\ r \in Sent("done") \cup Sent("failed")
    /\ requests' = requests \ {r}
    /\ revoked' = \/ revoked
                  \/ /\ r.phase = "done" /\ Takes(r) /\ ~Load.allowWrites
                     /\ ~\E x \in requests : Gives(x)
    /\ LET shown == IF r.phase = "done" THEN Fetched(window) ELSE window
       IN window' =
          IF r.from # "dialog" THEN window
          ELSE [shown EXCEPT
                  !.update = IF r.id = @ THEN 0 ELSE @,
                  !.configure = IF r.id = @ THEN 0 ELSE @,
                  !.asking = IF \/ @ = "writes" /\ r.body.confirm
                                \/ @ \in Clients /\ r.body.kind = "configure"
                             THEN "" ELSE @]
    /\ UNCHANGED <<system, clicks, last>>

---------------------------------------------------------------------------
\* The MCP process.
Down == [up |-> FALSE, allowWrites |-> FALSE]
Idle == [phase |-> "none", access |-> "read", cluster |-> ""]
web == <<file, mutex, requests, entry, window, clicks, faults, revoked, last>>

\* It does not start when MCP is disabled; the tools it offers are fixed.
runMCP ==
    /\ ~server.up /\ Readable /\ Load.enabled
    /\ server' = [up |-> TRUE, allowWrites |-> Load.allowWrites]
    /\ UNCHANGED <<web, call, calls>>
StopMCP ==
    /\ server.up /\ server' = Down /\ call' = Idle
    /\ UNCHANGED <<web, calls>>
VisibleCatalog == IF server.allowWrites THEN {"read", "write"} ELSE {"read"}

\* Every call is authorized against the file as it is now, first as a read,
\* then, its cluster known, as what it is.
BugPolicy == Policy(server.up, server.allowWrites)
policy == IF Readable THEN Load ELSE Default
authorize(access, cluster) ==
    /\ policy.enabled
    /\ access = "write" => policy.allowWrites /\ cluster \notin ReadOnly
ToolCall(access, cluster) ==
    /\ server.up /\ call.phase = "none" /\ access \in VisibleCatalog
    /\ calls < MaxCalls /\ calls' = calls + 1
    /\ authorize("read", "")
    /\ call' = [Idle EXCEPT !.phase = "resolving", !.access = access,
                            !.cluster = cluster]
    /\ UNCHANGED <<web, server>>
Authorize ==
    /\ call.phase = "resolving"
    /\ call' = IF authorize(call.access, call.cluster)
               THEN [call EXCEPT !.phase = "running"] ELSE Idle
    /\ UNCHANGED <<web, server, calls>>
Finish ==
    /\ call.phase = "running" /\ call' = Idle
    /\ UNCHANGED <<web, server, calls>>

---------------------------------------------------------------------------
Init ==
    /\ file = [whole |-> TRUE, policy |-> Default]
    /\ mutex = 0 /\ requests = {} /\ window = Closed
    /\ entry \in [Clients -> {"not_configured", "configuration_conflict"}]
    /\ server = Down /\ call = Idle
    /\ clicks = 0 /\ calls = 0 /\ faults = 0 /\ revoked = FALSE /\ last = 0

Service ==
    \E r \in requests :
        \/ Update(r) \/ RefuseUpdate(r) \/ Save(r)
        \/ Configure(r) \/ RefuseConfigure(r) \/ WriteEntry(r)
        \/ ConfigureFails(r) \/ Receive(r)
Dialog ==
    \/ OpenSettings \/ CloseSettings \/ Refocus
    \/ toggleMCP \/ toggleWrites \/ confirmWrites \/ closeConfirmation
    \/ \E c \in Clients : ClientAction(c) \/ confirmReplacement(c)
Process ==
    \/ runMCP \/ StopMCP \/ Authorize \/ Finish
    \/ ToolCall("read", "") \/ \E c \in Clusters : ToolCall("write", c)
Faulty == Crash \/ \E r \in requests : SaveFails(r)

Next == \/ Service \/ Dialog \/ Process \/ Faulty
        \/ \E b \in Bodies : Put(b)
Spec == Init /\ [][Next]_vars /\ WF_vars(Service)

---------------------------------------------------------------------------
\* Properties

\* Every variable keeps its type, and a policy on disk that allows writes is
\* enabled.
TypeOK ==
    /\ file \in [whole : BOOLEAN,
                 policy : [enabled : BOOLEAN, allowWrites : BOOLEAN]]
    /\ mutex \in 0..MaxClicks /\ last \in 0..MaxClicks
    /\ file.policy.allowWrites => file.policy.enabled
    /\ \A r \in requests : r.id \in 1..clicks
    /\ entry \in [Clients -> {"not_configured", "configuration_conflict",
                              "configured"}]
    /\ window.asking \in Clients \cup {"", "writes"}
    /\ {window.update, window.configure} \subseteq 0..clicks
    /\ call.access \in {"read", "write"}

\* mcpsettings.Service.Update: write access appears in the policy only by a
\* request that carries the confirmation, whatever the order of requests.
WritesConfirmed ==
    [][~Load.allowWrites /\ Load'.allowWrites =>
           \E r \in requests : r.phase = "saving" /\ r.body.confirm]_vars

\* Executor.authorize: once taking write access back has been answered, and
\* no request to give it is on its way, no tool call that writes is let
\* through, not even in an MCP process started before.
RevokedIsRefused ==
    [][call.phase = "resolving" /\ call'.phase = "running"
       /\ call.access = "write" => ~revoked /\ call.cluster \notin ReadOnly]_vars

\* Service.Configure: a client is only pointed at the MCP server while MCP is
\* enabled, although disabling it and configuring take several steps each.
ConfiguredWhileEnabled == [][entry' # entry => Load.enabled]_vars

\* SettingsModal: of two requests of the dialog the later one is carried out
\* last, so that the policy is what the user asked for last; unless the
\* dialog was closed while a request was pending, which forgets it.
LastClickWins ==
    [][last' # last /\ ~window.hasty => last' > last]_vars

\* Store.Save: whatever fails or crashes, and whenever it is read, the policy
\* file is complete.
FileWhole == Readable

\* The dialog never waits forever: a pending update comes to an end.
UpdateEnds == isPending ~> ~isPending

\* The policy is whole on disk, gains write access only when confirmed and
\* holds while a client is configured: the parts above together (Store.Save,
\* Service.Update, Service.Configure).
PolicyGuarded ==
    [](TypeOK /\ FileWhole) /\ WritesConfirmed /\ ConfiguredWhileEnabled

\* The settings dialog comes to rest on what was asked for last: the parts
\* above together (SettingsModal).
DialogSettles == LastClickWins /\ UpdateEnds
=============================================================================
