------------------------------ MODULE McpProofs ----------------------------
(***************************************************************************)
(* The MCP settings service and the gate before every tool call keep what  *)
(* the settings promise, for any clusters, clients, callers, failures and  *)
(* any number of requests: write access is only gained by a confirmed      *)
(* request, a client is only configured while MCP is enabled, and a tool   *)
(* call that writes never passes once the access was taken back.           *)
(* The automatic configuration of a client loses no edit of the file it    *)
(* shares with others, asks for help only when it met somebody else's edit *)
(* or was cut while it kept its books, and leaves nothing behind when it   *)
(* says that it has succeeded: for any number of edits and crashes.        *)
(***************************************************************************)
EXTENDS McpGate, ClientConfig, TLAPS

Phases == {"sent", "saving", "configuring", "done", "failed"}
Request == [id : 1..clicks, body : Body, from : {"dialog", "api"}, phase : Phases]

Window == [open : BOOLEAN, seen : Policies, known : BOOLEAN,
           asking : Clients \cup {"", "writes"},
           update : 0..clicks, configure : 0..clicks, hasty : BOOLEAN]

Call == [phase : {"none", "resolving", "running"},
         access : {"read", "write"}, cluster : Clusters \cup {""}]

\* What the variables hold beyond TypeOK.
Shape ==
    /\ TypeOK
    /\ file.whole
    /\ clicks \in 0..MaxClicks
    /\ requests \subseteq Request
    /\ window \in Window
    /\ call \in Call
    /\ last \in 0..clicks
    /\ revoked \in BOOLEAN

\* A request is known by its id.
IdsDistinct == \A r, x \in requests : r.id = x.id => r = x

\* A request that is being carried out has transitionMu, and what was checked when
\* it took the lock still holds: the confirmation of a save, and that MCP is
\* enabled for a configuration.
HolderChecked ==
    \A r \in requests :
        /\ r.phase = "saving" =>
             mutex = r.id /\ r.body.kind = "update" /\ ~Unconfirmed(r)
        /\ r.phase = "configuring" =>
             mutex = r.id /\ Load.enabled /\ r.body.client \in Clients

\* While write access is revoked the policy has none, and no request on its way
\* can give it.
RevokedHolds ==
    revoked => /\ ~Load.allowWrites
               /\ \A r \in requests : Gives(r) => ~r.body.confirm

\* The dialog waits for its only update, unless it was closed meanwhile; one that
\* is not carried out yet is later than the last that was.
OneUpdate ==
    ~window.hasty =>
        \A r \in requests : r.from = "dialog" /\ r.body.kind = "update" =>
            /\ r.id = window.update
            /\ r.phase \in {"sent", "saving"} => last < r.id

\* The inductive invariant.
IInv == Shape /\ IdsDistinct /\ HolderChecked /\ RevokedHolds /\ OneUpdate

----------------------------------------------------------------------------
(* Requests *)

LEMMA BodyType ==
    \A b \in Body : /\ b.kind \in {"update", "configure"}
                    /\ b.policy \in Policies /\ b.confirm \in BOOLEAN
                    /\ b.kind = "configure" =>
                         b.client \in Clients /\ ~normalize(b.policy).allowWrites
<1> SUFFICES ASSUME NEW b \in Body
             PROVE  /\ b.kind \in {"update", "configure"}
                    /\ b.policy \in Policies /\ b.confirm \in BOOLEAN
                    /\ b.kind = "configure" =>
                         b.client \in Clients /\ ~normalize(b.policy).allowWrites
  OBVIOUS
<1>1. CASE b \in {Change(p, confirm) : p \in Policies, confirm \in BOOLEAN}
  <2>1. PICK p \in Policies, confirm \in BOOLEAN : b = Change(p, confirm)
    BY <1>1
  <2> QED
    BY <2>1 DEF Change
<1>2. CASE b \in {Setup(c, replace) : c \in Clients, replace \in BOOLEAN}
  <2>1. PICK c \in Clients, replace \in BOOLEAN : b = Setup(c, replace)
    BY <1>2
  <2>2. Default \in Policies /\ ~normalize(Default).allowWrites
    BY DEF Default, Policies, Policy, normalize
  <2> QED
    BY <2>1, <2>2 DEF Setup
<1> QED
  BY <1>1, <1>2 DEF Body

LEMMA LoadType == ASSUME Shape PROVE Load \in Policies
BY DEF Shape, TypeOK, Load, normalize, Policy, Policies

LEMMA FetchedType ==
    ASSUME Shape, NEW w, w \in Window
    PROVE  /\ Fetched(w) \in Window
           /\ Fetched(w).update = w.update /\ Fetched(w).hasty = w.hasty
           /\ Fetched(w).configure = w.configure /\ Fetched(w).asking = w.asking
BY LoadType DEF Fetched, Window

\* A request that moves on keeps its id and its body.
LEMMA BecomesKeeps ==
    ASSUME Shape, IdsDistinct, NEW r \in requests, NEW p \in Phases,
           Becomes(r, p), clicks' = clicks
    PROVE  /\ (requests \subseteq Request)' /\ IdsDistinct'
           /\ \A x \in requests' : \/ x \in requests /\ x.id # r.id
                                   \/ x = [r EXCEPT !.phase = p]
           /\ r \in Request
<1>1. r \in Request /\ [r EXCEPT !.phase = p] \in Request
  BY DEF Shape, Request
<1>2. \A x \in requests' : \/ x \in requests /\ x.id # r.id
                          \/ x = [r EXCEPT !.phase = p]
  BY DEF Becomes, IdsDistinct
<1>3. [r EXCEPT !.phase = p].id = r.id
  BY <1>1 DEF Request
<1>4. IdsDistinct'
  BY <1>2, <1>3 DEF IdsDistinct
<1>5. (requests \subseteq Request)'
  BY <1>1, <1>2 DEF Shape, Request
<1> QED
  BY <1>1, <1>2, <1>4, <1>5

\* A new request is later than all others.
LEMMA SendAdds ==
    ASSUME Shape, IdsDistinct, NEW b \in Body, NEW from \in {"dialog", "api"},
           Send(b, from)
    PROVE  /\ (requests \subseteq Request)' /\ IdsDistinct'
           /\ clicks' = clicks + 1 /\ clicks' \in 0..MaxClicks
           /\ \A x \in requests' :
                \/ x \in requests
                \/ x = [id |-> clicks', body |-> b, from |-> from, phase |-> "sent"]
<1>1. /\ clicks \in Nat /\ clicks' = clicks + 1 /\ clicks' \in 0..MaxClicks
      /\ 1..clicks \subseteq 1..clicks' /\ clicks' \in 1..clicks'
  <2>1. MaxClicks \in Nat
    BY McpGateBounds, Zenon
  <2>2. clicks \in 0..MaxClicks /\ clicks < MaxClicks /\ clicks' = clicks + 1
    BY Zenon DEF Send, Shape
  <2> QED
    BY <2>1, <2>2
<1>2. PICK new : new = [id |-> clicks', body |-> b, from |-> from, phase |-> "sent"]
  OBVIOUS
<1>3. requests' = requests \cup {new}
  BY <1>2 DEF Send
<1>4. new.id = clicks' /\ new \in Request'
  BY <1>1, <1>2 DEF Request, Phases
<1>5. \A x \in requests : x.id \in 1..clicks /\ x \in Request'
  BY <1>1 DEF Shape, Request
<1>6. IdsDistinct'
  BY <1>1, <1>3, <1>4, <1>5 DEF IdsDistinct
<1>7. (requests \subseteq Request)'
  BY <1>3, <1>4, <1>5
<1> QED
  BY <1>1, <1>2, <1>3, <1>6, <1>7

----------------------------------------------------------------------------
(* The steps *)

LEMMA InitStep == Init => IInv
<1> SUFFICES ASSUME Init PROVE IInv
  OBVIOUS
<1>0. MaxClicks \in Nat
  BY McpGateBounds, Zenon
<1>1. /\ clicks = 0 /\ window = Closed /\ requests = {} /\ call = Idle
      /\ file = [whole |-> TRUE, policy |-> Default]
  BY DEF Init
<1>2. Default \in Policies /\ ~Default.allowWrites
  BY DEF Default, Policy, Policies
<1>3. window \in Window
  <2>1. 0 \in 0..clicks /\ "" \in Clients \cup {"", "writes"}
    BY <1>1
  <2> QED
    BY <1>1, <1>2, <2>1 DEF Window, Closed
<1>4. window.update = 0 /\ window.configure = 0 /\ window.asking = ""
  BY <1>1 DEF Closed
<1>5. file \in [whole : BOOLEAN, policy : Policies] /\ file.whole
      /\ ~file.policy.allowWrites
  BY <1>1, <1>2
<1>6. call \in Call
  BY <1>1 DEF Idle, Call
<1>7. TypeOK
  <2>1. 0 \in 0..MaxClicks /\ 0 \in 0..clicks
    BY <1>0, <1>1
  <2>2. entry \in [Clients -> {"not_configured", "configuration_conflict",
                              "configured"}]
    BY DEF Init
  <2>3. mutex = 0 /\ last = 0
    BY DEF Init
  <2> QED
    BY <1>1, <1>4, <1>5, <1>6, <2>1, <2>2, <2>3 DEF TypeOK, Policies, Call
<1>8. Shape
  <2>1. clicks \in 0..MaxClicks /\ last \in 0..clicks
    BY <1>0, <1>1 DEF Init
  <2>2. revoked \in BOOLEAN
    BY Zenon DEF Init
  <2> QED
    BY <1>1, <1>3, <1>5, <1>6, <1>7, <2>1, <2>2 DEF Shape
<1>9. IdsDistinct /\ HolderChecked /\ RevokedHolds /\ OneUpdate
  BY DEF Init, IdsDistinct, HolderChecked, RevokedHolds, OneUpdate
<1> QED
  BY <1>8, <1>9 DEF IInv

\* Steps that leave the requests and the file alone.
LEMMA QuietStep ==
    ASSUME IInv, UNCHANGED <<file, mutex, requests, clicks, revoked, last>>,
           window' \in Window, entry' = entry, call' \in Call,
           ~window'.hasty => ~window.hasty /\ window'.update = window.update
    PROVE  IInv'
<1>1. TypeOK'
  BY DEF IInv, Shape, TypeOK, Window, Call
<1>2. Shape'
  BY <1>1 DEF IInv, Shape, Window, Request
<1>3. IdsDistinct' /\ HolderChecked' /\ RevokedHolds'
  BY DEF IInv, IdsDistinct, HolderChecked, RevokedHolds, Load, Unconfirmed
<1>4. OneUpdate'
  BY DEF IInv, OneUpdate
<1> QED
  BY <1>2, <1>3, <1>4 DEF IInv

LEMMA WindowStep ==
    ASSUME IInv, \/ OpenSettings \/ CloseSettings \/ Refocus \/ closeConfirmation
    PROVE  IInv'
<1>1. window \in Window /\ call \in Call
  BY DEF IInv, Shape, TypeOK
<1>2. UNCHANGED <<file, mutex, requests, clicks, revoked, last, entry, call>>
  BY DEF OpenSettings, CloseSettings, Refocus, closeConfirmation, system
<1>3. /\ window' \in Window
      /\ ~window'.hasty => ~window.hasty /\ window'.update = window.update
  <2>1. CASE OpenSettings
    <3>1. PICK w : w = [window EXCEPT !.open = TRUE]
      OBVIOUS
    <3>2. w \in Window /\ w.hasty = window.hasty /\ w.update = window.update
      BY <1>1, <3>1 DEF Window
    <3> QED
      BY <2>1, <3>1, <3>2, FetchedType DEF IInv, OpenSettings
  <2>2. CASE CloseSettings
    <3>1. PICK h \in BOOLEAN : h <=> window.hasty \/ isPending
      OBVIOUS
    <3>2. window' = [window EXCEPT !.open = FALSE, !.update = 0, !.configure = 0,
                                   !.hasty = h]
      BY <1>1, <2>2, <3>1, Zenon DEF CloseSettings, Window
    <3>3. ~h => ~window.hasty /\ window.update = 0
      BY <3>1 DEF isPending
    <3>4. 0 \in 0..clicks
      BY DEF IInv, Shape
    <3> QED
      BY <1>1, <3>2, <3>3, <3>4 DEF Window
  <2>3. CASE Refocus
    BY <1>1, <2>3, FetchedType DEF Refocus, IInv
  <2>4. CASE closeConfirmation
    BY <1>1, <2>4 DEF closeConfirmation, Window
  <2> QED
    BY <2>1, <2>2, <2>3, <2>4
<1> QED
  BY <1>1, <1>2, <1>3, QuietStep

LEMMA ProcessStep ==
    ASSUME IInv, Process
    PROVE  IInv'
<1>1. window \in Window /\ call \in Call
  BY DEF IInv, Shape, TypeOK
<1>2. UNCHANGED <<file, mutex, requests, clicks, revoked, last, entry, window>>
  BY DEF Process, runMCP, StopMCP, ToolCall, Authorize, Finish, web
<1>3. call' \in Call
  <2>1. Idle \in Call
    BY DEF Idle, Call
  <2>2. CASE runMCP \/ StopMCP \/ Authorize \/ Finish
    BY <1>1, <2>1, <2>2 DEF runMCP, StopMCP, Authorize, Finish, Call
  <2>3. ASSUME NEW access \in {"read", "write"}, NEW c \in Clusters \cup {""},
               ToolCall(access, c)
        PROVE  call' \in Call
    BY <2>3 DEF ToolCall, Idle, Call
  <2> QED
    BY <2>2, <2>3 DEF Process
<1>4. window' \in Window
  BY <1>1, <1>2 DEF Window
<1> QED
  BY <1>1, <1>2, <1>3, <1>4, QuietStep

\* A request that moves on, with the lock and the checks that go with it.
LEMMA MovesOn ==
    ASSUME IInv, NEW r \in requests, NEW p \in Phases, Becomes(r, p),
           UNCHANGED <<file, window, call, clicks, revoked, last>>,
           entry' \in [Clients -> {"not_configured", "configuration_conflict",
                                  "configured"}],
           mutex' \in 0..MaxClicks, mutex' = mutex \/ mutex = 0 \/ mutex = r.id,
           p # "sent",
           p = "saving" => /\ mutex' = r.id /\ r.body.kind = "update"
                           /\ ~Unconfirmed(r) /\ r.phase = "sent",
           p = "configuring" =>
             mutex' = r.id /\ Load.enabled /\ r.body.client \in Clients
    PROVE  IInv'
<1>1. /\ (requests \subseteq Request)' /\ IdsDistinct'
      /\ \A x \in requests' : \/ x \in requests /\ x.id # r.id
                              \/ x = [r EXCEPT !.phase = p]
      /\ r \in Request
  BY BecomesKeeps DEF IInv
<1>2. PICK y : y = [r EXCEPT !.phase = p]
  OBVIOUS
<1>3. y.id = r.id /\ y.body = r.body /\ y.phase = p /\ y.from = r.from
  BY <1>1, <1>2 DEF Request
<1>4. \A x \in requests' : (x \in requests /\ x.id # r.id) \/ x = y
  BY <1>1, <1>2
<1>5. \A x \in requests : x.id \in 1..clicks
  BY DEF IInv, Shape, Request
<1>6. r.id \in 1..clicks
  BY <1>1 DEF Request
<1>7. TypeOK'
  BY <1>4, <1>3, <1>5, <1>6 DEF IInv, Shape, TypeOK
<1>8. Shape'
  BY <1>1, <1>7 DEF IInv, Shape, Window, Call
<1>9. HolderChecked'
  <2> SUFFICES ASSUME NEW x \in requests'
               PROVE  /\ x.phase = "saving" =>
                           mutex' = x.id /\ x.body.kind = "update" /\ ~Unconfirmed(x)'
                      /\ x.phase = "configuring" =>
                           mutex' = x.id /\ Load.enabled' /\ x.body.client \in Clients
    BY DEF HolderChecked
  <2>1. Load' = Load /\ (Unconfirmed(x)' <=> Unconfirmed(x))
    BY DEF Load, Unconfirmed
  <2>2. CASE x \in requests /\ x.id # r.id
    <3>1. /\ x.phase = "saving" =>
               mutex = x.id /\ x.body.kind = "update" /\ ~Unconfirmed(x)
          /\ x.phase = "configuring" =>
               mutex = x.id /\ Load.enabled /\ x.body.client \in Clients
      BY <2>2 DEF IInv, HolderChecked
    <3>2. mutex = x.id => mutex' = mutex
      BY <1>5, <2>2
    <3> QED
      BY <2>1, <3>1, <3>2
  <2>3. CASE x = y
    <3>1. Unconfirmed(x) <=> Unconfirmed(r)
      BY <1>3, <2>3 DEF Unconfirmed
    <3> QED
      BY <1>3, <2>1, <2>3, <3>1
  <2> QED
    BY <1>4, <2>2, <2>3
<1>10. RevokedHolds'
  BY <1>3, <1>4 DEF IInv, RevokedHolds, Load, Gives
<1>11. OneUpdate'
  BY <1>3, <1>4 DEF IInv, OneUpdate
<1> QED
  BY <1>1, <1>8, <1>9, <1>10, <1>11 DEF IInv

\* Service.Update and Service.Configure take the lock and check, or refuse.
LEMMA AdmitStep ==
    ASSUME IInv, NEW r \in requests,
           \/ Update(r) \/ RefuseUpdate(r) \/ Configure(r) \/ RefuseConfigure(r)
    PROVE  IInv'
<1>1. /\ r.id \in 1..clicks /\ r.body \in Body /\ clicks \in 0..MaxClicks
      /\ mutex \in 0..MaxClicks
      /\ entry \in [Clients -> {"not_configured", "configuration_conflict",
                                "configured"}]
  BY DEF IInv, Shape, TypeOK, Request
<1>2. r.id \in 0..MaxClicks
  BY <1>1, McpGateBounds
<1>3. r.body.kind = "configure" => r.body.client \in Clients
  BY <1>1, BodyType
<1>4. {"saving", "configuring", "failed"} \subseteq Phases
  BY DEF Phases
<1>5. CASE Update(r)
  BY <1>1, <1>2, <1>4, <1>5, MovesOn DEF Update, Sent, Lock, WriteTemp
<1>6. CASE RefuseUpdate(r)
  BY <1>1, <1>4, <1>6, MovesOn DEF RefuseUpdate, Answered
<1>7. CASE Configure(r)
  BY <1>1, <1>2, <1>3, <1>4, <1>7, MovesOn DEF Configure, Sent, Lock
<1>8. CASE RefuseConfigure(r)
  BY <1>1, <1>4, <1>8, MovesOn DEF RefuseConfigure, Answered
<1> QED
  BY <1>5, <1>6, <1>7, <1>8

\* ... and answer when they are through, whether they succeeded or not.
LEMMA AnswerStep ==
    ASSUME IInv, NEW r \in requests,
           SaveFails(r) \/ WriteEntry(r) \/ ConfigureFails(r)
    PROVE  IInv'
<1>1. /\ entry \in [Clients -> {"not_configured", "configuration_conflict",
                                "configured"}]
      /\ clicks \in 0..MaxClicks
  BY DEF IInv, Shape, TypeOK
<1>2. mutex = r.id
  BY DEF SaveFails, WriteEntry, ConfigureFails, Sent, IInv, HolderChecked
<1>3. mutex' = 0 /\ 0 \in 0..MaxClicks
  <2>1. mutex' = 0
    BY DEF SaveFails, WriteEntry, ConfigureFails, Unlock
  <2>2. MaxClicks \in Nat
    BY McpGateBounds, Zenon
  <2> QED
    BY <2>1, <2>2
<1>4. {"done", "failed"} \subseteq Phases
  BY DEF Phases
<1>5. entry' \in [Clients -> {"not_configured", "configuration_conflict",
                             "configured"}]
  BY <1>1 DEF SaveFails, WriteEntry, ConfigureFails
<1>6. UNCHANGED <<file, window, call, clicks, revoked, last>>
  BY DEF SaveFails, WriteEntry, ConfigureFails
<1>7. Becomes(r, "done") \/ Becomes(r, "failed")
  BY DEF SaveFails, WriteEntry, ConfigureFails, Answered
<1> QED
  BY <1>2, <1>3, <1>4, <1>5, <1>6, <1>7, MovesOn

\* The new policy is in place: it gives write access only if r was confirmed or
\* there was write access before.
LEMMA SaveStep ==
    ASSUME IInv, NEW r \in requests, Save(r)
    PROVE  /\ IInv'
           /\ Load'.allowWrites => Load.allowWrites \/ r.body.confirm
           /\ last' # last /\ ~window.hasty => last' > last
<1>1. /\ r \in Request /\ r.phase = "saving" /\ mutex = r.id
      /\ r.body.kind = "update" /\ ~Unconfirmed(r)
  BY DEF Save, Sent, IInv, Shape, HolderChecked
<1>2. /\ r.id \in 1..clicks /\ r.body.policy \in Policies
      /\ clicks \in 0..MaxClicks /\ MaxClicks \in Nat
  <2>1. MaxClicks \in Nat
    BY McpGateBounds, Zenon
  <2> QED
    BY <1>1, <2>1, BodyType DEF Request, IInv, Shape
<1>3. /\ (requests \subseteq Request)' /\ IdsDistinct'
      /\ \A x \in requests' : \/ x \in requests /\ x.id # r.id
                              \/ x = [r EXCEPT !.phase = "done"]
  <2>1. "done" \in Phases /\ Becomes(r, "done") /\ clicks' = clicks
    BY DEF Phases, Save, Answered
  <2> QED
    BY <2>1, BecomesKeeps DEF IInv
<1>4. PICK y : y = [r EXCEPT !.phase = "done"]
  OBVIOUS
<1>5. y.id = r.id /\ y.body = r.body /\ y.phase = "done" /\ y.from = r.from
  BY <1>1, <1>4 DEF Request
<1>6. \A x \in requests' : (x \in requests /\ x.id # r.id) \/ x = y
  BY <1>3, <1>4
<1>7. PICK p \in Policies : p = normalize(r.body.policy)
  BY <1>2 DEF normalize, Policy, Policies
<1>8. /\ file' = [whole |-> TRUE, policy |-> p] /\ (p.allowWrites => p.enabled)
  BY <1>2, <1>7, Zenon DEF Save, replaceFile, normalize, Policy, Policies
<1>9. Load'.allowWrites <=> p.allowWrites
  BY <1>8 DEF Load, normalize, Policy, Policies
<1>10. p.allowWrites <=> Gives(r)
  BY <1>7 DEF Gives
<1>11. /\ last' = IF r.from = "dialog" THEN r.id ELSE last
       /\ mutex' = 0
       /\ UNCHANGED <<entry, window, call, clicks, revoked>>
  BY DEF Save, Unlock
<1>12. Gives(r) => Load.allowWrites \/ r.body.confirm
  BY <1>1 DEF Unconfirmed, Gives
<1>13. ~window.hasty /\ r.from = "dialog" => r.id = window.update /\ last < r.id
  BY <1>1 DEF IInv, OneUpdate
<1>14. last' \in 0..clicks' /\ last' \in 0..MaxClicks /\ mutex' \in 0..MaxClicks
  BY <1>2, <1>11 DEF IInv, Shape
<1>15. \A x \in requests' : x.id \in 1..clicks'
  BY <1>3 DEF Request
<1>16. file' \in [whole : BOOLEAN, policy : Policies] /\ file'.whole
       /\ (file'.policy.allowWrites => file'.policy.enabled)
  BY <1>8
<1>17. TypeOK'
  BY <1>11, <1>14, <1>15, <1>16 DEF IInv, Shape, TypeOK, Policies
<1>18. Shape'
  BY <1>3, <1>11, <1>14, <1>16, <1>17 DEF IInv, Shape, Window, Call
<1>19. HolderChecked'
  <2>1. \A x \in requests' : x.phase \notin {"saving", "configuring"}
    BY <1>1, <1>5, <1>6 DEF IInv, HolderChecked
  <2> QED
    BY <2>1 DEF HolderChecked
<1>20. RevokedHolds'
  BY <1>5, <1>6, <1>9, <1>10, <1>11, <1>12 DEF IInv, RevokedHolds, Gives
<1>21. OneUpdate'
  BY <1>1, <1>5, <1>6, <1>11 DEF IInv, OneUpdate
<1>22. IInv'
  BY <1>3, <1>18, <1>19, <1>20, <1>21 DEF IInv
<1>23. last' # last /\ ~window.hasty => last' > last
  BY <1>2, <1>11, <1>13 DEF IInv, Shape
<1> QED
  BY <1>9, <1>10, <1>12, <1>22, <1>23

\* The process that runs the service starts again: every request has failed.
LEMMA CrashStep ==
    ASSUME IInv, Crash
    PROVE  IInv'
<1>1. \A r \in requests : r \in Request
  BY DEF IInv, Shape
<1>2. \A x \in requests' : \E r \in requests :
          /\ x = [r EXCEPT !.phase = "failed"]
          /\ x \in Request /\ x.id = r.id /\ x.body = r.body /\ x.phase = "failed"
          /\ x.from = r.from
  BY <1>1 DEF Crash, Request, Phases
<1>3. UNCHANGED <<file, entry, window, call, clicks, revoked, last>> /\ mutex' = 0
  BY DEF Crash
<1>4. (requests \subseteq Request)'
  BY <1>2, <1>3 DEF Request
<1>5. IdsDistinct'
  BY <1>2 DEF IInv, IdsDistinct
<1>6. mutex' \in 0..MaxClicks
  <2>1. MaxClicks \in Nat
    BY McpGateBounds, Zenon
  <2> QED
    BY <1>3, <2>1
<1>7. TypeOK'
  BY <1>2, <1>3, <1>6 DEF IInv, Shape, TypeOK, Request
<1>8. Shape'
  BY <1>3, <1>4, <1>7 DEF IInv, Shape, Window, Call
<1>9. HolderChecked'
  BY <1>2 DEF HolderChecked
<1>10. RevokedHolds'
  BY <1>2, <1>3 DEF IInv, RevokedHolds, Load, Gives
<1>11. OneUpdate'
  BY <1>2, <1>3 DEF IInv, OneUpdate
<1> QED
  BY <1>5, <1>8, <1>9, <1>10, <1>11 DEF IInv

\* The caller has its answer.
LEMMA ReceiveStep ==
    ASSUME IInv, NEW r \in requests, Receive(r)
    PROVE  IInv'
<1>1. /\ requests' = requests \ {r}
      /\ UNCHANGED <<file, mutex, entry, call, clicks, last>>
  BY DEF Receive, system
<1>2. window' \in Window /\ (window'.hasty <=> window.hasty)
      /\ (window'.update = window.update \/ window.update = r.id)
  <2>1. CASE r.from # "dialog"
    BY <2>1 DEF Receive, IInv, Shape
  <2>2. CASE r.from = "dialog"
    <3>1. PICK w \in Window : /\ w = IF r.phase = "done" THEN Fetched(window) ELSE window
                              /\ w.hasty = window.hasty /\ w.update = window.update
      BY FetchedType DEF IInv, Shape
    <3>2. window' = [w EXCEPT
                       !.update = IF r.id = @ THEN 0 ELSE @,
                       !.configure = IF r.id = @ THEN 0 ELSE @,
                       !.asking = IF \/ @ = "writes" /\ r.body.confirm
                                     \/ @ \in Clients /\ r.body.kind = "configure"
                                  THEN "" ELSE @]
      BY <2>2, <3>1 DEF Receive
    <3>3. 0 \in 0..clicks
      BY DEF IInv, Shape
    <3> QED
      BY <3>1, <3>2, <3>3 DEF Window
  <2> QED
    BY <2>1, <2>2
<1>3. IdsDistinct'
  BY <1>1 DEF IInv, IdsDistinct
<1>4. TypeOK'
  BY <1>1, <1>2 DEF IInv, Shape, TypeOK, Window
<1>5. revoked' \in BOOLEAN /\ (requests \subseteq Request)'
  BY <1>1 DEF Receive, IInv, Shape, Request
<1>6. Shape'
  BY <1>1, <1>2, <1>4, <1>5 DEF IInv, Shape, Window, Call
<1>7. HolderChecked'
  BY <1>1 DEF IInv, HolderChecked, Load, Unconfirmed
<1>8. RevokedHolds'
  <2>1. revoked' => \/ revoked
                    \/ ~Load.allowWrites /\ \A x \in requests : ~Gives(x)
    BY DEF Receive
  <2> QED
    BY <1>1, <2>1 DEF IInv, RevokedHolds, Load, Gives
<1>9. OneUpdate'
  BY <1>1, <1>2 DEF IInv, OneUpdate, IdsDistinct
<1> QED
  BY <1>3, <1>6, <1>7, <1>8, <1>9 DEF IInv

\* A new request: an update of the dialog becomes the one it waits for, and only
\* a confirmed one that gives write access ends a revocation.
LEMMA SendStep ==
    ASSUME IInv, NEW b \in Body, NEW from \in {"dialog", "api"}, Send(b, from),
           UNCHANGED <<file, mutex, entry, call, last>>,
           window' \in Window', window'.hasty = window.hasty,
           IF from = "dialog" /\ b.kind = "update"
             THEN window.update = 0 /\ window'.update = clicks'
             ELSE window'.update = window.update,
           revoked' \in BOOLEAN,
           revoked' => revoked /\ (normalize(b.policy).allowWrites => ~b.confirm)
    PROVE  IInv'
<1>1. PICK new : new = [id |-> clicks', body |-> b, from |-> from, phase |-> "sent"]
  OBVIOUS
<1>2. /\ (requests \subseteq Request)' /\ IdsDistinct'
      /\ clicks' = clicks + 1 /\ clicks' \in 0..MaxClicks
      /\ \A x \in requests' : x \in requests \/ x = new
  BY <1>1, SendAdds DEF IInv
<1>3. /\ new.id = clicks' /\ new.body = b /\ new.from = from /\ new.phase = "sent"
  BY <1>1
<1>4. clicks \in Nat /\ last \in 0..clicks /\ last \in 0..clicks'
  BY <1>2 DEF IInv, Shape
<1>5. TypeOK'
  BY <1>2 DEF IInv, Shape, TypeOK, Request, Window
<1>6. Shape'
  BY <1>2, <1>4, <1>5 DEF IInv, Shape, Call
<1>7. HolderChecked'
  BY <1>2, <1>3 DEF IInv, HolderChecked, Load, Unconfirmed
<1>8. RevokedHolds'
  BY <1>2, <1>3 DEF IInv, RevokedHolds, Load, Gives
<1>9. OneUpdate'
  <2> SUFFICES ASSUME ~window.hasty, NEW x \in requests', x.from = "dialog",
                      x.body.kind = "update"
               PROVE  /\ x.id = window'.update
                      /\ x.phase \in {"sent", "saving"} => last < x.id
    BY DEF OneUpdate
  <2>1. CASE x = new
    BY <1>2, <1>3, <1>4, <2>1
  <2>2. CASE x \in requests
    <3>1. x.id = window.update /\ (x.phase \in {"sent", "saving"} => last < x.id)
      BY <2>2 DEF IInv, OneUpdate
    <3>2. x.id # 0
      BY <2>2 DEF IInv, Shape, Request
    <3> QED
      BY <3>1, <3>2
  <2> QED
    BY <1>2, <2>1, <2>2
<1> QED
  BY <1>2, <1>6, <1>7, <1>8, <1>9 DEF IInv

\* The window after a request of its own.
LEMMA WindowSends ==
    ASSUME IInv, clicks' = clicks + 1
    PROVE  /\ window \in Window'
           /\ LET w == [window EXCEPT !.update = clicks']
              IN w \in Window' /\ w.hasty = window.hasty /\ w.update = clicks'
           /\ LET w == [window EXCEPT !.configure = clicks']
              IN w \in Window' /\ w.hasty = window.hasty /\ w.update = window.update
<1>1. clicks \in Nat /\ 0..clicks \subseteq 0..clicks' /\ clicks' \in 0..clicks'
  BY DEF IInv, Shape
<1>2. window \in Window
  BY DEF IInv, Shape
<1>3. window \in Window'
  BY <1>1, <1>2 DEF Window
<1> QED
  BY <1>1, <1>2, <1>3 DEF Window

LEMMA PersistStep ==
    ASSUME IInv, NEW p \in Policies, NEW confirm \in BOOLEAN, window.update = 0,
           persistSettings(p, confirm), revoked' \in BOOLEAN,
           revoked' => revoked /\ (normalize(p).allowWrites => ~confirm)
    PROVE  IInv'
<1>1. PICK b \in Body : /\ b = Change(p, confirm) /\ b.kind = "update"
                        /\ b.policy = p /\ b.confirm = confirm
  <2>1. Change(p, confirm) \in Body
    BY DEF Body
  <2>2. /\ Change(p, confirm).kind = "update" /\ Change(p, confirm).policy = p
        /\ Change(p, confirm).confirm = confirm
    BY DEF Change
  <2> QED
    BY <2>1, <2>2
<1>2. Send(b, "dialog") /\ clicks' = clicks + 1
  BY <1>1 DEF persistSettings, Send
<1>3. window' = [window EXCEPT !.update = clicks']
  BY DEF persistSettings
<1>4. UNCHANGED <<file, mutex, entry, call, last>>
  BY DEF persistSettings, system
<1> QED
  BY <1>1, <1>2, <1>3, <1>4, WindowSends, SendStep

LEMMA SubmitClientStep ==
    ASSUME IInv, NEW c \in Clients, NEW replace \in BOOLEAN, submitClient(c, replace)
    PROVE  IInv'
<1>1. PICK b \in Body : b = Setup(c, replace) /\ b.kind = "configure"
  <2>1. Setup(c, replace) \in Body
    BY DEF Body
  <2>2. Setup(c, replace).kind = "configure"
    BY DEF Setup
  <2> QED
    BY <2>1, <2>2
<1>2. Send(b, "dialog") /\ clicks' = clicks + 1
  BY <1>1 DEF submitClient, Send
<1>3. window' = [window EXCEPT !.configure = clicks'] /\ revoked' = revoked
  BY DEF submitClient
<1>4. UNCHANGED <<file, mutex, entry, call, last>>
  BY DEF submitClient, system
<1>5. ~normalize(b.policy).allowWrites
  BY <1>1, BodyType
<1>6. revoked \in BOOLEAN
  BY DEF IInv, Shape
<1> QED
  BY <1>1, <1>2, <1>3, <1>4, <1>5, <1>6, WindowSends, SendStep

LEMMA PutStep ==
    ASSUME IInv, NEW b \in Bodies, Put(b)
    PROVE  IInv'
<1>1. b \in Body /\ b.policy \in Policies /\ b.confirm \in BOOLEAN
  BY McpGateBodies, BodyType
<1>2. Send(b, "api") /\ clicks' = clicks + 1
  BY DEF Put, Send
<1>3. UNCHANGED <<file, mutex, entry, call, last, window>>
  BY DEF Put, system
<1>4. /\ revoked' \in BOOLEAN
      /\ revoked' => revoked /\ (normalize(b.policy).allowWrites => ~b.confirm)
  BY <1>1 DEF Put, IInv, Shape, normalize, Policy, Policies
<1> QED
  BY <1>1, <1>2, <1>3, <1>4, WindowSends, SendStep

\* The actions of the dialog.
LEMMA DialogStep ==
    ASSUME IInv, Dialog
    PROVE  IInv'
<1>1. window \in Window /\ revoked \in BOOLEAN
  BY DEF IInv, Shape
<1>2. ASSUME NEW w \in {"writes"} \cup Clients,
             window' = [window EXCEPT !.asking = w],
             UNCHANGED <<system, requests, clicks, revoked, last>>
      PROVE  IInv'
  <2>1. /\ window' \in Window /\ window'.hasty = window.hasty
        /\ window'.update = window.update
    BY <1>1, <1>2 DEF Window
  <2> QED
    BY <1>2, <2>1, QuietStep DEF system, IInv, Shape
<1>3. CASE toggleMCP
  <2>1. PICK p \in Policies : p = Policy(~settings.enabled, FALSE)
    BY <1>1 DEF Policy, Policies, settings, Window
  <2>2. ~normalize(p).allowWrites
    BY <2>1 DEF normalize, Policy
  <2> QED
    BY <1>1, <1>3, <2>1, <2>2, PersistStep DEF toggleMCP, Blocked, isPending
<1>4. CASE toggleWrites
  <2>1. CASE settings.allowWrites
    <3>1. PICK p \in Policies : p = Policy(TRUE, FALSE)
      BY DEF Policy, Policies
    <3>2. ~normalize(p).allowWrites
      BY <3>1 DEF normalize, Policy
    <3> QED
      BY <1>1, <1>4, <2>1, <3>1, <3>2, PersistStep DEF toggleWrites, Blocked, isPending
  <2>2. CASE ~settings.allowWrites
    BY <1>2, <1>4, <2>2 DEF toggleWrites
  <2> QED
    BY <2>1, <2>2
<1>5. CASE confirmWrites
  <2>1. PICK p \in Policies : p = Policy(TRUE, TRUE)
    BY DEF Policy, Policies
  <2> QED
    BY <1>5, <2>1, PersistStep DEF confirmWrites, isPending
<1>6. ASSUME NEW c \in Clients, ClientAction(c)
      PROVE  IInv'
  BY <1>2, <1>6, SubmitClientStep DEF ClientAction
<1>7. ASSUME NEW c \in Clients, confirmReplacement(c)
      PROVE  IInv'
  BY <1>7, SubmitClientStep DEF confirmReplacement
<1> QED
  BY <1>3, <1>4, <1>5, <1>6, <1>7, WindowStep DEF Dialog

----------------------------------------------------------------------------
(* The invariant and what follows from it *)

LEMMA NextStep == IInv /\ [Next]_vars => IInv'
<1> SUFFICES ASSUME IInv, [Next]_vars PROVE IInv'
  OBVIOUS
<1>1. ASSUME NEW r \in requests,
             \/ Update(r) \/ RefuseUpdate(r) \/ Save(r) \/ Configure(r)
             \/ RefuseConfigure(r) \/ WriteEntry(r) \/ ConfigureFails(r)
             \/ Receive(r) \/ SaveFails(r)
      PROVE  IInv'
  BY <1>1, AdmitStep, SaveStep, AnswerStep, ReceiveStep
<1>2. CASE UNCHANGED vars
  <2>1. call' \in Call /\ window' \in Window
    BY <1>2 DEF vars, IInv, Shape
  <2> QED
    BY <1>2, <2>1, QuietStep DEF vars
<1>3. CASE Dialog
  BY <1>3, DialogStep
<1>4. CASE Process
  BY <1>4, ProcessStep
<1>5. ASSUME NEW b \in Bodies, Put(b) PROVE IInv'
  BY <1>5, PutStep
<1>6. CASE Crash
  BY <1>6, CrashStep
<1> QED
  BY <1>1, <1>2, <1>3, <1>4, <1>5, <1>6 DEF Next, Service, Faulty

LEMMA Invariance == Spec => []IInv
BY InitStep, NextStep, PTL DEF Spec

\* Which step changes the policy, a client's configuration, or the last request
\* carried out.
LEMMA Changes ==
    ASSUME IInv, [Next]_vars
    PROVE  /\ file' # file \/ last' # last => \E r \in requests : Save(r)
           /\ entry' # entry => \E r \in requests : WriteEntry(r)
<1>1. CASE Service
  BY <1>1 DEF Service, Update, RefuseUpdate, Save, Configure, RefuseConfigure,
              WriteEntry, ConfigureFails, Receive, WriteTemp, system
<1>2. CASE Dialog
  <2>1. UNCHANGED <<file, entry, last>>
    BY <1>2 DEF Dialog, OpenSettings, CloseSettings, Refocus, toggleMCP,
                toggleWrites, confirmWrites, closeConfirmation, ClientAction,
                confirmReplacement, submitClient, persistSettings, system
  <2> QED
    BY <2>1
<1>3. CASE Process
  BY <1>3 DEF Process, runMCP, StopMCP, ToolCall, Authorize, Finish, web
<1>4. CASE Faulty
  BY <1>4 DEF Faulty, Crash, SaveFails
<1>5. CASE \E b \in Bodies : Put(b)
  BY <1>5 DEF Put, system
<1>6. CASE UNCHANGED vars
  BY <1>6 DEF vars
<1> QED
  BY <1>1, <1>2, <1>3, <1>4, <1>5, <1>6 DEF Next

\* The policy file is whole whenever it is read, whatever fails (Store.Save),
\* and keeps its type.
LEMMA FileIsWhole == Spec => [](TypeOK /\ FileWhole)
<1>1. IInv => TypeOK /\ FileWhole
  BY DEF IInv, Shape, FileWhole, Readable
<1> QED
  BY <1>1, Invariance, PTL

\* Write access appears in the policy only by a request that carries the
\* confirmation (Service.Update).
LEMMA WritesAreConfirmed == Spec => WritesConfirmed
<1>1. IInv /\ [Next]_vars =>
        [~Load.allowWrites /\ Load'.allowWrites =>
           \E r \in requests : r.phase = "saving" /\ r.body.confirm]_vars
  <2> SUFFICES ASSUME IInv, [Next]_vars, ~Load.allowWrites, Load'.allowWrites
               PROVE  \E r \in requests : r.phase = "saving" /\ r.body.confirm
    OBVIOUS
  <2>1. file' # file
    BY DEF Load
  <2>2. PICK r \in requests : Save(r)
    BY <2>1, Changes
  <2>3. r.phase = "saving" /\ r.body.confirm
    BY <2>2, SaveStep DEF Save, Sent
  <2> QED
    BY <2>3
<1> QED
  BY <1>1, Invariance, PTL DEF Spec, WritesConfirmed

\* A client is only pointed at the MCP server while MCP is enabled
\* (Service.Configure).
LEMMA IsConfiguredWhileEnabled == Spec => ConfiguredWhileEnabled
<1>1. IInv /\ [Next]_vars => [entry' # entry => Load.enabled]_vars
  <2> SUFFICES ASSUME IInv, [Next]_vars, entry' # entry
               PROVE  Load.enabled
    OBVIOUS
  <2>1. PICK r \in requests : WriteEntry(r)
    BY Changes
  <2> QED
    BY <2>1 DEF WriteEntry, Sent, IInv, HolderChecked
<1> QED
  BY <1>1, Invariance, PTL DEF Spec, ConfiguredWhileEnabled

\* The policy is whole on disk, gains write access only when confirmed and holds
\* while a client is configured, whatever the order of the requests, the
\* failures and the crashes.
THEOREM PolicyIsGuarded == Spec => PolicyGuarded
BY FileIsWhole, WritesAreConfirmed, IsConfiguredWhileEnabled DEF PolicyGuarded

\* Once taking write access back has been answered, and no request to give it is
\* on its way, no tool call that writes is let through, and none ever on a
\* read-only cluster (Executor.authorize).
THEOREM RevokedStaysRefused == Spec => RevokedIsRefused
<1>1. IInv /\ [Next]_vars =>
        [call.phase = "resolving" /\ call'.phase = "running"
         /\ call.access = "write" => ~revoked /\ call.cluster \notin ReadOnly]_vars
  <2> SUFFICES ASSUME IInv, [Next]_vars, call.phase = "resolving",
                      call'.phase = "running", call.access = "write"
               PROVE  ~revoked /\ call.cluster \notin ReadOnly
    OBVIOUS
  <2>1. call' # call
    OBVIOUS
  <2>2. Process
    <3>1. CASE Service
      BY <2>1, <3>1 DEF Service, Update, RefuseUpdate, Save, Configure,
                        RefuseConfigure, WriteEntry, ConfigureFails, Receive, system
    <3>2. CASE Dialog
      <4>1. call' = call
        BY <3>2 DEF Dialog, OpenSettings, CloseSettings, Refocus, toggleMCP,
                    toggleWrites, confirmWrites, closeConfirmation, ClientAction,
                    confirmReplacement, submitClient, persistSettings, system
      <4> QED
        BY <2>1, <4>1
    <3>3. CASE Faulty \/ \E b \in Bodies : Put(b)
      BY <2>1, <3>3 DEF Faulty, Crash, SaveFails, Put, system
    <3> QED
      BY <2>1, <3>1, <3>2, <3>3 DEF Next, vars
  <2>3. Authorize
    <3>1. CASE runMCP
      BY <2>1, <3>1 DEF runMCP
    <3>2. CASE StopMCP \/ Finish
      <4>1. call' = Idle
        BY <3>2 DEF StopMCP, Finish
      <4>2. Idle.phase = "none"
        BY DEF Idle
      <4> QED
        BY <4>1, <4>2
    <3>3. ASSUME NEW access, NEW c, ToolCall(access, c) PROVE FALSE
      BY <3>3 DEF ToolCall
    <3> QED
      BY <2>2, <3>1, <3>2, <3>3 DEF Process
  <2>4. authorize(call.access, call.cluster)
    BY <2>3 DEF Authorize, Idle
  <2>5. policy.allowWrites /\ call.cluster \notin ReadOnly
    BY <2>4 DEF authorize
  <2>6. Load.allowWrites
    BY <2>5 DEF policy, Readable, IInv, Shape
  <2> QED
    BY <2>5, <2>6 DEF IInv, RevokedHolds
<1> QED
  BY <1>1, Invariance, PTL DEF Spec, RevokedIsRefused

\* Of two updates of the dialog the later is carried out last, unless the dialog
\* was closed while one was pending (SettingsModal).
THEOREM LastClickDecides == Spec => LastClickWins
<1>1. IInv /\ [Next]_vars => [last' # last /\ ~window.hasty => last' > last]_vars
  BY Changes, SaveStep
<1> QED
  BY <1>1, Invariance, PTL DEF Spec, LastClickWins

----------------------------------------------------------------------------
(* The configuration of a client *)

Digests == [exists : BOOLEAN, edits : SUBSET (1..MaxEdits), server : BOOLEAN]
Journals == {NoJournal, Partial}
            \cup [kind : {"whole"}, baseline : Digests, staged : Digests]
Pcs == {"idle", "resolve", "clean_candidate", "clean_backup", "clean_journal",
        "capture", "inspect", "edit", "journal", "journal_write", "check",
        "exchange", "validate", "delete_backup", "delete_candidate",
        "delete_journal"}
Outcomes == {"none", "repair", "unread", "seen", "conflict", "error",
             "configured"}

Types ==
    /\ target \in File /\ backup \in File /\ candidate \in File /\ base \in File
    /\ journal \in Journals
    /\ pc \in Pcs /\ op \in {"status", "configure"} /\ outcome \in Outcomes
    /\ excuse \in BOOLEAN
    /\ edits \in 0..MaxEdits /\ crashes \in 0..MaxCrashes /\ inodes \in Nat

\* A file that does not exist has no server entry, and nobody includes an edit
\* that has not been made.
FilesOK ==
    /\ (target.server => target.exists) /\ (base.server => base.exists)
    /\ target.edits \subseteq 1..edits /\ base.edits \subseteq 1..edits

\* A whole journal is that of an edit of its baseline.
JournalOK ==
    journal.kind = "whole" =>
        /\ journal.staged.exists
        /\ journal.baseline.exists => journal.baseline.edits = journal.staged.edits

\* Where a transaction has its journal.
JournalStep ==
    /\ pc \in {"capture", "inspect", "edit", "journal"} => journal = NoJournal
    /\ pc = "journal_write" => journal = Partial
    /\ pc \in {"check", "exchange", "validate"} =>
          journal = Journal(Digest(base), Staged)
    /\ pc \in {"clean_candidate", "clean_backup", "clean_journal"} =>
          journal.kind = "whole"
    /\ pc \in {"delete_backup", "delete_candidate", "delete_journal"} =>
          journal.kind # "partial"

\* The target includes every edit.  Between the exchange and the end of its
\* validation, and for as long as a journal tells, the displaced file may have
\* those the target lacks; nothing is displaced where there was no baseline.
HasAll == target.edits = 1..edits
Spread ==
    /\ journal.kind = "whole" /\ journal.baseline.exists
    /\ candidate.exists /\ 1..edits \subseteq target.edits \cup candidate.edits
EditsKept ==
    /\ pc \in {"idle", "resolve", "validate"} => HasAll \/ Spread
    /\ pc \notin {"idle", "resolve", "validate"} => HasAll

\* What the candidate is until the exchange.
CandidateOK ==
    pc \in {"journal", "journal_write", "check", "exchange"} =>
        Digest(candidate) = Staged

\* A transaction that met nobody: the target is the captured one until the
\* exchange, and a journal that is left tells where it stopped.
Untouched ==
    ~excuse =>
        /\ pc \in {"inspect", "edit", "journal", "journal_write", "check",
                   "exchange"} =>
              target = base /\ (base.exists => Digest(backup) = Digest(base))
        /\ pc \in {"idle", "resolve", "clean_candidate", "validate",
                   "delete_backup"} /\ journal # NoJournal =>
              journal.kind = "whole" /\ Classify # "unknown"

\* Help is asked for at the end of a call.
OutcomeOK ==
    /\ outcome = "repair" => pc = "idle" /\ excuse
    /\ outcome = "configured" =>
          pc \in {"idle", "delete_backup", "delete_candidate", "delete_journal"}

ConfigureInv ==
    /\ Types /\ FilesOK /\ JournalOK /\ JournalStep /\ EditsKept /\ CandidateOK
    /\ Untouched /\ OutcomeOK

----------------------------------------------------------------------------
(* Files and journals *)

\* The digest of a file.
LEMMA DigestType == ASSUME NEW f \in File PROVE Digest(f) \in Digests
BY DEF Digest, Digests, File

\* The journals of a transaction are told apart by their kind.
LEMMA JournalKinds ==
    /\ NoJournal \in Journals /\ NoJournal.kind = "none"
    /\ Partial \in Journals /\ Partial.kind = "partial"
    /\ \A b, s \in Digests :
          /\ Journal(b, s) \in Journals /\ Journal(b, s).kind = "whole"
          /\ Journal(b, s).baseline = b /\ Journal(b, s).staged = s
    /\ \A j \in Journals :
          /\ j.kind \in {"none", "partial", "whole"}
          /\ j = NoJournal <=> j.kind = "none"
          /\ j = Partial <=> j.kind = "partial"
          /\ j.kind = "whole" => j.baseline \in Digests /\ j.staged \in Digests
<1>1. ASSUME NEW b \in Digests, NEW s \in Digests
      PROVE  Journal(b, s) \in [kind : {"whole"}, baseline : Digests, staged : Digests]
  BY DEF Journal
<1> QED
  BY <1>1 DEF Journals, NoJournal, Partial, Journal

\* What the journal of this transaction says.
LEMMA PlanTypes ==
    ASSUME Types
    PROVE  /\ Digest(base) \in Digests /\ Staged \in Digests
           /\ Staged.exists /\ Staged.edits = base.edits
           /\ Digest(base).exists = base.exists
           /\ base.exists => Digest(base).edits = base.edits
BY DigestType DEF Types, Staged, Digests, File, Digest

\* A call that returns leaves the target alone, and forgets the slots that no
\* journal names.
LEMMA ReturnTypes ==
    ASSUME Types, NEW o \in Outcomes, NEW j \in Journals,
           Return(o, backup, candidate, j),
           target' = target, inodes' = inodes, edits' = edits,
           crashes' \in 0..MaxCrashes, excuse' \in BOOLEAN
    PROVE  Types'
<1>1. Absent \in File
  BY DEF Absent, File
<1> QED
  BY <1>1 DEF Types, Return, Pcs

\* A file somebody writes.
LEMMA EditTypes == ASSUME Types, Edit PROVE Types'
<1>1. PICK x, s, inPlace \in BOOLEAN :
        /\ target' = [exists |-> x,
                      inode |-> IF inPlace THEN target.inode ELSE inodes + 1,
                      edits |-> target.edits \cup {edits + 1},
                      server |-> s]
        /\ inodes' = IF inPlace THEN inodes ELSE inodes + 1
  BY DEF Edit
<1>2. edits + 1 \in 1..MaxEdits /\ edits' \in 0..MaxEdits /\ inodes' \in Nat
  BY <1>1, ClientConfigAssumption DEF Edit, Types
<1>3. target' \in File
  BY <1>1, <1>2 DEF File, Types
<1> QED
  BY <1>2, <1>3 DEF Edit, Types

\* Every step keeps the types.
LEMMA NextTypes == ASSUME Types, [ConfigureNext]_configureVars PROVE Types'
<1>0. /\ Absent \in File /\ NoJournal \in Journals /\ Partial \in Journals
      /\ Journal(Digest(base), Staged) \in Journals
  BY PlanTypes, JournalKinds DEF Absent, File
<1>1. CASE UNCHANGED configureVars
  BY <1>1 DEF configureVars, Types
<1>2. CASE \/ \E o \in {"status", "configure"} : Begin(o)
           \/ ResolveNone \/ ResolveKnown \/ Settled \/ Proceed \/ Discard
           \/ CheckBaseline \/ Validate
  BY <1>2
  DEF Begin, ResolveNone, ResolveKnown, Settled, Proceed, Discard, CheckBaseline,
      Validate, fileVars, envVars, Types, Pcs, Outcomes
<1>3. CASE \/ CleanCandidate \/ CleanBackup \/ CleanJournal
           \/ CreateJournal \/ WriteJournal
  BY <1>0, <1>3
  DEF CleanCandidate, CleanBackup, CleanJournal, CreateJournal, WriteJournal,
      envVars, Types, Pcs
<1>4. CASE Capture
  <2>1. backup' \in File /\ inodes' \in Nat
    BY <1>4 DEF Capture, Types, File
  <2> QED
    BY <1>4, <2>1 DEF Capture, Types, Pcs
<1>5. CASE WriteCandidate
  <2>1. candidate' \in File /\ inodes' \in Nat
    BY <1>5 DEF WriteCandidate, Staged, Types, File
  <2> QED
    BY <1>5, <2>1 DEF WriteCandidate, envVars, Types, Pcs
<1>6. CASE ResolveUnknown \/ ResolveFails \/ CaptureFails \/ Retain
  BY <1>0, <1>6, ReturnTypes
  DEF ResolveUnknown, ResolveFails, CaptureFails, Retain, envVars, Types, Outcomes
<1>7. CASE CleanFails \/ PublishFails \/ DeleteJournal
  <2>1. PICK o \in Outcomes, j \in Journals :
           Return(o, backup, candidate, j) /\ excuse' \in BOOLEAN
    BY <1>0, <1>7 DEF CleanFails, PublishFails, DeleteJournal, Types, Outcomes
  <2> QED
    BY <1>7, <2>1, ReturnTypes DEF CleanFails, PublishFails, DeleteJournal, Types
<1>8. CASE Exchange
  <2>1. CASE Return("error", backup, candidate, journal) /\ UNCHANGED target
    BY <1>8, <2>1, ReturnTypes DEF Exchange, envVars, Types, Outcomes
  <2>2. CASE /\ target' = candidate /\ candidate' = target
             /\ UNCHANGED <<backup, journal, op, base, outcome>>
             /\ pc' = "validate"
    BY <1>8, <2>2 DEF Exchange, envVars, Types, Pcs
  <2>3. CASE /\ target' = [candidate EXCEPT !.edits = @ \cup target.edits]
             /\ candidate' = Absent
             /\ UNCHANGED <<backup, journal, op, base, outcome>>
             /\ pc' = "validate"
    <3>1. target' \in File
      BY <2>3 DEF Types, File
    <3> QED
      BY <1>0, <1>8, <2>3, <3>1 DEF Exchange, envVars, Types, Pcs
  <2> QED
    BY <1>8, <2>1, <2>2, <2>3 DEF Exchange
<1>9. CASE DeleteBackup \/ DeleteCandidate
  BY <1>0, <1>9
  DEF DeleteBackup, DeleteCandidate, Removed, envVars, Types, Pcs, Outcomes
<1>10. CASE Kill
  <2>1. crashes' \in 0..MaxCrashes
    BY <1>10, ClientConfigAssumption DEF Kill, Types
  <2> QED
    BY <1>10, <2>1, ReturnTypes DEF Kill, Types, Outcomes
<1>11. CASE Edit
  BY <1>11, EditTypes
<1> QED
  BY <1>1, <1>2, <1>3, <1>4, <1>5, <1>6, <1>7, <1>8, <1>9, <1>10, <1>11
  DEF ConfigureNext

----------------------------------------------------------------------------
(* What the steps leave alone *)

\* Steps that only move the transaction on.
Moves ==
    \/ \E o \in {"status", "configure"} : Begin(o)
    \/ ResolveNone \/ ResolveKnown \/ Settled \/ Proceed \/ Discard
    \/ CheckBaseline \/ Validate

\* The steps of the program that touch no file.
LEMMA MovesFrame == ASSUME Moves PROVE UNCHANGED <<fileVars, base, envVars>>
BY DEF Moves, Begin, ResolveNone, ResolveKnown, Settled, Proceed, Discard,
       CheckBaseline, Validate

\* Steps that end a call with journal j; everything is still there, but what no
\* journal names.
Ends(j) ==
    /\ pc' = "idle" /\ journal' = j /\ base' = Absent
    /\ target' = target /\ edits' = edits
    /\ j # NoJournal => backup' = backup /\ candidate' = candidate

\* What a step that ends a transaction leaves.
LEMMA EndsOf ==
    ASSUME NEW o, NEW j, Return(o, backup, candidate, j),
           target' = target, edits' = edits
    PROVE  Ends(j) /\ outcome' = o
BY DEF Return, Ends

\* Where a call may end, and what it may leave behind.
EndsWith(j) ==
    /\ Ends(j)
    /\ \/ ResolveUnknown /\ j = journal /\ outcome' = "repair" /\ excuse' = excuse
       \/ /\ pc \in {"resolve", "capture", "inspect", "edit", "check", "validate",
                     "exchange"}
          /\ j = journal /\ excuse' = excuse
          /\ outcome' \in {"unread", "error", "conflict"}
       \/ /\ pc \in {"edit", "journal", "journal_write"} /\ outcome' = "error"
          /\ excuse' = (excuse \/ j # NoJournal)
          /\ pc = "journal_write" \/ j \in {NoJournal, journal}
       \/ /\ pc \in {"clean_candidate", "clean_backup", "clean_journal"}
          /\ j = journal /\ excuse' = TRUE /\ outcome' = "repair"
       \/ /\ pc = "delete_journal" /\ j = NoJournal
          /\ outcome' = outcome /\ excuse' = excuse
       \/ /\ pc = "delete_journal" /\ j = journal
          /\ excuse' = TRUE /\ outcome' = "error"
       \/ /\ j = journal /\ outcome' = "none"
          /\ excuse' = (excuse \/ pc \in {"journal_write", "clean_backup",
                           "clean_journal", "delete_candidate", "delete_journal"})

\* Which steps end a transaction, and how.
LEMMA EndCases ==
    ASSUME Types, JournalStep, [ConfigureNext]_configureVars, pc # "idle", pc' = "idle"
    PROVE  \E j \in {NoJournal, journal, Journal(Digest(base), Staged)} :
             EndsWith(j)
<1> USE DEF EndsWith
<1>1. CASE ResolveUnknown
  BY <1>1, EndsOf DEF ResolveUnknown, envVars
<1>2. CASE ResolveFails
  BY <1>2, EndsOf DEF ResolveFails, envVars
<1>3. CASE CleanFails
  BY <1>3, EndsOf DEF CleanFails
<1>4. CASE CaptureFails
  BY <1>4, EndsOf DEF CaptureFails, envVars
<1>5. CASE Retain
  BY <1>5, EndsOf DEF Retain, envVars
<1>6. CASE PublishFails
  <2>1. PICK j \in {NoJournal, journal} \cup
                 IF pc = "journal_write" THEN {Journal(Digest(base), Staged)} ELSE {} :
           /\ Return("error", backup, candidate, j)
           /\ excuse' = (excuse \/ j # NoJournal)
    BY <1>6 DEF PublishFails
  <2>2. Ends(j) /\ outcome' = "error"
    BY <1>6, <2>1, EndsOf DEF PublishFails
  <2> QED
    BY <1>6, <2>1, <2>2 DEF PublishFails, Types
<1>7. CASE Exchange
  BY <1>7, EndsOf DEF Exchange, envVars
<1>8. CASE DeleteJournal
  BY <1>8, EndsOf DEF DeleteJournal
<1>9. CASE Kill
  BY <1>9, EndsOf DEF Kill, Types
<1> QED
  BY <1>1, <1>2, <1>3, <1>4, <1>5, <1>6, <1>7, <1>8, <1>9
  DEF ConfigureNext, Begin, ResolveNone, ResolveKnown, CleanCandidate, CleanBackup,
      CleanJournal, Capture, Settled, Proceed, Discard, WriteCandidate,
      CreateJournal, WriteJournal, CheckBaseline, Validate, DeleteBackup,
      DeleteCandidate, Edit, configureVars

\* The other steps of a transaction.
FileStep ==
    \/ CleanCandidate \/ CleanBackup \/ CleanJournal \/ Capture
    \/ WriteCandidate \/ CreateJournal \/ WriteJournal
    \/ (Exchange /\ pc' = "validate")
    \/ DeleteBackup \/ DeleteCandidate

\* Every step is one of these.
LEMMA NextCases ==
    ASSUME [ConfigureNext]_configureVars
    PROVE  \/ UNCHANGED configureVars \/ Moves \/ FileStep \/ Edit
           \/ pc # "idle" /\ pc' = "idle"
BY DEF ConfigureNext, Moves, FileStep, ResolveUnknown, ResolveFails, CleanFails,
       CaptureFails, Retain, PublishFails, Exchange, DeleteJournal, Kill, Return

----------------------------------------------------------------------------
(* The invariant, conjunct by conjunct *)

\* What is about to be published is what was staged.
LEMMA CandidateIs ==
    ASSUME Types, Digest(candidate) = Staged
    PROVE  candidate.exists /\ candidate.edits = base.edits /\ candidate.server
BY DEF Digest, Staged, Types, File

\* Candidate and displaced file stay what they were created as.
LEMMA NextFiles == ASSUME ConfigureInv, [ConfigureNext]_configureVars PROVE FilesOK'
<1> USE DEF ConfigureInv
<1>1. CASE UNCHANGED configureVars
  BY <1>1 DEF configureVars, FilesOK
<1>2. CASE Moves
  BY <1>2, MovesFrame DEF fileVars, envVars, FilesOK
<1>3. CASE pc # "idle" /\ pc' = "idle"
  <2>1. target' = target /\ edits' = edits /\ base' = Absent
    BY <1>3, EndCases DEF EndsWith, Ends
  <2> QED
    BY <2>1 DEF Absent, FilesOK
<1>4. CASE Edit
  <2>1. edits \in Nat /\ edits' = edits + 1 /\ base' = base
    BY <1>4, ClientConfigAssumption DEF Edit, Types
  <2>2. 1..edits' = (1..edits) \cup {edits + 1}
    BY <2>1
  <2>3. /\ target'.edits = target.edits \cup {edits + 1}
        /\ target'.server => target'.exists
    BY <1>4 DEF Edit
  <2> QED
    BY <2>1, <2>2, <2>3 DEF FilesOK
<1>5. CASE CleanCandidate \/ CleanBackup \/ CleanJournal \/ WriteCandidate
           \/ CreateJournal \/ WriteJournal \/ DeleteBackup \/ DeleteCandidate
  BY <1>5
  DEF CleanCandidate, CleanBackup, CleanJournal, WriteCandidate, CreateJournal,
      WriteJournal, DeleteBackup, DeleteCandidate, envVars, FilesOK
<1>6. CASE Capture
  BY <1>6 DEF Capture, FilesOK
<1>7. CASE Exchange /\ pc' = "validate"
  <2>1. /\ candidate.exists /\ candidate.edits = base.edits
        /\ UNCHANGED <<base, edits>>
    BY <1>7, CandidateIs DEF Exchange, CandidateOK, Return, envVars
  <2>2. CASE target' = candidate
    BY <2>1, <2>2 DEF FilesOK
  <2>3. CASE target' = [candidate EXCEPT !.edits = @ \cup target.edits]
    <3>1. target'.exists /\ target'.edits = base.edits \cup target.edits
      BY <2>1, <2>3 DEF Types, File
    <3> QED
      BY <2>1, <3>1 DEF FilesOK
  <2> QED
    BY <1>7, <2>2, <2>3 DEF Exchange, Return
<1> QED
  BY <1>1, <1>2, <1>3, <1>4, <1>5, <1>6, <1>7, NextCases DEF FileStep

\* A journal is written whole, before the exchange, and removed last.
LEMMA NextJournal == ASSUME ConfigureInv, [ConfigureNext]_configureVars PROVE JournalOK' /\ JournalStep'
<1> USE DEF ConfigureInv
<1>1. CASE UNCHANGED configureVars
  BY <1>1 DEF configureVars, JournalOK, JournalStep, Digest, Staged
<1>2. CASE Moves
  <2>1. UNCHANGED <<journal, base>> /\ Digest(base)' = Digest(base) /\ Staged' = Staged
    BY <1>2, MovesFrame DEF fileVars, Digest, Staged
  <2>2. JournalOK'
    BY <2>1 DEF JournalOK
  <2>3. JournalStep'
    BY <1>2, <2>1, JournalKinds, PlanTypes
    DEF Moves, Begin, ResolveNone, ResolveKnown, Settled, Proceed, Discard,
        CheckBaseline, Validate, JournalStep
  <2> QED
    BY <2>2, <2>3
<1>3. CASE pc # "idle" /\ pc' = "idle"
  <2>1. \/ journal' = NoJournal \/ journal' = journal
        \/ journal' = Journal(Digest(base), Staged)
    BY <1>3, EndCases DEF EndsWith, Ends
  <2>2. JournalOK'
    BY <2>1, JournalKinds, PlanTypes DEF JournalOK
  <2>3. JournalStep'
    BY <1>3 DEF JournalStep
  <2> QED
    BY <2>2, <2>3
<1>4. CASE Edit
  BY <1>4 DEF Edit, JournalOK, JournalStep, Digest, Staged
<1>5. CASE \/ CleanCandidate \/ CleanBackup \/ WriteCandidate
           \/ DeleteBackup \/ DeleteCandidate
  BY <1>5
  DEF CleanCandidate, CleanBackup, WriteCandidate, DeleteBackup, DeleteCandidate,
      JournalOK, JournalStep
<1>6. CASE CleanJournal \/ CreateJournal \/ Capture
  BY <1>6, JournalKinds
  DEF CleanJournal, CreateJournal, Capture, JournalOK, JournalStep
<1>7. CASE WriteJournal
  <2>1. /\ journal' = Journal(Digest(base), Staged) /\ pc' = "check"
        /\ Digest(base)' = Digest(base) /\ Staged' = Staged
    BY <1>7 DEF WriteJournal, Digest, Staged
  <2> QED
    BY <2>1, JournalKinds, PlanTypes DEF JournalOK, JournalStep
<1>8. CASE Exchange /\ pc' = "validate"
  <2>1. UNCHANGED <<journal, base>> /\ Digest(base)' = Digest(base) /\ Staged' = Staged
    BY <1>8 DEF Exchange, Return, Digest, Staged
  <2> QED
    BY <1>8, <2>1 DEF Exchange, JournalOK, JournalStep
<1> QED
  BY <1>1, <1>2, <1>3, <1>4, <1>5, <1>6, <1>7, <1>8, NextCases DEF FileStep

\* What is staged includes every edit that was seen.
LEMMA NextCandidate == ASSUME ConfigureInv, [ConfigureNext]_configureVars PROVE CandidateOK'
<1> USE DEF ConfigureInv
<1>1. CASE UNCHANGED configureVars
  BY <1>1 DEF configureVars, CandidateOK, Digest, Staged
<1>2. CASE Moves \/ Edit
  <2>1. UNCHANGED <<candidate, base>>
    BY <1>2, MovesFrame DEF Edit, fileVars
  <2>2. pc' \in {"journal", "journal_write", "check", "exchange"} =>
          pc \in {"journal", "journal_write", "check", "exchange"}
    BY <1>2 DEF Moves, Begin, ResolveNone, ResolveKnown, Settled, Proceed, Discard,
                CheckBaseline, Validate, Edit
  <2> QED
    BY <2>1, <2>2 DEF CandidateOK, Digest, Staged
<1>3. CASE WriteCandidate
  BY <1>3 DEF WriteCandidate, CandidateOK, Digest, Staged
<1>4. CASE CreateJournal \/ WriteJournal
  BY <1>4 DEF CreateJournal, WriteJournal, CandidateOK, Digest, Staged
<1>5. CASE \/ CleanCandidate \/ CleanBackup \/ CleanJournal \/ Capture
           \/ (Exchange /\ pc' = "validate") \/ DeleteBackup \/ DeleteCandidate
           \/ pc # "idle" /\ pc' = "idle"
  BY <1>5
  DEF CleanCandidate, CleanBackup, CleanJournal, Capture, DeleteBackup,
      DeleteCandidate, CandidateOK
<1> QED
  BY <1>1, <1>2, <1>3, <1>4, <1>5, NextCases DEF FileStep

\* Repair is reported only with an excuse.
LEMMA NextOutcome == ASSUME ConfigureInv, Untouched, [ConfigureNext]_configureVars PROVE OutcomeOK'
<1> USE DEF ConfigureInv
<1>1. CASE UNCHANGED configureVars
  BY <1>1 DEF configureVars, OutcomeOK
<1>2. CASE Moves
  BY <1>2
  DEF Moves, Begin, ResolveNone, ResolveKnown, Settled, Proceed, Discard,
      CheckBaseline, Validate, OutcomeOK, fileVars, envVars
<1>3. CASE pc # "idle" /\ pc' = "idle"
  <2>1. ResolveUnknown => excuse
    <3>1. SUFFICES ASSUME ResolveUnknown, ~excuse PROVE FALSE
      OBVIOUS
    <3>2. pc = "resolve" /\ journal # NoJournal /\ (journal.kind = "whole" => Classify = "unknown")
      BY <3>1, JournalKinds DEF ResolveUnknown, Types
    <3> QED
      BY <3>1, <3>2 DEF Untouched
  <2>2. outcome # "repair"
    BY <1>3 DEF OutcomeOK
  <2>3. outcome' = "repair" => (ResolveUnknown /\ excuse' = excuse) \/ excuse'
    BY <1>3, <2>2, EndCases DEF EndsWith
  <2>4. outcome' = "repair" => excuse'
    BY <2>1, <2>3
  <2> QED
    BY <1>3, <2>4 DEF OutcomeOK
<1>4. CASE Edit
  BY <1>4 DEF Edit, OutcomeOK, Types
<1>5. CASE FileStep
  BY <1>5
  DEF FileStep, CleanCandidate, CleanBackup, CleanJournal, Capture, WriteCandidate,
      CreateJournal, WriteJournal, Exchange, Return, DeleteBackup, DeleteCandidate,
      envVars, OutcomeOK
<1> QED
  BY <1>1, <1>2, <1>3, <1>4, <1>5, NextCases

----------------------------------------------------------------------------
(* Where the edits are *)

\* A journal that tells where the transaction stopped, also tells that the target
\* has everything.
LEMMA KnownHasAll ==
    ASSUME Types, FilesOK, JournalOK, HasAll \/ Spread,
           journal.kind = "whole", Classify # "unknown"
    PROVE  HasAll
<1> SUFFICES ASSUME Spread PROVE HasAll
  OBVIOUS
<1> DEFINE b == journal.baseline
<1> DEFINE s == journal.staged
<1>1. /\ s.exists /\ b.exists /\ b.edits = s.edits
      /\ 1..edits \subseteq target.edits \cup candidate.edits
  BY DEF Spread, JournalOK
<1>2. \/ Digest(target) = s /\ Digest(candidate) = b
      \/ Digest(target) = b /\ Digest(candidate) = s
  BY DEF Classify
<1>3. target.edits = s.edits /\ candidate.edits = s.edits
  <2>1. ASSUME NEW f \in File, Digest(f).exists PROVE f.edits = Digest(f).edits
    BY <2>1 DEF Digest, File
  <2> QED
    BY <1>1, <1>2, <2>1 DEF Types
<1>4. target.edits \subseteq 1..edits
  BY DEF FilesOK
<1> QED
  BY <1>1, <1>3, <1>4 DEF HasAll

\* So does a publication that validates.
LEMMA ValidHasAll ==
    ASSUME Types, FilesOK, JournalStep, pc = "validate", PublishedAsPlanned,
           HasAll \/ Spread
    PROVE  HasAll
<1> SUFFICES ASSUME Spread PROVE HasAll
  OBVIOUS
<1>1. journal.baseline = Digest(base)
  BY JournalKinds, PlanTypes DEF JournalStep
<1>2. base.exists /\ 1..edits \subseteq target.edits \cup candidate.edits
  BY <1>1, PlanTypes DEF Spread
<1>3. ASSUME NEW f \in File, Digest(f).exists PROVE f.edits = Digest(f).edits
  BY <1>3 DEF Digest, File
<1>4. target.edits = base.edits /\ candidate.edits = base.edits
  BY <1>2, <1>3, PlanTypes DEF PublishedAsPlanned, Types
<1>5. target.edits \subseteq 1..edits
  BY DEF FilesOK
<1> QED
  BY <1>2, <1>4, <1>5 DEF HasAll

\* No edit is lost, whichever step and whichever recovery.
LEMMA NextKept == ASSUME ConfigureInv, [ConfigureNext]_configureVars PROVE EditsKept'
<1> USE DEF ConfigureInv
<1>0. pc \in {"idle", "resolve", "validate"} => HasAll \/ Spread
  BY DEF EditsKept
<1>1. CASE UNCHANGED configureVars
  BY <1>1 DEF configureVars, EditsKept, HasAll, Spread
<1>2. CASE Moves
  <2>1. (HasAll' <=> HasAll) /\ (Spread' <=> Spread)
    BY <1>2, MovesFrame DEF fileVars, envVars, HasAll, Spread
  <2>2. CASE ResolveNone
    BY <2>1, <2>2, JournalKinds DEF ResolveNone, EditsKept, Spread
  <2>3. CASE ResolveKnown
    BY <1>0, <2>1, <2>3, KnownHasAll DEF ResolveKnown, EditsKept
  <2>4. CASE Validate
    BY <1>0, <2>1, <2>4, ValidHasAll DEF Validate, EditsKept
  <2>5. CASE \/ \E o \in {"status", "configure"} : Begin(o)
             \/ Settled \/ Proceed \/ Discard \/ CheckBaseline
    BY <2>1, <2>5
    DEF Begin, Settled, Proceed, Discard, CheckBaseline, EditsKept
  <2> QED
    BY <1>2, <2>2, <2>3, <2>4, <2>5 DEF Moves
<1>3. CASE pc # "idle" /\ pc' = "idle"
  <2>1. PICK j \in {NoJournal, journal, Journal(Digest(base), Staged)} : EndsWith(j)
    BY <1>3, EndCases
  <2>2. target' = target /\ edits' = edits /\ (HasAll' <=> HasAll)
    BY <2>1 DEF EndsWith, Ends, HasAll
  <2>3. CASE HasAll
    BY <1>3, <2>2, <2>3 DEF EditsKept
  <2>4. CASE Spread /\ pc \in {"resolve", "validate"}
    <3>1. journal # NoJournal /\ j = journal
      BY <2>1, <2>4, JournalKinds DEF EndsWith, Spread
    <3>2. journal' = journal /\ candidate' = candidate
      BY <2>1, <3>1 DEF EndsWith, Ends
    <3> QED
      BY <1>3, <2>2, <2>4, <3>2 DEF EditsKept, Spread
  <2> QED
    BY <1>3, <2>3, <2>4 DEF EditsKept
<1>4. CASE Edit
  <2>1. edits \in Nat /\ edits' = edits + 1 /\ UNCHANGED <<journal, candidate, pc>>
    BY <1>4, ClientConfigAssumption DEF Edit, Types
  <2>2. 1..edits' = (1..edits) \cup {edits + 1}
    BY <2>1
  <2>3. target'.edits = target.edits \cup {edits + 1}
    BY <1>4 DEF Edit
  <2>4. (HasAll => HasAll') /\ (Spread => Spread')
    BY <2>1, <2>2, <2>3 DEF HasAll, Spread
  <2> QED
    BY <2>1, <2>4 DEF EditsKept
<1>5. CASE \/ CleanCandidate \/ CleanBackup \/ CleanJournal \/ Capture
           \/ WriteCandidate \/ CreateJournal \/ WriteJournal
           \/ DeleteBackup \/ DeleteCandidate
  <2>1. UNCHANGED <<target, edits>> /\ pc \notin {"idle", "resolve", "validate"}
    BY <1>5
    DEF CleanCandidate, CleanBackup, CleanJournal, Capture, WriteCandidate,
        CreateJournal, WriteJournal, DeleteBackup, DeleteCandidate, envVars
  <2> QED
    BY <2>1 DEF EditsKept, HasAll
<1>6. CASE Exchange /\ pc' = "validate"
  <2>1. /\ pc = "exchange" /\ HasAll /\ journal = Journal(Digest(base), Staged)
        /\ UNCHANGED <<journal, edits>>
    BY <1>6 DEF Exchange, Return, EditsKept, JournalStep, envVars
  <2>2. CASE base.exists /\ target.exists /\ target' = candidate /\ candidate' = target
    <3>1. journal.kind = "whole" /\ journal.baseline.exists
      BY <2>1, <2>2, JournalKinds, PlanTypes
    <3>2. Spread'
      BY <2>1, <2>2, <3>1 DEF Spread, HasAll
    <3> QED
      BY <1>6, <3>2 DEF EditsKept
  <2>3. CASE target' = [candidate EXCEPT !.edits = @ \cup target.edits]
    <3>1. candidate.edits = base.edits /\ base.edits \subseteq 1..edits
      BY <2>1, CandidateIs DEF CandidateOK, FilesOK
    <3>2. target'.edits = candidate.edits \cup target.edits
      BY <2>3 DEF Types, File
    <3>3. HasAll'
      BY <2>1, <3>1, <3>2 DEF HasAll
    <3> QED
      BY <1>6, <3>3 DEF EditsKept
  <2> QED
    BY <1>6, <2>2, <2>3 DEF Exchange, Return
<1> QED
  BY <1>1, <1>2, <1>3, <1>4, <1>5, <1>6, NextCases DEF FileStep

----------------------------------------------------------------------------
(* When help is needed *)

\* Before the exchange, a transaction that met nobody left the target as it was.
LEMMA PlanKnown ==
    ASSUME Types, JournalStep, CandidateOK, Untouched, ~excuse,
           pc \in {"check", "exchange"}
    PROVE  journal.kind = "whole" /\ Classify # "unknown"
<1>1. /\ journal.kind = "whole" /\ journal.baseline = Digest(base)
      /\ journal.staged = Staged
  BY JournalKinds, PlanTypes DEF JournalStep
<1>2. /\ Digest(target) = Digest(base) /\ Digest(candidate) = Staged
      /\ Digest(base).exists => Digest(backup) = Digest(base)
  BY PlanTypes DEF Untouched, CandidateOK
<1> QED
  BY <1>1, <1>2 DEF Classify

\* After it, the exchange is complete.
LEMMA ExchangeKnown ==
    ASSUME ConfigureInv, ~excuse, Exchange, pc' = "validate"
    PROVE  journal'.kind = "whole" /\ Classify' # "unknown"
<1> USE DEF ConfigureInv
<1>1. /\ pc = "exchange" /\ target = base /\ Digest(candidate) = Staged
      /\ base.exists => Digest(backup) = Digest(base)
      /\ UNCHANGED <<journal, backup, base>>
  BY DEF Exchange, Return, Untouched, CandidateOK
<1>2. /\ journal.kind = "whole" /\ journal.baseline = Digest(base)
      /\ journal.staged = Staged
  BY <1>1, JournalKinds, PlanTypes DEF JournalStep
<1>3. Digest(target)' = Staged /\ Digest(candidate)' = Digest(base)
  <2>1. CASE target' = candidate /\ candidate' = target
    BY <1>1, <2>1 DEF Digest
  <2>2. CASE /\ ~base.exists /\ candidate' = Absent
             /\ target' = [candidate EXCEPT !.edits = @ \cup target.edits]
    <3>1. candidate.exists /\ candidate.edits = base.edits /\ candidate.server
      BY <1>1, CandidateIs
    <3>2. target'.exists /\ target'.edits = base.edits /\ target'.server
      BY <1>1, <2>2, <3>1 DEF Types, File
    <3>3. Digest(target)' = Staged
      BY <3>2, PlanTypes DEF Digest, Staged
    <3>4. Digest(candidate)' = Digest(base)
      <4>1. base.exists = FALSE /\ base.server = FALSE
        BY <2>2 DEF Types, File, FilesOK
      <4> QED
        BY <2>2, <4>1 DEF Digest, Absent
    <3> QED
      BY <3>3, <3>4
  <2> QED
    BY <2>1, <2>2 DEF Exchange, Return
<1>4. journal.baseline.exists => Digest(backup)' = journal.baseline
  BY <1>1, <1>2, PlanTypes DEF Digest
<1> QED
  BY <1>1, <1>2, <1>3, <1>4 DEF Classify

\* A transaction that meets nobody stays one that classifies.
LEMMA NextUntouched == ASSUME ConfigureInv, [ConfigureNext]_configureVars PROVE Untouched'
<1> USE DEF ConfigureInv
<1>1. CASE UNCHANGED configureVars
  BY <1>1 DEF configureVars, Untouched, Classify, Digest
<1>2. CASE Moves
  <2>1. UNCHANGED <<target, backup, journal, base, excuse>> /\ Classify' = Classify
    BY <1>2, MovesFrame DEF fileVars, envVars, Classify, Digest
  <2>2. Digest(backup)' = Digest(backup) /\ Digest(base)' = Digest(base)
    BY <2>1 DEF Digest
  <2>3. /\ pc' \in {"inspect", "edit", "journal", "journal_write", "check",
                    "exchange"} =>
              pc \in {"inspect", "edit", "check"}
        /\ pc' \in {"idle", "resolve", "clean_candidate", "validate",
                    "delete_backup"} =>
              \/ pc \in {"idle", "resolve", "validate"}
              \/ pc \in {"inspect", "edit"}
    BY <1>2
    DEF Moves, Begin, ResolveNone, ResolveKnown, Settled, Proceed, Discard,
        CheckBaseline, Validate
  <2>4. pc \in {"inspect", "edit"} => journal = NoJournal
    BY DEF JournalStep
  <2> QED
    BY <2>1, <2>2, <2>3, <2>4 DEF Untouched
<1>3. CASE pc # "idle" /\ pc' = "idle"
  <2> SUFFICES ASSUME ~excuse', journal' # NoJournal
               PROVE  (journal.kind = "whole" /\ Classify # "unknown")'
    BY <1>3 DEF Untouched
  <2>1. PICK j \in {NoJournal, journal, Journal(Digest(base), Staged)} : EndsWith(j)
    BY <1>3, EndCases
  <2>2. /\ j = journal /\ ~excuse /\ journal # NoJournal
        /\ pc \notin {"journal_write", "clean_backup", "clean_journal",
                      "delete_candidate", "delete_journal"}
    <3>1. /\ excuse \in BOOLEAN /\ excuse' \in BOOLEAN
          /\ j # NoJournal /\ (ResolveUnknown => pc = "resolve")
      BY <2>1, NextTypes DEF EndsWith, Ends, ResolveUnknown, Types
    <3>2. CASE excuse' = excuse
      BY <2>1, <3>1, <3>2 DEF EndsWith
    <3>3. CASE /\ excuse' = (excuse \/ pc \in {"journal_write", "clean_backup",
                           "clean_journal", "delete_candidate", "delete_journal"})
               /\ j = journal
      BY <3>1, <3>3
    <3> QED
      BY <2>1, <3>1, <3>2, <3>3 DEF EndsWith
  <2>3. pc \in {"resolve", "clean_candidate", "check", "exchange", "validate",
                "delete_backup"}
    BY <1>3, <2>2 DEF JournalStep, Types, Pcs
  <2>4. journal.kind = "whole" /\ Classify # "unknown"
    BY <2>2, <2>3, PlanKnown DEF Untouched
  <2>5. UNCHANGED <<target, backup, candidate, journal>>
    BY <2>1, <2>2 DEF EndsWith, Ends
  <2> QED
    BY <2>4, <2>5 DEF Classify, Digest
<1>4. CASE Edit
  <2>1. ~excuse' => pc = "idle" /\ journal = NoJournal
    BY <1>4 DEF Edit
  <2> QED
    BY <1>4, <2>1 DEF Edit, Untouched
<1>5. CASE Capture
  <2>1. /\ target' = target /\ base' = target /\ pc' = "inspect"
        /\ base'.exists => Digest(backup)' = Digest(base)'
    BY <1>5 DEF Capture, Digest, Types, File
  <2> QED
    BY <2>1 DEF Untouched
<1>6. CASE WriteCandidate \/ CreateJournal \/ WriteJournal
  <2>1. /\ UNCHANGED <<target, backup, base, excuse>>
        /\ pc \in {"edit", "journal", "journal_write"}
        /\ pc' \in {"journal", "journal_write", "check"}
    BY <1>6 DEF WriteCandidate, CreateJournal, WriteJournal, envVars
  <2> QED
    BY <2>1 DEF Untouched, Digest
<1>7. CASE Exchange /\ pc' = "validate"
  <2>1. excuse' = excuse
    BY <1>7 DEF Exchange, envVars
  <2> QED
    BY <1>7, <2>1, ExchangeKnown DEF Untouched
<1>8. CASE \/ CleanCandidate \/ CleanBackup \/ CleanJournal
           \/ DeleteBackup \/ DeleteCandidate
  BY <1>8
  DEF CleanCandidate, CleanBackup, CleanJournal, DeleteBackup, DeleteCandidate,
      Untouched
<1> QED
  BY <1>1, <1>2, <1>3, <1>4, <1>5, <1>6, <1>7, <1>8, NextCases DEF FileStep

----------------------------------------------------------------------------
(* The result *)

\* The invariant holds at the start.
LEMMA InitInv == ConfigureInit => ConfigureInv
<1> SUFFICES ASSUME ConfigureInit PROVE ConfigureInv
  OBVIOUS
<1>1. Types
  <2>1. target \in File /\ Absent \in File
    BY DEF ConfigureInit, File, Absent
  <2>2. /\ backup = Absent /\ candidate = Absent /\ base = Absent
        /\ journal = NoJournal /\ pc = "idle" /\ op = "status"
        /\ outcome = "none" /\ excuse = FALSE
        /\ edits = 0 /\ inodes = 0 /\ crashes = 0
    BY DEF ConfigureInit
  <2>3. journal \in Journals
    BY <2>2, JournalKinds
  <2>4. /\ target \in File /\ backup \in File /\ candidate \in File
        /\ base \in File
    BY <2>1, <2>2
  <2>5. pc \in Pcs /\ op \in {"status", "configure"} /\ outcome \in Outcomes
    BY <2>2 DEF Pcs, Outcomes
  <2>6. edits = 0 /\ crashes = 0 /\ inodes = 0
    BY <2>2
  <2>7. edits \in 0..MaxEdits /\ crashes \in 0..MaxCrashes /\ inodes \in Nat
    BY <2>6, ClientConfigAssumption
  <2>8. excuse \in BOOLEAN
    BY <2>2
  <2> QED
    BY <2>3, <2>4, <2>5, <2>7, <2>8 DEF Types
<1>2. target.edits = {} /\ base.edits = {} /\ 1..edits = {}
  BY DEF ConfigureInit, Absent
<1>3. FilesOK /\ HasAll
  BY <1>2 DEF ConfigureInit, Absent, FilesOK, HasAll
<1>4. journal.kind = "none" /\ pc = "idle" /\ outcome = "none" /\ journal = NoJournal
  BY DEF ConfigureInit, NoJournal
<1> QED
  BY <1>1, <1>3, <1>4
  DEF ConfigureInv, JournalOK, JournalStep, EditsKept, CandidateOK, Untouched, OutcomeOK

\* The invariant holds always.
LEMMA ConfigureInvariance == ConfigureSpec => []ConfigureInv
<1>1. ASSUME ConfigureInv, [ConfigureNext]_configureVars PROVE ConfigureInv'
  <2>1. Types' /\ FilesOK'
    BY <1>1, NextTypes, NextFiles DEF ConfigureInv
  <2>2. JournalOK' /\ JournalStep'
    BY <1>1, NextJournal
  <2>3. EditsKept' /\ CandidateOK'
    BY <1>1, NextKept, NextCandidate
  <2>4. Untouched' /\ OutcomeOK'
    BY <1>1, NextUntouched, NextOutcome DEF ConfigureInv
  <2> QED
    BY <2>1, <2>2, <2>3, <2>4 DEF ConfigureInv
<1> QED
  BY <1>1, InitInv, PTL DEF ConfigureSpec

\* The state invariants of the component follow.
LEMMA SafeStates == ASSUME ConfigureInv PROVE ConfigureTypeOK /\ NoLostEdit /\ RepairOnlyIfNeeded
<1> USE DEF ConfigureInv
<1>1. ConfigureTypeOK
  BY JournalKinds DEF Types, JournalOK, ConfigureTypeOK, Pcs, Outcomes
<1>2. NoLostEdit
  <2>1. CASE HasAll
    BY <2>1 DEF HasAll, NoLostEdit
  <2>2. CASE Spread
    BY <2>2, JournalKinds DEF Spread, NoLostEdit
  <2> QED
    BY <2>1, <2>2 DEF EditsKept
<1>3. RepairOnlyIfNeeded
  BY DEF OutcomeOK, RepairOnlyIfNeeded
<1> QED
  BY <1>1, <1>2, <1>3

\* Only a transaction that has validated and cleaned up reports success.
LEMMA SuccessStep ==
    ASSUME ConfigureInv, [ConfigureNext]_configureVars, pc # "idle", pc' = "idle", outcome' = "configured"
    PROVE  /\ target'.edits = 1..edits'
           /\ ~backup'.exists /\ ~candidate'.exists /\ journal' = NoJournal
<1> USE DEF ConfigureInv
<1>1. PICK j : EndsWith(j)
  BY EndCases
<1>2. pc = "delete_journal" /\ j = NoJournal
  BY <1>1 DEF EndsWith, OutcomeOK
<1>3. HasAll /\ UNCHANGED <<target, edits>> /\ journal' = NoJournal
  BY <1>1, <1>2 DEF EndsWith, Ends, EditsKept
<1>4. backup' = Absent /\ candidate' = Absent
  BY <1>2, <1>3
  DEF ConfigureNext, DeleteJournal, Kill, Return, configureVars, Begin, ResolveNone, ResolveKnown,
      ResolveUnknown, ResolveFails, CleanCandidate, CleanBackup, CleanJournal,
      CleanFails, Capture, CaptureFails, Settled, Proceed, Discard, Retain,
      WriteCandidate, CreateJournal, WriteJournal, PublishFails, CheckBaseline,
      Exchange, Validate, DeleteBackup, DeleteCandidate, Edit
<1> QED
  BY <1>3, <1>4 DEF HasAll, Absent

\* No edit of the file's owner is lost, whatever races and crashes; help is asked
\* for only where it is needed; success leaves nothing behind.
THEOREM NoEditIsLost == ConfigureSpec => EditsSafe
<1>1. ConfigureInv => ConfigureTypeOK /\ NoLostEdit /\ RepairOnlyIfNeeded
  BY SafeStates
<1>2. ConfigureInv /\ [ConfigureNext]_configureVars =>
        [pc # "idle" /\ pc' = "idle" /\ outcome' = "configured" =>
           /\ target'.edits = 1..edits'
           /\ ~backup'.exists /\ ~candidate'.exists /\ journal' = NoJournal]_configureVars
  BY SuccessStep
<1> QED
  BY <1>1, <1>2, ConfigureInvariance, PTL DEF ConfigureSpec, EditsSafe, SuccessIsClean

=============================================================================
