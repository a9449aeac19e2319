------------------------------ MODULE AdminApi ------------------------------
(***************************************************************************)
(* The configuration of the enterprise gateway: the admin routes that read   *)
(* and change policies, API keys and the licence, and the policy of a        *)
(* gateway request (packages/gateway-enterprise/src: admin, policy, license). *)
(*                                                                         *)
(* Requests of several processes run at the same time; each await ends an    *)
(* action.  Calls to the database fail, also after they took effect, and     *)
(* processes are restarted.  The appends of a process wait in the queue of   *)
(* its AuditWriter; what the writer does with them is in AuditWriter.tla.    *)
(***************************************************************************)
EXTENDS Naturals, Sequences, FiniteSets

CONSTANTS
    Process,    \* the gateway processes
    Call,       \* slots for concurrent requests, each reused
    User,
    RoleOf,     \* the role of a user
    Token,      \* session tokens
    OwnerOf,    \* the user who logged in to get a token
    ExpiryOf,   \* when the session of a token expires
    Policy,     \* ids of policies, ordered
    Row,        \* the policies an admin may store
    Fallback,   \* the static policy
    ApiKey,
    License,    \* signed licences
    ExpiresAt,  \* when a licence expires
    GraceEnds,  \* when its grace period ends
    Boot,       \* the one in the licence file
    Expiring,   \* length of the window before the expiry
    None,
    MaxTime,    \* bound of the model: the clock stops here
    MaxStarted, \* bound of the model: requests
    MaxFaults   \* bound of the model: failures and restarts

VARIABLES
    enabled,    \* users.enabled
    sessions,   \* admin_sessions: the tokens with a row
    policies,   \* the policies table
    apiKeys,    \* api_keys
    cache,      \* #cache of each process
    license,    \* #license
    reported,   \* #reportedState
    queue,      \* appends that wait in the process's audit writer
    pc,         \* where a request is
    job,        \* what it asks for
    draft,      \* the list of policies it read
    now,        \* the clock
    recorded,   \* audit records of each kind of change
    lastReport, \* the last licence state each process put on record
    changed,    \* history: changes made
    behind,     \* history: processes whose cache may be behind
    started,    \* number of requests
    faults      \* number of failures

database == <<enabled, sessions, policies, apiKeys>>
process == <<cache, license, reported, queue>>
request == <<pc, job, draft>>
records == <<recorded, lastReport>>
history == <<changed, behind, started>>
vars == <<database, process, request, records, history, now, faults>>

States == {"open", "valid", "expiring", "grace", "frozen"}

\* Audit records: of a change, and of a licence state
Change == ({"POLICY_CHANGED"} \X Policy) \cup ({"KEY_CREATED", "KEY_REVOKED"} \X ApiKey)
Report == {"LICENSE_CHANGED"} \X States

ASSUME AdminAssumption ==
    /\ IsFiniteSet(Call)
    /\ RoleOf \in [User -> {"admin", "operator", "auditor"}]
    /\ OwnerOf \in [Token -> User] /\ ExpiryOf \in [Token -> Nat]
    /\ Policy \subseteq Nat
    /\ \A r \in Row : r.priority \in Nat /\ (r.keys = None \/ r.keys \subseteq ApiKey)
    /\ ExpiresAt \in [License -> Nat] /\ GraceEnds \in [License -> Nat]
    /\ Boot \in License /\ Expiring \in Nat
    /\ MaxTime \in Nat /\ MaxStarted \in Nat /\ MaxFaults \in Nat
    /\ None \notin License /\ None \notin Row /\ None \notin Token

\* licenseState
LicenseState(l, time) ==
    IF l = None THEN "open"
    ELSE IF time <= ExpiresAt[l]
         THEN IF ExpiresAt[l] < time + Expiring THEN "expiring" ELSE "valid"
         ELSE IF time <= GraceEnds[l] THEN "grace" ELSE "frozen"

Current(p) == LicenseState(license[p], now)

NoJob == [op |-> "none", process |-> None, token |-> None, id |-> None, row |-> None,
          entitled |-> FALSE, locked |-> FALSE]

\* What upsert puts in the columns: a list that is not given becomes an empty one.
AsStored(row) ==
    [priority |-> row.priority, document |-> row.document,
     keys |-> IF row.keys = None THEN {} ELSE row.keys,
     roles |-> IF row.roles = None THEN {} ELSE row.roles]

Policies == [Policy -> {AsStored(r) : r \in Row} \cup {None}]
KeyStates == {"none", "active", "revoked"}

\* The processes have just started, on a database that may have been in use.
Init ==
    /\ enabled = [u \in User |-> TRUE]
    /\ sessions = Token
    /\ policies \in Policies
    /\ apiKeys \in [ApiKey -> KeyStates]
    /\ cache = [p \in Process |-> None]
    /\ license = [p \in Process |-> Boot]
    /\ reported = [p \in Process |-> LicenseState(Boot, 0)]
    /\ queue = [p \in Process |-> <<>>]
    /\ pc = [c \in Call |-> "ended"]
    /\ job = [c \in Call |-> NoJob]
    /\ draft = [c \in Call |-> None]
    /\ now = 0
    /\ recorded = [x \in Change |-> 0]
    /\ lastReport = reported
    /\ changed = [x \in Change |-> 0]
    /\ behind = {}
    /\ started = 0
    /\ faults = 0

PolicyWrites == {"putPolicy", "deletePolicy"}
KeyWrites == {"createKey", "revokeKey"}
Mutations == PolicyWrites \cup KeyWrites

Goto(c, place) == pc' = [pc EXCEPT ![c] = place]

\* The request is answered, well or with an error, and what it kept is gone.
End(c) ==
    /\ Goto(c, "ended")
    /\ job' = [job EXCEPT ![c] = NoJob]
    /\ draft' = [draft EXCEPT ![c] = None]

-----------------------------------------------------------------------------
(* Requests.  A login is a token with a session; gateway requests ("select") *)
(* come with an API key instead.                                            *)

SessionLive(t) == t \in sessions /\ ExpiryOf[t] > now

Ask(ops, tokens, ids, rows) ==
    [op : ops, process : Process, token : tokens, id : ids, row : rows]

Asked ==
    Ask({"putPolicy"}, Token, Policy, Row) \cup Ask({"deletePolicy"}, Token, Policy, {None})
    \cup Ask(KeyWrites, Token, ApiKey, {None}) \cup Ask({"load"}, Token, License \cup {None}, {None})
    \cup Ask({"list", "status", "logout"}, Token, {None}, {None})
    \cup Ask({"select"}, {None}, ApiKey, {None})

\* For the properties, a request remembers what was so when it came: whether it
\* is of an enabled admin with a live session, and whether the licence is frozen
\* (and is not replaced since).
Arriving(a) ==
    [op |-> a.op, process |-> a.process, token |-> a.token, id |-> a.id, row |-> a.row,
     entitled |-> /\ a.token # None
                  /\ SessionLive(a.token) /\ enabled[OwnerOf[a.token]]
                  /\ RoleOf[OwnerOf[a.token]] = "admin",
     locked |-> Current(a.process) = "frozen"]

Request(c) ==
    /\ pc[c] = "ended"
    /\ started < MaxStarted
    /\ started' = started + 1
    /\ \E a \in Asked :
          \* a new key has an id of its own
          /\ a.op = "createKey" => /\ apiKeys[a.id] = "none"
                                   /\ \A d \in Call : job[d].op = "createKey" => job[d].id # a.id
          /\ job' = [job EXCEPT ![c] = Arriving(a)]
    /\ Goto(c, "arrived")
    /\ UNCHANGED <<database, process, draft, records, changed, behind, now, faults>>

\* Mistake: the session outlives the user's account.
MayEnterAnyUser(t) == SessionLive(t)

\* SqlAdminSessions.resolve: the session, and the user of it
MayEnter(t) == SessionLive(t) /\ enabled[OwnerOf[t]]

\* authenticate, and authenticateApiKey of the gateway
Authenticate(c) ==
    /\ pc[c] = "arrived"
    /\ LET selects == job[c].op = "select"
           key == selects /\ apiKeys[job[c].id] = "active"
           session == ~selects /\ MayEnter(job[c].token)
       IN  \/ (key \/ session) /\ Goto(c, "handler") /\ UNCHANGED <<job, draft>>
           \/ selects /\ ~key /\ End(c)
           \/ ~selects /\ ~session /\ Goto(c, "discard") /\ UNCHANGED <<job, draft>>
    /\ UNCHANGED <<database, process, records, history, now, faults>>

\* The DELETE of a session: a logout, or one that is not valid any more
Revoke(c) ==
    /\ pc[c] = "discard" \/ (pc[c] = "handler" /\ job[c].op = "logout")
    /\ sessions' = sessions \ {job[c].token}
    /\ End(c)
    /\ UNCHANGED <<enabled, policies, apiKeys, process, records, history, now, faults>>

-----------------------------------------------------------------------------
(* The licence *)

\* A request's append joins the queue; when it is done the request goes on at next.
Enqueue(c, about, next) ==
    /\ queue' = [queue EXCEPT ![job[c].process] =
                    Append(@, [call |-> c, about |-> about, next |-> next])]
    /\ Goto(c, "append")

\* Mistake: the state is taken as reported when its record is stored.
ReportingLate(state, old) == old

\* The value of #reportedState once a state was found to differ from the old
\* one: it is set before the append.
Reporting(state, old) == state

\* Mistake: the state is decided when it was last reported.
StateReported(p) == reported[p]

\* LicenseGuard.status, in process p
StateNow(p) == Current(p)

MutationAllowed(state) == state # "frozen"

\* What follows status() in the handler: a mutation needs one that is not frozen.
AfterStatus(c, state) ==
    IF job[c].op \in Mutations /\ MutationAllowed(state) THEN "write" ELSE "ended"

\* The request goes on at a place, or ends.
Resume(c, place) ==
    \/ place = "ended" /\ End(c)
    \/ place # "ended" /\ Goto(c, place) /\ UNCHANGED <<job, draft>>

Admin(c) == RoleOf[OwnerOf[job[c].token]] = "admin"

Status(c) ==
    LET p == job[c].process
        state == StateNow(p)
    IN  \/ /\ state = reported[p]
           /\ Resume(c, AfterStatus(c, state))
           /\ UNCHANGED <<reported, queue>>
        \/ /\ state # reported[p]
           /\ reported' = [reported EXCEPT ![p] = Reporting(state, @)]
           /\ Enqueue(c, <<"LICENSE_CHANGED", state>>, AfterStatus(c, state))
           /\ UNCHANGED <<job, draft>>

\* mutationGuard, and GET /admin/license
Guard(c) ==
    /\ pc[c] = "handler"
    /\ job[c].op \in Mutations \cup {"status"}
    /\ LET allowed == Admin(c) \/ job[c].op = "status"
       IN  \/ ~allowed /\ End(c) /\ UNCHANGED <<reported, queue>>
           \/ allowed /\ Status(c)
    /\ UNCHANGED <<database, cache, license, records, history, now, faults>>

\* Mistake: a new licence leaves the reported state undefined.
ReportedAfterLoadUnset(new) == None

\* What load's call of status sets #reportedState to, which it has just reset
ReportedAfterLoad(new) == LicenseState(new, now)

Unlocked(j) ==
    [op |-> j.op, process |-> j.process, token |-> j.token, id |-> j.id, row |-> j.row,
     entitled |-> j.entitled, locked |-> FALSE]

\* PUT /admin/license: LicenseGuard.load; a licence that does not verify is None.
Load(c) ==
    /\ pc[c] = "handler"
    /\ job[c].op = "load"
    /\ LET p == job[c].process
           new == job[c].id
       IN  \/ ~Admin(c) /\ End(c) /\ UNCHANGED <<license, reported, queue>>
           \/ /\ Admin(c)
              /\ license' = [license EXCEPT ![p] = new]
              /\ reported' = [reported EXCEPT ![p] = ReportedAfterLoad(new)]
              /\ job' = [d \in Call |->
                    IF job[d].process = p THEN Unlocked(job[d]) ELSE job[d]]
              /\ Enqueue(c, <<"LICENSE_CHANGED", LicenseState(new, now)>>, "loaded")
              /\ UNCHANGED draft
    /\ UNCHANGED <<database, cache, records, history, now, faults>>

\* The end of load and the status that PUT /admin/license answers, by the
\* licence the process has by then
Loaded(c) ==
    /\ pc[c] = "loaded"
    /\ \/ license[job[c].process] = None /\ End(c) /\ UNCHANGED <<reported, queue>>
       \/ license[job[c].process] # None /\ Status(c)
    /\ UNCHANGED <<database, cache, license, records, history, now, faults>>

-----------------------------------------------------------------------------
(* Changes *)

KindOf == [putPolicy |-> "POLICY_CHANGED", deletePolicy |-> "POLICY_CHANGED",
           createKey |-> "KEY_CREATED", revokeKey |-> "KEY_REVOKED"]

\* Which change a request makes.
ChangeOf(c) == <<KindOf[job[c].op], job[c].id>>

\* Mistake: a key is revoked whether it was revoked before or not.
TakesEffectAgain(c) ==
    CASE job[c].op = "revokeKey" -> apiKeys[job[c].id] # "none"
      [] job[c].op = "deletePolicy" -> policies[job[c].id] # None
      [] OTHER -> TRUE

\* Whether the statement finds a row to change.
TakesEffect(c) ==
    CASE job[c].op = "revokeKey" -> apiKeys[job[c].id] = "active"
      [] job[c].op = "deletePolicy" -> policies[job[c].id] # None
      [] OTHER -> TRUE

TakeEffect(c) ==
    /\ policies' = CASE job[c].op = "putPolicy" -> [policies EXCEPT ![job[c].id] = AsStored(job[c].row)]
                     [] job[c].op = "deletePolicy" -> [policies EXCEPT ![job[c].id] = None]
                     [] OTHER -> policies
    /\ apiKeys' = CASE job[c].op = "createKey" -> [apiKeys EXCEPT ![job[c].id] = "active"]
                    [] job[c].op = "revokeKey" -> [apiKeys EXCEPT ![job[c].id] = "revoked"]
                    [] OTHER -> apiKeys
    /\ changed' = IF job[c].op = "putPolicy" \/ <<policies, apiKeys>>' # <<policies, apiKeys>>
                  THEN [changed EXCEPT ![ChangeOf(c)] = @ + 1] ELSE changed

\* Processes whose caches a statement on the policies leaves behind.
Overtaken(c, ps) == IF job[c].op \in PolicyWrites THEN behind \cup ps ELSE behind

\* The statement of upsert, delete, putApiKey or revokeApiKey.  When it fails it
\* may have taken effect; the cache is not invalidated then.
Write(c) ==
    /\ pc[c] = "write"
    /\ IF TakesEffect(c) THEN TakeEffect(c) ELSE UNCHANGED <<policies, apiKeys, changed>>
    /\ \/ /\ Goto(c, IF TakesEffect(c) THEN "written" ELSE "missed")
          /\ behind' = Overtaken(c, Process \ {job[c].process})
          /\ UNCHANGED <<job, draft, faults>>
       \/ /\ faults < MaxFaults
          /\ faults' = faults + 1
          /\ behind' = Overtaken(c, Process)
          /\ End(c)
    /\ UNCHANGED <<enabled, sessions, process, records, started, now>>

\* Mistake: a delete leaves the cache as it is.
InvalidatedUnlessDeleted(c) ==
    IF job[c].op = "putPolicy" THEN [cache EXCEPT ![job[c].process] = None] ELSE cache

Invalidated(c) ==
    IF job[c].op \in PolicyWrites THEN [cache EXCEPT ![job[c].process] = None] ELSE cache

\* The rest of the handler: invalidate, and auditAdminChange if there was a change
Written(c) ==
    /\ pc[c] \in {"written", "missed"}
    /\ cache' = Invalidated(c)
    /\ behind' = IF job[c].op \in PolicyWrites THEN behind \ {job[c].process} ELSE behind
    /\ \/ pc[c] = "written" /\ Enqueue(c, ChangeOf(c), "ended") /\ UNCHANGED <<job, draft>>
       \/ pc[c] = "missed" /\ End(c) /\ UNCHANGED queue
    /\ UNCHANGED <<database, license, reported, records, changed, started, now, faults>>

\* The append at the front of a process's queue: stored or not, and its answer
\* may be lost.
Appended(p) ==
    /\ queue[p] # <<>>
    /\ queue' = [queue EXCEPT ![p] = Tail(@)]
    /\ LET task == Head(queue[p])
           stored == \/ /\ task.about \in Change
                        /\ recorded' = [recorded EXCEPT ![task.about] = @ + 1]
                        /\ UNCHANGED lastReport
                     \/ /\ task.about \in Report
                        /\ lastReport' = [lastReport EXCEPT ![p] = task.about[2]]
                        /\ UNCHANGED recorded
       IN  \/ stored /\ Resume(task.call, task.next) /\ UNCHANGED faults
           \/ /\ faults < MaxFaults
              /\ faults' = faults + 1
              /\ stored \/ UNCHANGED records
              /\ End(task.call)
    /\ UNCHANGED <<database, cache, license, reported, history, now>>

-----------------------------------------------------------------------------
(* Reading policies *)

\* matchesContext, for a context of an API key and no role
Matches(row, key) ==
    /\ row.keys = None \/ key \in row.keys
    /\ row.roles = None

\* The order of the policies that match.  All rows are as specific: both columns
\* are set.
Before(list, i, j) ==
    \/ list[i].priority > list[j].priority
    \/ list[i].priority = list[j].priority /\ i =< j

\* CachedPolicyEvaluator.resolve
Selected(list, key) ==
    LET found == {i \in Policy : list[i] # None /\ Matches(list[i], key)}
    IN  IF found = {} THEN Fallback
        ELSE list[CHOOSE i \in found : \A j \in found : Before(list, i, j)].document

\* The cache, if there is one, or the statement of list
Consult(c) ==
    /\ pc[c] = "handler"
    /\ job[c].op \in {"list", "select"}
    /\ \/ cache[job[c].process] # None /\ End(c)
       \/ cache[job[c].process] = None /\ Goto(c, "list") /\ UNCHANGED <<job, draft>>
    /\ UNCHANGED <<database, process, records, history, now, faults>>

List(c) ==
    /\ pc[c] = "list"
    /\ draft' = [draft EXCEPT ![c] = policies]
    /\ Goto(c, "fill")
    /\ UNCHANGED <<database, process, job, records, history, now, faults>>

\* The list fills the cache, whatever happened to the table and the cache meanwhile.
Fill(c) ==
    /\ pc[c] = "fill"
    /\ LET p == job[c].process
       IN  /\ cache' = [cache EXCEPT ![p] = draft[c]]
           /\ behind' = IF draft[c] = policies THEN behind \ {p} ELSE behind \cup {p}
    /\ End(c)
    /\ UNCHANGED <<database, license, reported, queue, records, changed, started, now, faults>>

-----------------------------------------------------------------------------

\* A statement fails, without effect, or the body of a change is not valid.
Fail(c) ==
    /\ \/ pc[c] \in {"arrived", "discard", "list", "write"}
       \/ pc[c] = "handler" /\ job[c].op = "logout"
    /\ faults < MaxFaults
    /\ faults' = faults + 1
    /\ End(c)
    /\ UNCHANGED <<database, process, records, history, now>>

\* A process ends and starts again, with the licence of the file.
Restart(p) ==
    /\ faults < MaxFaults
    /\ faults' = faults + 1
    /\ cache' = [cache EXCEPT ![p] = None]
    /\ license' = [license EXCEPT ![p] = Boot]
    /\ reported' = [reported EXCEPT ![p] = LicenseState(Boot, now)]
    /\ lastReport' = [lastReport EXCEPT ![p] = LicenseState(Boot, now)]
    /\ queue' = [queue EXCEPT ![p] = <<>>]
    /\ LET kept == {c \in Call : job[c].process # p}
       IN  /\ pc' = [c \in Call |-> IF c \in kept THEN pc[c] ELSE "ended"]
           /\ job' = [c \in Call |-> IF c \in kept THEN job[c] ELSE NoJob]
           /\ draft' = [c \in Call |-> IF c \in kept THEN draft[c] ELSE None]
    /\ behind' = behind \ {p}
    /\ UNCHANGED <<database, recorded, changed, started, now>>

\* An operator disables an account in the database.
Disable(u) ==
    /\ enabled[u]
    /\ enabled' = [enabled EXCEPT ![u] = FALSE]
    /\ UNCHANGED <<sessions, policies, apiKeys, process, request, records, history, now, faults>>

Tick ==
    /\ now < MaxTime
    /\ now' = now + 1
    /\ UNCHANGED <<database, process, request, records, history, faults>>

Step(c) ==
    \/ Request(c) \/ Authenticate(c) \/ Revoke(c) \/ Guard(c) \/ Load(c) \/ Loaded(c)
    \/ Write(c) \/ Written(c) \/ Consult(c) \/ List(c) \/ Fill(c) \/ Fail(c)

Next ==
    \/ Tick
    \/ \E c \in Call : Step(c)
    \/ \E p \in Process : Appended(p) \/ Restart(p)
    \/ \E u \in User : Disable(u)

Spec == Init /\ [][Next]_vars

-----------------------------------------------------------------------------
(* Properties *)

TypeOK ==
    /\ enabled \in [User -> BOOLEAN] /\ sessions \subseteq Token
    /\ policies \in Policies
    /\ apiKeys \in [ApiKey -> KeyStates]
    /\ cache \in [Process -> Policies \cup {None}]
    /\ license \in [Process -> License \cup {None}]
    /\ reported \in [Process -> States] /\ lastReport \in [Process -> States]
    /\ queue \in [Process -> Seq([call : Call, about : Change \cup Report,
                              next : {"loaded", "write", "ended"}])]
    /\ pc \in [Call -> {"arrived", "discard", "handler", "loaded", "write", "written", "missed",
                        "append", "list", "fill", "ended"}]
    /\ job \in [Call -> [op : Mutations \cup {"load", "list", "status", "logout", "select", "none"},
                         process : Process \cup {None}, token : Token \cup {None},
                         id : Policy \cup ApiKey \cup License \cup {None},
                         row : Row \cup {None}, entitled : BOOLEAN, locked : BOOLEAN]]
    /\ draft \in [Call -> Policies \cup {None}]
    /\ now \in Nat /\ started \in Nat /\ faults \in Nat
    /\ recorded \in [Change -> Nat] /\ changed \in [Change -> Nat]
    /\ behind \subseteq Process

\* Changes of x that were made, and whose record is still to come.
Outstanding(x) ==
    Cardinality({c \in Call : /\ job[c].op \in Mutations /\ ChangeOf(c) = x
                              /\ \/ pc[c] = "written"
                                 \/ \E p \in Process : \E n \in DOMAIN queue[p] :
                                       queue[p][n].call = c /\ queue[p][n].about = x})

\* The audit trail tells what changed: a record for each change, none for what
\* did not happen, and none missing unless a call failed or a process was
\* restarted in between (routes.ts auditAdminChange after the statement).
ChangesRecorded ==
    \A x \in Change :
        /\ recorded[x] + Outstanding(x) =< changed[x]
        /\ faults = 0 => recorded[x] + Outstanding(x) = changed[x]

\* The state a process reported last, counting what waits in its queue.
LastReport(p) ==
    LET waiting == {n \in DOMAIN queue[p] : queue[p][n].about \in Report}
    IN  IF waiting = {} THEN lastReport[p]
        ELSE queue[p][CHOOSE n \in waiting : \A m \in waiting : m =< n].about[2]

\* The trail shows the licence states of a process in the order it went through
\* them, and the last one it acted on, however its requests overlap (enforce.ts
\* status).
LicenceReported == faults = 0 => \A p \in Process : LastReport(p) = reported[p]

\* The audit trail has every change and every licence state, in order, but for
\* the faults that are counted (routes.ts auditAdminChange, enforce.ts status).
TrailComplete == TypeOK /\ ChangesRecorded /\ LicenceReported

\* When the grace period is over, no request that comes changes anything, until a
\* licence is loaded (docs/admin-guide.en.md "configuration becomes read-only").
FrozenIsReadOnly == \A c \in Call : job[c].locked => pc[c] \notin {"write", "written"}

\* What is changed is changed for an admin who was not disabled and whose session
\* was not revoked or expired when the request came.
OnlyAdminsChange == \A c \in Call : pc[c] \in {"write", "written"} => job[c].entitled

\* Nothing is changed in the read-only state or by anyone but a live admin,
\* whatever happens between the checks and the write (routes.ts adminRoute).
ChangesAllowed == FrozenIsReadOnly /\ OnlyAdminsChange

\* A cache shows the table.  It is behind only when another process changed the
\* table, a list was on its way while the table changed, a statement's answer was
\* lost, or the invalidation is still to come (policy/db.ts upsert, delete).
FreshUnlessRaced ==
    \A p \in Process :
        \/ cache[p] \in {None, policies}
        \/ p \in behind
        \/ \E c \in Call : pc[c] \in {"written", "missed"} /\ job[c].process = p

\* A gateway request goes on with a policy that is stored for its API key, and not
\* with the static one (test/integration/policy-enforcement.test.ts "enforces the
\* selected enterprise policy for the authenticated API key").
PolicyApplies ==
    \A p \in Process, k \in ApiKey, i \in Policy :
        /\ cache[p] # None /\ cache[p][i] # None
        /\ k \in cache[p][i].keys /\ cache[p][i].roles = {}
        => Selected(cache[p], k) # Fallback
=============================================================================
