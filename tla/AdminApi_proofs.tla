-------------------------- MODULE AdminApi_proofs --------------------------
(***************************************************************************)
(* Proofs about the configuration of the enterprise gateway, for any number *)
(* of processes, requests, users, policies, keys, failures and restarts.    *)
(***************************************************************************)
EXTENDS AdminApi, FiniteSetTheorems, WellFoundedInduction, TLAPS

-----------------------------------------------------------------------------
(* The inductive invariant *)

Place == {"arrived", "discard", "handler", "loaded", "write", "written", "missed",
          "append", "list", "fill", "ended"}

Job == [op : Mutations \cup {"load", "list", "status", "logout", "select", "none"},
        process : Process \cup {None}, token : Token \cup {None},
        id : Policy \cup ApiKey \cup License \cup {None},
        row : Row \cup {None}, entitled : BOOLEAN, locked : BOOLEAN]

Task == [call : Call, about : Change \cup Report, next : {"loaded", "write", "ended"}]

\* A request has a process, and what its operation needs.
AskOK(c) ==
    /\ pc[c] = "ended" => job[c] = NoJob
    /\ pc[c] # "ended" =>
          /\ job[c].process \in Process
          /\ job[c].op # "select" => job[c].token \in Token
          /\ job[c].op \in PolicyWrites => job[c].id \in Policy
          /\ job[c].op \in KeyWrites => job[c].id \in ApiKey
          /\ job[c].op = "load" => job[c].id \in License \cup {None}
          /\ job[c].op = "putPolicy" => job[c].row \in Row

\* Who changes something: an admin who was entitled to, while the licence allowed it.
May(c) == job[c].op \in Mutations /\ job[c].entitled /\ ~job[c].locked

\* An admin whose session is still valid was entitled when the request came.
PlaceOK(c) ==
    /\ pc[c] = "arrived" /\ job[c].op # "select" /\ MayEnter(job[c].token) /\ Admin(c) =>
          job[c].entitled
    /\ pc[c] = "handler" /\ job[c].op # "select" /\ Admin(c) => job[c].entitled
    /\ pc[c] \in {"write", "written", "missed"} => May(c)
    /\ pc[c] = "loaded" => job[c].op = "load"
    /\ pc[c] = "fill" => draft[c] \in Policies

\* A licence that was frozen when a request came is frozen still.
LockedOK(c) == job[c].locked => Current(job[c].process) = "frozen"

CallOK(c) == AskOK(c) /\ PlaceOK(c) /\ LockedOK(c)

CallsOK == \A c \in Call : CallOK(c)

\* What waits in the queue of a process is of a request of its own that waits.
TaskOK(p, task) ==
    /\ pc[task.call] = "append"
    /\ job[task.call].process = p
    /\ task.next = "write" => May(task.call)
    /\ task.next = "loaded" => job[task.call].op = "load"

QueueOK ==
    /\ \A p \in Process : \A n \in 1 .. Len(queue[p]) : TaskOK(p, queue[p][n])
    /\ \A p \in Process : \A m, n \in 1 .. Len(queue[p]) :
          queue[p][m].call = queue[p][n].call => m = n

\* The invalidation that is still to come is one of a change of the policies.
Pending(c, p) ==
    /\ pc[c] \in {"written", "missed"}
    /\ job[c].process = p /\ job[c].op \in PolicyWrites

CacheOK ==
    \A p \in Process : cache[p] \in {None, policies} \/ p \in behind \/ \E c \in Call : Pending(c, p)

IInv == TypeOK /\ CallsOK /\ QueueOK /\ CacheOK

-----------------------------------------------------------------------------
(* The licence *)

LEMMA StateType ==
    ASSUME NEW l \in License \cup {None}, NEW t \in Nat
    PROVE  LicenseState(l, t) \in States
BY DEF LicenseState, States

\* A licence whose grace period is over stays so.
LEMMA FrozenStays ==
    ASSUME NEW l \in License \cup {None}, NEW t \in Nat, NEW u \in Nat, t <= u,
           LicenseState(l, t) = "frozen"
    PROVE  LicenseState(l, u) = "frozen"
<1>1. l # None /\ l \in License
  BY DEF LicenseState
<1>2. ExpiresAt[l] \in Nat /\ GraceEnds[l] \in Nat
  BY <1>1, AdminAssumption
<1>3. ~(t <= ExpiresAt[l]) /\ ~(t <= GraceEnds[l])
  BY <1>1 DEF LicenseState
<1>4. ~(u <= ExpiresAt[l]) /\ ~(u <= GraceEnds[l])
  BY <1>2, <1>3
<1> QED BY <1>1, <1>4 DEF LicenseState

-----------------------------------------------------------------------------
(* Parts of a step *)

\* The other requests are where they were; at most a new licence unlocks them.
SameRequest(d) ==
    /\ pc'[d] = pc[d] /\ draft'[d] = draft[d]
    /\ job'[d].op = job[d].op /\ job'[d].process = job[d].process
    /\ job'[d].token = job[d].token /\ job'[d].id = job[d].id /\ job'[d].row = job[d].row
    /\ (job'[d].entitled <=> job[d].entitled)
    /\ job'[d] = job[d] \/ ~job'[d].locked
    /\ job'[d].locked => job[d].locked /\ license'[job[d].process] = license[job[d].process]
    /\ job[d] = NoJob => job'[d] = NoJob

Others(c) == \A d \in Call \ {c} : SameRequest(d)

\* Time passes, and rights are only lost.
Fading ==
    /\ now' \in Nat /\ now <= now'
    /\ \A t \in Token : MayEnter(t)' => MayEnter(t)

\* What the invariant says of one request.
LEMMA Unpack ==
    ASSUME IInv, NEW c \in Call
    PROVE  TypeOK /\ AskOK(c) /\ PlaceOK(c) /\ LockedOK(c) /\ pc[c] \in Place /\ job[c] \in Job
BY DEF IInv, CallsOK, CallOK, TypeOK, Place, Job

LEMMA SameKept ==
    ASSUME IInv, NEW d \in Call, SameRequest(d), Fading
    PROVE  CallOK(d)'
<1>1. TypeOK /\ AskOK(d) /\ PlaceOK(d) /\ LockedOK(d)
  BY Unpack
<1>2. AskOK(d)'
  BY <1>1 DEF AskOK, SameRequest
<1>3. PlaceOK(d)'
  <2>1. Admin(d)' <=> Admin(d)
    BY DEF Admin, SameRequest
  <2>2. May(d) => May(d)'
    BY DEF May, SameRequest
  <2>3. ASSUME pc[d] = "arrived", job[d].op # "select", MayEnter(job[d].token)'
        PROVE  MayEnter(job[d].token)
    <3>1. PICK t \in Token : t = job[d].token
      BY <1>1, <2>3 DEF AskOK
    <3>2. MayEnter(t)'
      BY <2>3, <3>1 DEF SameRequest, MayEnter, SessionLive
    <3> QED BY <3>1, <3>2 DEF Fading
  <2> QED BY <1>1, <2>1, <2>2, <2>3 DEF PlaceOK, SameRequest
<1>4. CASE ~job'[d].locked
  <2>1. LockedOK(d)'
    BY <1>4 DEF LockedOK
  <2> QED BY <1>2, <1>3, <2>1 DEF CallOK
<1>5. CASE job'[d].locked
  <2>1. /\ job[d].locked /\ license'[job[d].process] = license[job[d].process]
        /\ job'[d].process = job[d].process
    BY <1>5 DEF SameRequest
  <2>2. PICK p \in Process : p = job[d].process
    BY <1>1, <2>1 DEF AskOK, NoJob
  <2>3. license[p] \in License \cup {None} /\ now \in Nat /\ now' \in Nat /\ now <= now'
    BY <1>1, <2>2 DEF TypeOK, Fading
  <2>4. LicenseState(license[p], now) = "frozen"
    BY <1>1, <2>1, <2>2 DEF LockedOK, Current
  <2>5. LicenseState(license[p], now') = "frozen"
    BY <2>3, <2>4, FrozenStays
  <2>6. Current(p)' = "frozen"
    BY <2>1, <2>2, <2>5 DEF Current, LicenseState
  <2>7. LockedOK(d)'
    BY <2>1, <2>2, <2>6 DEF LockedOK, Current
  <2> QED BY <1>2, <1>3, <2>7 DEF CallOK
<1> QED BY <1>4, <1>5

LEMMA OthersKept ==
    ASSUME IInv, NEW c \in Call, CallOK(c)', Others(c), Fading
    PROVE  CallsOK'
BY SameKept DEF CallsOK, Others

\* A task of another request stays as it is.
LEMMA TaskKept ==
    ASSUME NEW p \in Process, NEW task, TaskOK(p, task), SameRequest(task.call)
    PROVE  TaskOK(p, task)'
BY DEF TaskOK, SameRequest, May

\* A request that does not wait has nothing in a queue.
LEMMA QueueStands ==
    ASSUME IInv, NEW c \in Call, pc[c] # "append", Others(c), UNCHANGED queue
    PROVE  QueueOK'
<1>1. ASSUME NEW p \in Process, NEW n \in 1 .. Len(queue[p])
      PROVE  TaskOK(p, queue[p][n])'
  <2>1. queue[p] \in Seq(Task) /\ queue[p][n] \in Task
    <3>1. queue \in [Process -> Seq(Task)]
      BY DEF IInv, TypeOK, Task
    <3> QED BY <3>1
  <2>2. PICK task \in Task : task = queue[p][n]
    BY <2>1
  <2>3. TaskOK(p, task)
    BY <2>2 DEF IInv, QueueOK
  <2>4. task.call \in Call \ {c}
    BY <2>3 DEF TaskOK, Task
  <2>5. TaskOK(p, task)'
    BY <2>3, <2>4, TaskKept DEF Others
  <2> QED BY <2>2, <2>5 DEF TaskOK, May
<1> QED BY <1>1 DEF IInv, QueueOK

\* A request that joins the queue of its process.
LEMMA Enqueued ==
    ASSUME IInv, NEW c \in Call, pc[c] \notin {"append", "ended"},
           NEW about \in Change \cup Report, NEW next \in {"loaded", "write", "ended"},
           Enqueue(c, about, next), Others(c),
           job'[c].process = job[c].process,
           next = "write" => May(c)', next = "loaded" => job'[c].op = "load"
    PROVE  /\ QueueOK' /\ queue' \in [Process -> Seq(Task)]
           /\ pc' \in [Call -> Place] /\ pc'[c] = "append"
<1> DEFINE new == [call |-> c, about |-> about, next |-> next]
<1>1. PICK q \in Process : q = job[c].process
  BY Unpack DEF AskOK
<1>2. new \in Task /\ queue \in [Process -> Seq(Task)] /\ pc \in [Call -> Place]
  BY DEF IInv, TypeOK, Task, Place
<1>3. queue' = [queue EXCEPT ![q] = Append(queue[q], new)] /\ pc' = [pc EXCEPT ![c] = "append"]
  BY <1>1 DEF Enqueue, Goto
<1>4. queue' \in [Process -> Seq(Task)] /\ pc' \in [Call -> Place] /\ pc'[c] = "append"
  BY <1>2, <1>3 DEF Place
<1>5. queue[q] \in Seq(Task) /\ queue'[q] = Append(queue[q], new)
      /\ Len(queue'[q]) = Len(queue[q]) + 1 /\ queue'[q][Len(queue[q]) + 1] = new
      /\ \A n \in 1 .. Len(queue[q]) : queue'[q][n] = queue[q][n]
  BY <1>2, <1>3
<1>6. \A p \in Process \ {q} : queue'[p] = queue[p]
  BY <1>2, <1>3
<1>7. ASSUME NEW p \in Process, NEW n \in 1 .. Len(queue[p])
      PROVE  queue[p][n].call # c /\ TaskOK(p, queue[p][n])'
  <2>1. queue[p] \in Seq(Task) /\ queue[p][n] \in Task
    BY <1>2
  <2>2. PICK task \in Task : task = queue[p][n]
    BY <2>1
  <2>3. TaskOK(p, task)
    BY <2>2 DEF IInv, QueueOK
  <2>4. task.call \in Call \ {c}
    BY <2>3 DEF TaskOK, Task
  <2>5. TaskOK(p, task)'
    BY <2>3, <2>4, TaskKept DEF Others
  <2>6. p # q => queue'[p][n] = queue[p][n]
    BY <1>6
  <2>7. queue'[p][n] = task
    BY <1>5, <2>2, <2>6
  <2> QED BY <2>2, <2>4, <2>5, <2>7 DEF TaskOK, May
<1>8. TaskOK(q, new)'
  BY <1>1, <1>4 DEF TaskOK, May
<1>9. ASSUME NEW p \in Process, NEW n \in 1 .. Len(queue'[p])
      PROVE  TaskOK(p, queue[p][n])'
  <2>1. CASE p = q
    <3>1. CASE n = Len(queue[q]) + 1
      <4>1. queue'[p][n] = new
        BY <1>5, <2>1, <3>1
      <4> QED BY <1>8, <2>1, <4>1 DEF TaskOK, May
    <3>2. CASE n # Len(queue[q]) + 1
      <4>1. n \in 1 .. Len(queue[p])
        BY <1>5, <2>1, <3>2
      <4> QED BY <1>7, <4>1
    <3> QED BY <3>1, <3>2
  <2>2. CASE p # q
    BY <1>6, <1>7, <2>2
  <2> QED BY <2>1, <2>2
<1>10. ASSUME NEW p \in Process, NEW m \in 1 .. Len(queue'[p]), NEW n \in 1 .. Len(queue'[p]),
              queue'[p][m].call = queue'[p][n].call
       PROVE  m = n
  <2>1. CASE p = q
    <3>1. new.call = c
      OBVIOUS
    <3>2. \A i \in 1 .. Len(queue[q]) : queue'[q][i].call # c
      BY <1>5, <1>7
    <3>3. \A i, j \in 1 .. Len(queue[q]) : queue'[q][i].call = queue'[q][j].call => i = j
      BY <1>5 DEF IInv, QueueOK
    <3>4. 1 .. Len(queue'[q]) = (1 .. Len(queue[q])) \cup {Len(queue[q]) + 1}
      BY <1>5
    <3> DEFINE N == Len(queue[q])
    <3>5. queue'[q][N + 1].call = c
      BY <1>5, <3>1
    <3>6. /\ m \in 1 .. N \/ m = N + 1
          /\ n \in 1 .. N \/ n = N + 1
      BY <2>1, <3>4
    <3>7. queue'[q][m].call = queue'[q][n].call
      BY <1>10, <2>1
    <3> HIDE DEF N
    <3>8. CASE m \in 1 .. N /\ n \in 1 .. N
      BY <3>3, <3>7, <3>8 DEF N
    <3>9. CASE m = N + 1 /\ n = N + 1
      BY <3>9
    <3>10. CASE m \in 1 .. N /\ n = N + 1
      BY <3>2, <3>5, <3>7, <3>10 DEF N
    <3>11. CASE m = N + 1 /\ n \in 1 .. N
      BY <3>2, <3>5, <3>7, <3>11 DEF N
    <3> QED BY <3>6, <3>8, <3>9, <3>10, <3>11
  <2>2. CASE p # q
    BY <1>6, <1>10, <2>2 DEF IInv, QueueOK
  <2> QED BY <2>1, <2>2
<1>11. QueueOK'
  BY <1>9, <1>10 DEF QueueOK
<1> QED BY <1>4, <1>11

\* A request that ends is forgotten.
LEMMA Ended ==
    ASSUME IInv, NEW c \in Call, End(c), UNCHANGED license
    PROVE  /\ CallOK(c)' /\ Others(c) /\ pc'[c] = "ended"
           /\ pc' \in [Call -> Place] /\ job' \in [Call -> Job]
           /\ draft' \in [Call -> Policies \cup {None}]
<1>1. /\ pc' = [pc EXCEPT ![c] = "ended"] /\ job' = [job EXCEPT ![c] = NoJob]
      /\ draft' = [draft EXCEPT ![c] = None]
  BY DEF End, Goto
<1>2. /\ pc \in [Call -> Place] /\ job \in [Call -> Job]
      /\ draft \in [Call -> Policies \cup {None}]
  BY DEF IInv, TypeOK, Place, Job
<1>3. NoJob \in Job
  BY DEF NoJob, Job
<1>4. pc' \in [Call -> Place] /\ job' \in [Call -> Job] /\ draft' \in [Call -> Policies \cup {None}]
  BY <1>1, <1>2, <1>3 DEF Place
<1>5. pc'[c] = "ended" /\ job'[c] = NoJob
  BY <1>1, <1>2
<1>6. Others(c)
  BY <1>1, <1>2 DEF Others, SameRequest
<1>7. CallOK(c)'
  BY <1>5 DEF CallOK, AskOK, PlaceOK, LockedOK, NoJob
<1> QED BY <1>4, <1>5, <1>6, <1>7

\* A step of one request that leaves policies and caches.
LEMMA QuietStep ==
    ASSUME IInv, NEW c \in Call, TypeOK', CallOK(c)', QueueOK', Others(c), Fading,
           pc[c] \notin {"written", "missed"}, UNCHANGED <<policies, cache, behind>>
    PROVE  IInv'
<1>1. CallsOK'
  BY OthersKept
<1>2. CacheOK'
  <2>1. ASSUME NEW p \in Process, NEW d \in Call, Pending(d, p) PROVE Pending(d, p)'
    BY <2>1 DEF Pending, Others, SameRequest
  <2> QED BY <2>1 DEF IInv, CacheOK
<1> QED BY <1>1, <1>2 DEF IInv

LEMMA Standing ==
    ASSUME IInv, UNCHANGED <<now, sessions, enabled>>
    PROVE  Fading
BY DEF IInv, TypeOK, Fading, MayEnter, SessionLive

-----------------------------------------------------------------------------
(* The steps *)

LEMMA AskedType ==
    ASSUME NEW a \in Asked
    PROVE  /\ a.op \in Mutations \cup {"load", "list", "status", "logout", "select"}
           /\ a.process \in Process
           /\ a.token \in Token \cup {None} /\ (a.op # "select" => a.token \in Token)
           /\ a.id \in Policy \cup ApiKey \cup License \cup {None}
           /\ a.op \in PolicyWrites => a.id \in Policy
           /\ a.op \in KeyWrites => a.id \in ApiKey
           /\ a.op = "load" => a.id \in License \cup {None}
           /\ a.row \in Row \cup {None} /\ (a.op = "putPolicy" => a.row \in Row)
BY DEF Asked, Ask, Mutations, PolicyWrites, KeyWrites

LEMMA InitHolds == Init => IInv
<1> SUFFICES ASSUME Init PROVE IInv
  OBVIOUS
<1>1. TypeOK
  <2>1. NoJob \in Job
    BY DEF NoJob, Job
  <2>2. <<>> \in Seq(Task)
    OBVIOUS
  <2>3. queue \in [Process -> Seq(Task)]
    BY <2>2 DEF Init
  <2>4. LicenseState(Boot, 0) \in States
    BY StateType, AdminAssumption
  <2>5. reported \in [Process -> States] /\ lastReport \in [Process -> States]
    BY <2>4 DEF Init
  <2>6. /\ license \in [Process -> License \cup {None}] /\ cache \in [Process -> Policies \cup {None}]
        /\ enabled \in [User -> BOOLEAN] /\ sessions \subseteq Token
    BY AdminAssumption DEF Init
  <2>7. pc \in [Call -> Place] /\ job \in [Call -> Job] /\ draft \in [Call -> Policies \cup {None}]
    BY <2>1 DEF Init, Place
  <2>8. recorded \in [Change -> Nat] /\ changed \in [Change -> Nat]
    BY DEF Init
  <2> QED BY <2>3, <2>5, <2>6, <2>7, <2>8 DEF Init, TypeOK, Task, Place, Job
<1>2. CallsOK
  BY DEF Init, CallsOK, CallOK, AskOK, PlaceOK, LockedOK, NoJob
<1>3. QueueOK
  BY DEF Init, QueueOK
<1>4. CacheOK
  BY DEF Init, CacheOK
<1> QED BY <1>1, <1>2, <1>3, <1>4 DEF IInv

LEMMA RequestStep ==
    ASSUME IInv, NEW c \in Call, Request(c)
    PROVE  IInv'
<1>1. PICK a \in Asked : job' = [job EXCEPT ![c] = Arriving(a)]
  BY DEF Request
<1>2. /\ pc[c] = "ended" /\ pc' = [pc EXCEPT ![c] = "arrived"] /\ started' = started + 1
      /\ UNCHANGED <<enabled, sessions, policies, apiKeys, cache, license, reported, queue,
                     draft, recorded, lastReport, changed, behind, now, faults>>
      /\ TypeOK
  BY Unpack DEF Request, Goto, database, process, records
<1>3. Arriving(a) \in Job
  BY AskedType DEF Arriving, Job
<1>4. TypeOK'
  <2>1. pc' \in [Call -> Place] /\ job' \in [Call -> Job] /\ started' \in Nat
    BY <1>1, <1>2, <1>3 DEF TypeOK, Place, Job
  <2> QED BY <1>2, <2>1 DEF TypeOK, Place, Job
<1>5. pc'[c] = "arrived" /\ job'[c] = Arriving(a)
  BY <1>1, <1>2 DEF TypeOK
<1>6. Others(c)
  BY <1>1, <1>2 DEF Others, SameRequest, TypeOK
<1>7. AskOK(c)'
  BY <1>5, AskedType DEF AskOK, Arriving
<1>8. PlaceOK(c)'
  <2>1. ASSUME job'[c].op # "select", MayEnter(job[c].token)', Admin(c)'
        PROVE  job'[c].entitled
    <3>1. a.token \in Token /\ a.token # None
      BY <1>5, <2>1, AskedType, AdminAssumption DEF Arriving
    <3>2. SessionLive(a.token) /\ enabled[OwnerOf[a.token]]
      BY <1>2, <1>5, <2>1 DEF Arriving, MayEnter, SessionLive
    <3>3. RoleOf[OwnerOf[a.token]] = "admin"
      BY <1>5, <2>1 DEF Arriving, Admin
    <3> QED BY <1>5, <3>1, <3>2, <3>3 DEF Arriving
  <2> QED BY <1>5, <2>1 DEF PlaceOK
<1>9. LockedOK(c)'
  <2>1. job'[c].locked = (Current(a.process) = "frozen") /\ job'[c].process = a.process
    BY <1>5 DEF Arriving
  <2>2. license' = license /\ now' = now
    BY <1>2
  <2>3. Current(job[c].process)' = Current(a.process)
    BY <2>1, <2>2 DEF Current, LicenseState
  <2> QED BY <2>1, <2>3 DEF LockedOK
<1>10. Fading
  BY <1>2, Standing
<1>11. QueueOK'
  BY <1>2, <1>6, QueueStands
<1> QED BY <1>2, <1>4, <1>6, <1>7, <1>8, <1>9, <1>10, <1>11, QuietStep DEF CallOK

\* A request that goes on at a place where it may be.
LEMMA Moved ==
    ASSUME IInv, NEW c \in Call, NEW place \in Place \ {"ended"}, Goto(c, place), pc[c] # "ended",
           UNCHANGED <<job, license, now>>,
           draft' \in [Call -> Policies \cup {None}],
           \A d \in Call \ {c} : draft'[d] = draft[d],
           place # "arrived",
           place = "handler" /\ job[c].op # "select" /\ Admin(c) => job[c].entitled,
           place \in {"write", "written", "missed"} => May(c),
           place = "loaded" => job[c].op = "load",
           place = "fill" => draft'[c] \in Policies
    PROVE  /\ CallOK(c)' /\ Others(c) /\ pc'[c] = place
           /\ pc' \in [Call -> Place]
<1>1. pc \in [Call -> Place] /\ pc' = [pc EXCEPT ![c] = place] /\ AskOK(c) /\ LockedOK(c)
  BY Unpack DEF Goto, IInv, TypeOK, Place
<1>2. pc' \in [Call -> Place] /\ pc'[c] = place /\ \A d \in Call \ {c} : pc'[d] = pc[d]
  BY <1>1
<1>3. Others(c)
  BY <1>2 DEF Others, SameRequest
<1>4. CallOK(c)'
  <2>1. AskOK(c)' /\ LockedOK(c)'
    BY <1>1, <1>2 DEF AskOK, LockedOK, Current, LicenseState
  <2>2. PlaceOK(c)'
    BY <1>2 DEF PlaceOK, May, Admin
  <2> QED BY <2>1, <2>2 DEF CallOK
<1> QED BY <1>2, <1>3, <1>4

LEMMA AuthenticateStep ==
    ASSUME IInv, NEW c \in Call, Authenticate(c)
    PROVE  IInv'
<1>1. /\ pc[c] = "arrived" /\ TypeOK /\ PlaceOK(c)
      /\ UNCHANGED <<enabled, sessions, policies, apiKeys, cache, license, reported, queue,
                     recorded, lastReport, changed, behind, started, now, faults>>
  BY Unpack DEF Authenticate, database, process, records, history
<1>2. Fading
  BY <1>1, Standing
<1>3. CASE End(c)
  <2>1. TypeOK'
    BY <1>1, <1>3, Ended DEF TypeOK, Place, Job
  <2>2. QueueOK'
    BY <1>1, <1>3, Ended, QueueStands
  <2> QED BY <1>1, <1>2, <1>3, <2>1, <2>2, Ended, QuietStep
<1>4. ASSUME NEW place \in {"handler", "discard"}, Goto(c, place), UNCHANGED <<job, draft>>,
             place = "handler" /\ job[c].op # "select" => MayEnter(job[c].token)
      PROVE  IInv'
  <2>1. place = "handler" /\ job[c].op # "select" /\ Admin(c) => job[c].entitled
    BY <1>1, <1>4 DEF PlaceOK
  <2>2. draft' \in [Call -> Policies \cup {None}]
    BY <1>1, <1>4 DEF TypeOK
  <2>3. CallOK(c)' /\ Others(c) /\ pc'[c] = place /\ pc' \in [Call -> Place]
    BY <1>1, <1>4, <2>1, <2>2, Moved DEF Place
  <2>4. TypeOK'
    BY <1>1, <1>4, <2>3 DEF TypeOK, Place
  <2>5. QueueOK'
    BY <1>1, <2>3, QueueStands
  <2> QED BY <1>1, <1>2, <2>3, <2>4, <2>5, QuietStep
<1> QED BY <1>3, <1>4 DEF Authenticate

LEMMA RevokeStep ==
    ASSUME IInv, NEW c \in Call, Revoke(c)
    PROVE  IInv'
<1>1. /\ pc[c] \in {"discard", "handler"} /\ TypeOK /\ End(c)
      /\ sessions' = sessions \ {job[c].token}
      /\ UNCHANGED <<enabled, policies, apiKeys, cache, license, reported, queue,
                     recorded, lastReport, changed, behind, started, now, faults>>
  BY Unpack DEF Revoke, process, records, history
<1>2. Fading
  BY <1>1 DEF TypeOK, Fading, MayEnter, SessionLive
<1>3. TypeOK'
  BY <1>1, Ended DEF TypeOK, Place, Job
<1>4. QueueOK'
  BY <1>1, Ended, QueueStands
<1> QED BY <1>1, <1>2, <1>3, <1>4, Ended, QuietStep

\* The state a process is in, in a request that asks for it.
LEMMA CurrentType ==
    ASSUME IInv, NEW p \in Process
    PROVE  Current(p) \in States
<1>1. license[p] \in License \cup {None} /\ now \in Nat
  BY DEF IInv, TypeOK
<1> QED BY <1>1, StateType DEF Current

\* A mutation goes on when the licence is not frozen now, so it was not when the
\* request came.
LEMMA StatusStep ==
    ASSUME IInv, NEW c \in Call, pc[c] \in {"handler", "loaded"}, Status(c),
           job[c].op \in Mutations => job[c].entitled,
           UNCHANGED <<enabled, sessions, policies, apiKeys, cache, license,
                       recorded, lastReport, changed, behind, started, now, faults>>
    PROVE  IInv'
<1> DEFINE p == job[c].process
           state == Current(p)
           next == AfterStatus(c, state)
<1>1. TypeOK /\ p \in Process /\ state \in States /\ LockedOK(c)
  BY Unpack, CurrentType DEF AskOK
<1>2. next \in {"write", "ended"} /\ (next = "write" => May(c))
  <2>1. next = "write" => job[c].op \in Mutations /\ state # "frozen"
    BY DEF AfterStatus, MutationAllowed
  <2> QED BY <1>1, <2>1 DEF AfterStatus, May, LockedOK
<1>3. Fading
  BY Standing
<1>4. CASE Resume(c, next) /\ UNCHANGED <<reported, queue>>
  <2>1. CASE End(c)
    <3>1. TypeOK'
      BY <1>1, <1>4, <2>1, Ended DEF TypeOK, Place, Job
    <3>2. QueueOK'
      BY <1>4, <2>1, Ended, QueueStands
    <3> QED BY <1>3, <2>1, <3>1, <3>2, Ended, QuietStep
  <2>2. CASE next = "write" /\ Goto(c, "write") /\ UNCHANGED <<job, draft>>
    <3>1. draft' \in [Call -> Policies \cup {None}]
      BY <1>1, <2>2 DEF TypeOK
    <3>2. CallOK(c)' /\ Others(c) /\ pc' \in [Call -> Place]
      BY <1>2, <2>2, <3>1, Moved DEF Place
    <3>3. TypeOK'
      BY <1>1, <1>4, <2>2, <3>2 DEF TypeOK, Place
    <3>4. QueueOK'
      BY <1>4, <3>2, QueueStands
    <3> QED BY <1>3, <3>2, <3>3, <3>4, QuietStep
  <2> QED BY <1>2, <1>4, <2>1, <2>2 DEF Resume
<1>5. CASE /\ reported' = [reported EXCEPT ![p] = state]
           /\ Enqueue(c, <<"LICENSE_CHANGED", state>>, next)
           /\ UNCHANGED <<job, draft>>
  <2>1. <<"LICENSE_CHANGED", state>> \in Change \cup Report
    BY <1>1 DEF Report
  <2>2. draft' \in [Call -> Policies \cup {None}] /\ reported' \in [Process -> States]
    BY <1>1, <1>5 DEF TypeOK
  <2>3. CallOK(c)' /\ Others(c)
    BY <1>5, <2>2, Moved DEF Enqueue, Place
  <2>4. next = "write" => May(c)'
    BY <1>2, <1>5 DEF May
  <2>5. /\ QueueOK' /\ queue' \in [Process -> Seq(Task)]
        /\ pc' \in [Call -> Place] /\ pc'[c] = "append"
    BY <1>2, <1>5, <2>1, <2>3, <2>4, Enqueued
  <2>6. TypeOK'
    BY <1>1, <1>5, <2>2, <2>5 DEF TypeOK, Place, Task
  <2> QED BY <1>3, <2>3, <2>5, <2>6, QuietStep
<1> QED BY <1>4, <1>5 DEF Status, StateNow, Reporting

LEMMA GuardStep ==
    ASSUME IInv, NEW c \in Call, Guard(c)
    PROVE  IInv'
<1>1. /\ pc[c] = "handler" /\ job[c].op \in Mutations \cup {"status"}
      /\ TypeOK /\ PlaceOK(c)
      /\ UNCHANGED <<enabled, sessions, policies, apiKeys, cache, license,
                     recorded, lastReport, changed, behind, started, now, faults>>
  BY Unpack DEF Guard, database, records, history
<1>2. CASE End(c) /\ UNCHANGED <<reported, queue>>
  <2>1. TypeOK'
    BY <1>1, <1>2, Ended DEF TypeOK, Place, Job
  <2>2. QueueOK'
    BY <1>1, <1>2, Ended, QueueStands
  <2> QED BY <1>1, <1>2, <2>1, <2>2, Ended, QuietStep, Standing
<1>3. CASE (Admin(c) \/ job[c].op = "status") /\ Status(c)
  <2>1. job[c].op \in Mutations => job[c].op # "select" /\ job[c].op # "status"
    BY DEF Mutations, PolicyWrites, KeyWrites
  <2>2. job[c].op \in Mutations => job[c].entitled
    BY <1>1, <1>3, <2>1 DEF PlaceOK
  <2> QED BY <1>1, <1>3, <2>2, StatusStep
<1> QED BY <1>2, <1>3 DEF Guard

LEMMA LoadedStep ==
    ASSUME IInv, NEW c \in Call, Loaded(c)
    PROVE  IInv'
<1>1. /\ pc[c] = "loaded" /\ TypeOK /\ job[c].op = "load"
      /\ UNCHANGED <<enabled, sessions, policies, apiKeys, cache, license,
                     recorded, lastReport, changed, behind, started, now, faults>>
  BY Unpack DEF Loaded, database, records, history, PlaceOK
<1>2. CASE End(c) /\ UNCHANGED <<reported, queue>>
  <2>1. TypeOK'
    BY <1>1, <1>2, Ended DEF TypeOK, Place, Job
  <2>2. QueueOK'
    BY <1>1, <1>2, Ended, QueueStands
  <2> QED BY <1>1, <1>2, <2>1, <2>2, Ended, QuietStep, Standing
<1>3. CASE Status(c)
  <2>1. job[c].op \notin Mutations
    BY <1>1 DEF Mutations, PolicyWrites, KeyWrites
  <2> QED BY <1>1, <1>3, <2>1, StatusStep
<1> QED BY <1>2, <1>3 DEF Loaded

\* A new licence unlocks the requests of its process, whose locks were of the old one.
LEMMA LoadStep ==
    ASSUME IInv, NEW c \in Call, Load(c)
    PROVE  IInv'
<1> DEFINE p == job[c].process
           new == job[c].id
           state == LicenseState(new, now)
<1>1. /\ pc[c] = "handler" /\ job[c].op = "load" /\ TypeOK /\ AskOK(c)
      /\ p \in Process /\ new \in License \cup {None} /\ now \in Nat
      /\ UNCHANGED <<enabled, sessions, policies, apiKeys, cache,
                     recorded, lastReport, changed, behind, started, now, faults>>
  BY Unpack DEF Load, database, records, history, AskOK, TypeOK
<1>2. CASE End(c) /\ UNCHANGED <<license, reported, queue>>
  <2>1. TypeOK'
    BY <1>1, <1>2, Ended DEF TypeOK, Place, Job
  <2>2. QueueOK'
    BY <1>1, <1>2, Ended, QueueStands
  <2> QED BY <1>1, <1>2, <2>1, <2>2, Ended, QuietStep, Standing
<1>3. CASE /\ license' = [license EXCEPT ![p] = new]
           /\ reported' = [reported EXCEPT ![p] = state]
           /\ job' = [d \in Call |-> IF job[d].process = p THEN Unlocked(job[d]) ELSE job[d]]
           /\ Enqueue(c, <<"LICENSE_CHANGED", state>>, "loaded")
           /\ UNCHANGED draft
  <2>1. state \in States /\ <<"LICENSE_CHANGED", state>> \in Change \cup Report
    BY <1>1, StateType DEF Report
  <2>2. license' \in [Process -> License \cup {None}] /\ reported' \in [Process -> States]
    BY <1>1, <1>3, <2>1 DEF TypeOK
  <2>3. ASSUME NEW d \in Call PROVE Unlocked(job[d]) \in Job
    <3>1. job[d] \in Job
      BY Unpack
    <3> QED BY <3>1 DEF Job, Unlocked
  <2>4. job' \in [Call -> Job]
    BY <1>1, <1>3, <2>3 DEF TypeOK, Job
  <2>5. pc' = [pc EXCEPT ![c] = "append"]
    BY <1>3 DEF Enqueue, Goto
  <2>6. Others(c)
    <3> SUFFICES ASSUME NEW d \in Call \ {c} PROVE SameRequest(d)
      BY DEF Others
    <3>1. pc'[d] = pc[d] /\ draft'[d] = draft[d]
      BY <1>1, <1>3, <2>5 DEF TypeOK
    <3>2. CASE job[d].process = p
      <4>1. job'[d] = Unlocked(job[d])
        BY <1>3, <3>2
      <4>2. job[d] = NoJob => job'[d] = NoJob
        BY <4>1 DEF Unlocked, NoJob
      <4> QED BY <3>1, <4>1, <4>2 DEF Unlocked, SameRequest
    <3>3. CASE job[d].process # p
      <4>1. job'[d] = job[d]
        BY <1>3, <3>3
      <4>2. job[d].locked => license'[job[d].process] = license[job[d].process]
        BY <1>1, <1>3, <3>3 DEF TypeOK
      <4> QED BY <3>1, <4>1, <4>2 DEF SameRequest
    <3> QED BY <3>2, <3>3
  <2>7. job'[c] = Unlocked(job[c]) /\ pc'[c] = "append"
    BY <1>1, <1>3, <2>5 DEF TypeOK
  <2>8. CallOK(c)'
    BY <1>1, <2>7 DEF CallOK, AskOK, PlaceOK, LockedOK, Unlocked
  <2>9. job'[c].process = job[c].process /\ job'[c].op = "load"
    BY <1>1, <2>7 DEF Unlocked
  <2>10. QueueOK' /\ queue' \in [Process -> Seq(Task)] /\ pc' \in [Call -> Place]
    BY <1>1, <1>3, <2>1, <2>6, <2>9, Enqueued
  <2>11. TypeOK'
    BY <1>1, <1>3, <2>2, <2>4, <2>10 DEF TypeOK, Place, Task, Job
  <2> QED BY <1>1, <2>6, <2>8, <2>10, <2>11, QuietStep, Standing
<1> QED BY <1>2, <1>3 DEF Load, ReportedAfterLoad

\* What a change is called.
LEMMA ChangeType ==
    ASSUME IInv, NEW c \in Call, job[c].op \in Mutations, pc[c] # "ended"
    PROVE  ChangeOf(c) \in Change
<1>1. AskOK(c)
  BY Unpack
<1>2. CASE job[c].op \in PolicyWrites
  <2>1. KindOf[job[c].op] = "POLICY_CHANGED"
    BY <1>2 DEF PolicyWrites, KindOf
  <2> QED BY <1>1, <1>2, <2>1 DEF AskOK, ChangeOf, Change
<1>3. CASE job[c].op \in KeyWrites
  <2>1. KindOf[job[c].op] \in {"KEY_CREATED", "KEY_REVOKED"}
    BY <1>3 DEF KeyWrites, KindOf
  <2> QED BY <1>1, <1>3, <2>1 DEF AskOK, ChangeOf, Change
<1> QED BY <1>2, <1>3 DEF Mutations

\* The statement of a change keeps the types; one on the keys leaves the policies.
LEMMA Effect ==
    ASSUME IInv, NEW c \in Call, job[c].op \in Mutations, pc[c] # "ended",
           IF TakesEffect(c) THEN TakeEffect(c) ELSE UNCHANGED <<policies, apiKeys, changed>>
    PROVE  /\ policies' \in Policies /\ apiKeys' \in [ApiKey -> KeyStates]
           /\ changed' \in [Change -> Nat]
           /\ job[c].op \in KeyWrites => policies' = policies
<1>1. /\ policies \in Policies /\ apiKeys \in [ApiKey -> KeyStates] /\ changed \in [Change -> Nat]
      /\ AskOK(c)
  BY Unpack DEF IInv, TypeOK
<1>2. CASE UNCHANGED <<policies, apiKeys, changed>>
  BY <1>1, <1>2
<1>3. CASE TakeEffect(c)
  <2>1. changed' \in [Change -> Nat]
    <3>1. changed' = changed \/ changed' = [changed EXCEPT ![ChangeOf(c)] = changed[ChangeOf(c)] + 1]
      BY <1>3 DEF TakeEffect
    <3>2. ChangeOf(c) \in Change
      BY ChangeType
    <3> QED BY <1>1, <3>1, <3>2
  <2>2. CASE job[c].op = "putPolicy"
    <3>1. policies' = [policies EXCEPT ![job[c].id] = AsStored(job[c].row)] /\ apiKeys' = apiKeys
      BY <1>3, <2>2 DEF TakeEffect
    <3>2. job[c].row \in Row /\ job[c].op \notin KeyWrites
      BY <1>1, <2>2 DEF AskOK, KeyWrites
    <3>3. AsStored(job[c].row) \in {AsStored(r) : r \in Row} \cup {None}
      BY <3>2
    <3> QED BY <1>1, <2>1, <3>1, <3>2, <3>3 DEF Policies
  <2>3. CASE job[c].op = "deletePolicy"
    <3>1. policies' = [policies EXCEPT ![job[c].id] = None] /\ apiKeys' = apiKeys
      BY <1>3, <2>3 DEF TakeEffect
    <3> QED BY <1>1, <2>1, <2>3, <3>1 DEF Policies, KeyWrites
  <2>4. CASE job[c].op \in KeyWrites
    <3>1. policies' = policies
      BY <1>3, <2>4 DEF TakeEffect, KeyWrites
    <3>2. \/ apiKeys' = [apiKeys EXCEPT ![job[c].id] = "active"]
          \/ apiKeys' = [apiKeys EXCEPT ![job[c].id] = "revoked"]
      BY <1>3, <2>4 DEF TakeEffect, KeyWrites
    <3> QED BY <1>1, <2>1, <3>1, <3>2 DEF KeyStates
  <2> QED BY <2>2, <2>3, <2>4 DEF Mutations, PolicyWrites
<1> QED BY <1>2, <1>3

LEMMA WriteStep ==
    ASSUME IInv, NEW c \in Call, Write(c)
    PROVE  IInv'
<1> DEFINE p == job[c].process
<1>1. /\ pc[c] = "write" /\ TypeOK /\ AskOK(c) /\ May(c) /\ job[c].op \in Mutations /\ p \in Process
      /\ UNCHANGED <<enabled, sessions, cache, license, reported, queue, recorded, lastReport,
                     started, now>>
  BY Unpack DEF Write, process, records, PlaceOK, May, AskOK
<1>2. /\ policies' \in Policies /\ apiKeys' \in [ApiKey -> KeyStates]
      /\ changed' \in [Change -> Nat]
      /\ job[c].op \in KeyWrites => policies' = policies
  BY <1>1, Effect DEF Write
<1>3. Fading
  BY <1>1, Standing
<1>4. ASSUME Others(c) PROVE \A d \in Call, q \in Process : Pending(d, q) => Pending(d, q)'
  BY <1>1, <1>4 DEF Pending, Others, SameRequest
<1>5. CASE /\ Goto(c, IF TakesEffect(c) THEN "written" ELSE "missed")
           /\ behind' = Overtaken(c, Process \ {p})
           /\ UNCHANGED <<job, draft, faults>>
  <2>1. draft' \in [Call -> Policies \cup {None}]
    BY <1>1, <1>5 DEF TypeOK
  <2>2. PICK place \in {"written", "missed"} : Goto(c, place)
    BY <1>5
  <2>3. CallOK(c)' /\ Others(c) /\ pc'[c] = place /\ pc' \in [Call -> Place]
    BY <1>1, <1>5, <2>1, <2>2, Moved DEF Place
  <2>4. TypeOK'
    BY <1>1, <1>2, <1>5, <2>3 DEF TypeOK, Overtaken, Place
  <2>5. QueueOK' /\ CallsOK'
    BY <1>1, <1>3, <2>3, QueueStands, OthersKept
  <2>6. CacheOK'
    <3>1. CASE job[c].op \in PolicyWrites
      <4>1. \A q \in Process : q = p => Pending(c, q)'
        BY <1>5, <2>3, <3>1 DEF Pending
      <4>2. behind' = behind \cup (Process \ {p})
        BY <1>5, <3>1 DEF Overtaken
      <4> QED BY <4>1, <4>2 DEF CacheOK
    <3>2. CASE job[c].op \notin PolicyWrites
      <4>1. policies' = policies /\ behind' = behind
        BY <1>1, <1>2, <1>5, <3>2 DEF Overtaken, Mutations
      <4> QED BY <1>1, <1>4, <2>3, <4>1 DEF IInv, CacheOK
    <3> QED BY <3>1, <3>2
  <2> QED BY <2>4, <2>5, <2>6 DEF IInv
<1>6. CASE faults' = faults + 1 /\ behind' = Overtaken(c, Process) /\ End(c)
  <2>1. TypeOK'
    <3>1. behind' \subseteq Process /\ faults' \in Nat
      BY <1>1, <1>6 DEF TypeOK, Overtaken
    <3>2. /\ pc' \in [Call -> Place] /\ job' \in [Call -> Job]
          /\ draft' \in [Call -> Policies \cup {None}]
      BY <1>1, <1>6, Ended
    <3> QED BY <1>1, <1>2, <3>1, <3>2 DEF TypeOK, Place, Job
  <2>2. QueueOK' /\ CallsOK' /\ Others(c)
    BY <1>1, <1>3, <1>6, Ended, QueueStands, OthersKept
  <2>3. CacheOK'
    <3>1. CASE job[c].op \in PolicyWrites
      BY <1>6, <3>1 DEF CacheOK, Overtaken
    <3>2. CASE job[c].op \notin PolicyWrites
      <4>1. policies' = policies /\ behind' = behind
        BY <1>1, <1>2, <1>6, <3>2 DEF Overtaken, Mutations
      <4> QED BY <1>1, <1>4, <2>2, <4>1 DEF IInv, CacheOK
    <3> QED BY <3>1, <3>2
  <2> QED BY <2>1, <2>2, <2>3 DEF IInv
<1> QED BY <1>5, <1>6 DEF Write

\* The invalidation that was to come has come.
LEMMA WrittenStep ==
    ASSUME IInv, NEW c \in Call, Written(c)
    PROVE  IInv'
<1> DEFINE p == job[c].process
<1>1. /\ pc[c] \in {"written", "missed"} /\ TypeOK /\ AskOK(c) /\ job[c].op \in Mutations
      /\ p \in Process
      /\ cache' = Invalidated(c)
      /\ behind' = IF job[c].op \in PolicyWrites THEN behind \ {p} ELSE behind
      /\ UNCHANGED <<enabled, sessions, policies, apiKeys, license, reported, recorded, lastReport,
                     changed, started, now, faults>>
  BY Unpack DEF Written, database, records, PlaceOK, May, AskOK
<1>2. cache' \in [Process -> Policies \cup {None}] /\ behind' \subseteq Process /\ Fading
  BY <1>1, Standing DEF TypeOK, Invalidated
<1>3. ASSUME Others(c) PROVE CacheOK'
  <2>1. \A d \in Call \ {c}, q \in Process : Pending(d, q) => Pending(d, q)'
    BY <1>3 DEF Pending, Others, SameRequest
  <2>2. CASE job[c].op \in PolicyWrites
    <3>1. \A q \in Process : cache'[q] = IF q = p THEN None ELSE cache[q]
      BY <1>1, <2>2 DEF TypeOK, Invalidated
    <3>2. \A q \in Process : q \in behind /\ q # p => q \in behind'
      BY <1>1, <2>2
    <3>3. \A q \in Process : Pending(c, q) => q = p
      BY DEF Pending
    <3> QED BY <1>1, <2>1, <3>1, <3>2, <3>3 DEF IInv, CacheOK
  <2>3. CASE job[c].op \notin PolicyWrites
    <3>1. cache' = cache /\ behind' = behind /\ policies' = policies
      BY <1>1, <2>3 DEF Invalidated
    <3>2. \A q \in Process : ~Pending(c, q)
      BY <2>3 DEF Pending
    <3> QED BY <2>1, <3>1, <3>2 DEF IInv, CacheOK
  <2> QED BY <2>2, <2>3
<1>4. CASE Enqueue(c, ChangeOf(c), "ended") /\ UNCHANGED <<job, draft>>
  <2>1. ChangeOf(c) \in Change \cup Report
    BY <1>1, ChangeType
  <2>2. draft' \in [Call -> Policies \cup {None}]
    BY <1>1, <1>4 DEF TypeOK
  <2>3. CallOK(c)' /\ Others(c)
    BY <1>1, <1>4, <2>2, Moved DEF Enqueue, Place
  <2>4. QueueOK' /\ queue' \in [Process -> Seq(Task)] /\ pc' \in [Call -> Place]
    BY <1>1, <1>4, <2>1, <2>3, Enqueued
  <2>5. TypeOK'
    BY <1>1, <1>2, <1>4, <2>2, <2>4 DEF TypeOK, Place, Task
  <2> QED BY <1>2, <1>3, <2>3, <2>4, <2>5, OthersKept DEF IInv
<1>5. CASE End(c) /\ UNCHANGED queue
  <2>1. TypeOK'
    BY <1>1, <1>2, <1>5, Ended DEF TypeOK, Place, Job
  <2>2. QueueOK' /\ CallsOK' /\ Others(c)
    BY <1>1, <1>2, <1>5, Ended, QueueStands, OthersKept
  <2> QED BY <1>3, <2>1, <2>2 DEF IInv
<1> QED BY <1>4, <1>5 DEF Written

\* The queue of a process after its first append: the others wait on.
LEMMA Popped ==
    ASSUME IInv, NEW p \in Process, queue[p] # <<>>,
           queue' = [queue EXCEPT ![p] = Tail(queue[p])],
           Others(Head(queue[p]).call)
    PROVE  QueueOK' /\ queue' \in [Process -> Seq(Task)]
<1>1. queue \in [Process -> Seq(Task)] /\ QueueOK
  BY DEF IInv, TypeOK, Task
<1>2. queue[p] \in Seq(Task) /\ Len(queue[p]) \in Nat /\ Len(queue[p]) >= 1
  BY <1>1
<1>3. PICK first \in Task : first = queue[p][1] /\ first = Head(queue[p])
  BY <1>2
<1>4. /\ Tail(queue[p]) \in Seq(Task) /\ Len(Tail(queue[p])) = Len(queue[p]) - 1
      /\ \A n \in 1 .. Len(queue[p]) - 1 : Tail(queue[p])[n] = queue[p][n + 1]
  BY <1>2
<1>5. /\ queue' \in [Process -> Seq(Task)] /\ queue'[p] = Tail(queue[p])
      /\ \A q \in Process \ {p} : queue'[q] = queue[q]
  BY <1>1, <1>4
<1>6. first.call \in Call /\ TaskOK(p, first)
  BY <1>1, <1>2, <1>3 DEF QueueOK, Task
<1>7. \A d \in Call : d # first.call => SameRequest(d)
  BY <1>3 DEF Others
<1>8. ASSUME NEW q \in Process, NEW n \in 1 .. Len(queue'[q])
      PROVE  TaskOK(q, queue[q][n])'
  <2>1. CASE q = p
    <3>1. n + 1 \in 1 .. Len(queue[p]) /\ n + 1 # 1 /\ 1 \in 1 .. Len(queue[p])
          /\ queue'[p][n] = queue[p][n + 1]
      BY <1>2, <1>4, <1>5, <2>1
    <3>2. PICK task \in Task : task = queue[p][n + 1]
      BY <1>2, <3>1
    <3>3. TaskOK(p, task) /\ task.call # first.call
      BY <1>1, <1>3, <3>1, <3>2 DEF QueueOK
    <3>4. TaskOK(p, task)'
      BY <1>7, <3>3, TaskKept DEF Task
    <3> QED BY <2>1, <3>1, <3>2, <3>4 DEF TaskOK, May
  <2>2. CASE q # p
    <3>1. n \in 1 .. Len(queue[q]) /\ queue'[q][n] = queue[q][n]
      BY <1>5, <2>2
    <3>2. PICK task \in Task : task = queue[q][n]
      BY <1>1, <3>1
    <3>3. TaskOK(q, task)
      BY <1>1, <3>1, <3>2 DEF QueueOK
    <3>4. task.call # first.call
      BY <1>6, <2>2, <3>3 DEF TaskOK
    <3>5. TaskOK(q, task)'
      BY <1>7, <3>3, <3>4, TaskKept DEF Task
    <3> QED BY <3>1, <3>2, <3>5 DEF TaskOK, May
  <2> QED BY <2>1, <2>2
<1>9. ASSUME NEW q \in Process, NEW m \in 1 .. Len(queue'[q]), NEW n \in 1 .. Len(queue'[q]),
             queue'[q][m].call = queue'[q][n].call
      PROVE  m = n
  <2>1. CASE q = p
    <3>1. /\ m + 1 \in 1 .. Len(queue[p]) /\ n + 1 \in 1 .. Len(queue[p])
          /\ queue'[p][m] = queue[p][m + 1] /\ queue'[p][n] = queue[p][n + 1]
      BY <1>2, <1>4, <1>5, <2>1
    <3>2. m + 1 = n + 1
      BY <1>1, <1>9, <2>1, <3>1 DEF QueueOK
    <3> QED BY <3>2
  <2>2. CASE q # p
    BY <1>1, <1>5, <1>9, <2>2 DEF QueueOK
  <2> QED BY <2>1, <2>2
<1> QED BY <1>5, <1>8, <1>9 DEF QueueOK

LEMMA AppendedStep ==
    ASSUME IInv, NEW p \in Process, Appended(p)
    PROVE  IInv'
<1>1. queue[p] # <<>> /\ queue' = [queue EXCEPT ![p] = Tail(queue[p])]
      /\ TypeOK /\ queue \in [Process -> Seq(Task)]
      /\ UNCHANGED <<enabled, sessions, policies, apiKeys, cache, license, reported,
                     changed, behind, started, now>>
  BY DEF Appended, IInv, TypeOK, Task, database, history
<1>2. PICK task \in Task : task = Head(queue[p]) /\ task = queue[p][1] /\ 1 \in 1 .. Len(queue[p])
  BY <1>1
<1>3. TaskOK(p, task)
  BY <1>2 DEF IInv, QueueOK
<1>4. PICK c \in Call : c = task.call
  BY DEF Task
<1>5. pc[c] = "append" /\ task.next \in {"loaded", "write", "ended"} /\ task.about \in Change \cup Report
  BY <1>3, <1>4 DEF TaskOK, Task
<1>6. Fading
  BY <1>1, Standing
<1>7. recorded' \in [Change -> Nat] /\ lastReport' \in [Process -> States] /\ faults' \in Nat
      /\ (Resume(c, task.next) \/ End(c))
  <2> DEFINE stored == \/ /\ task.about \in Change
                         /\ recorded' = [recorded EXCEPT ![task.about] = recorded[task.about] + 1]
                         /\ UNCHANGED lastReport
                      \/ /\ task.about \in Report
                         /\ lastReport' = [lastReport EXCEPT ![p] = task.about[2]]
                         /\ UNCHANGED recorded
  <2>1. \/ stored /\ Resume(c, task.next) /\ UNCHANGED faults
        \/ faults' = faults + 1 /\ (stored \/ UNCHANGED <<recorded, lastReport>>) /\ End(c)
    BY <1>2, <1>4 DEF Appended, records
  <2>2. recorded \in [Change -> Nat] /\ lastReport \in [Process -> States] /\ faults \in Nat
    BY <1>1 DEF TypeOK
  <2>3. ASSUME stored PROVE recorded' \in [Change -> Nat] /\ lastReport' \in [Process -> States]
    <3>1. task.about \in Report => task.about[2] \in States
      BY DEF Report
    <3> QED BY <2>2, <2>3, <3>1
  <2> QED BY <2>1, <2>2, <2>3
<1>8. CASE End(c)
  <2>1. CallOK(c)' /\ Others(c) /\ pc' \in [Call -> Place] /\ job' \in [Call -> Job]
        /\ draft' \in [Call -> Policies \cup {None}]
    BY <1>1, <1>8, Ended
  <2>2. QueueOK' /\ queue' \in [Process -> Seq(Task)]
    BY <1>1, <1>2, <1>4, <2>1, Popped
  <2>3. TypeOK'
    BY <1>1, <1>7, <2>1, <2>2 DEF TypeOK, Place, Job, Task
  <2> QED BY <1>1, <1>5, <1>6, <2>1, <2>2, <2>3, QuietStep
<1>9. CASE task.next # "ended" /\ Goto(c, task.next) /\ UNCHANGED <<job, draft>>
  <2>1. task.next = "write" => May(c)
    BY <1>3, <1>4 DEF TaskOK
  <2>2. task.next = "loaded" => job[c].op = "load"
    BY <1>3, <1>4 DEF TaskOK
  <2>3. draft' \in [Call -> Policies \cup {None}]
    BY <1>1, <1>9 DEF TypeOK
  <2>4. CallOK(c)' /\ Others(c) /\ pc' \in [Call -> Place]
    BY <1>1, <1>5, <1>9, <2>1, <2>2, <2>3, Moved DEF Place
  <2>5. QueueOK' /\ queue' \in [Process -> Seq(Task)]
    BY <1>1, <1>2, <1>4, <2>4, Popped
  <2>6. TypeOK'
    BY <1>1, <1>7, <1>9, <2>4, <2>5 DEF TypeOK, Place, Task
  <2> QED BY <1>1, <1>5, <1>6, <2>4, <2>5, <2>6, QuietStep
<1> QED BY <1>7, <1>8, <1>9 DEF Resume

LEMMA FailStep ==
    ASSUME IInv, NEW c \in Call, Fail(c)
    PROVE  IInv'
<1>1. /\ pc[c] \in {"arrived", "discard", "list", "write", "handler"} /\ TypeOK
      /\ faults' = faults + 1 /\ End(c)
      /\ UNCHANGED <<enabled, sessions, policies, apiKeys, cache, license, reported, queue,
                     recorded, lastReport, changed, behind, started, now>>
  BY Unpack DEF Fail, database, process, records, history
<1>2. TypeOK'
  <2>1. faults' \in Nat
    BY <1>1 DEF TypeOK
  <2> QED BY <1>1, <2>1, Ended DEF TypeOK, Place, Job
<1>3. QueueOK'
  BY <1>1, Ended, QueueStands
<1> QED BY <1>1, <1>2, <1>3, Ended, QuietStep, Standing

LEMMA ConsultStep ==
    ASSUME IInv, NEW c \in Call, Consult(c)
    PROVE  IInv'
<1>1. /\ pc[c] = "handler" /\ TypeOK
      /\ UNCHANGED <<enabled, sessions, policies, apiKeys, cache, license, reported, queue,
                     recorded, lastReport, changed, behind, started, now, faults>>
  BY Unpack DEF Consult, database, process, records, history
<1>2. CASE End(c)
  <2>1. TypeOK'
    BY <1>1, <1>2, Ended DEF TypeOK, Place, Job
  <2>2. QueueOK'
    BY <1>1, <1>2, Ended, QueueStands
  <2> QED BY <1>1, <1>2, <2>1, <2>2, Ended, QuietStep, Standing
<1>3. CASE Goto(c, "list") /\ UNCHANGED <<job, draft>>
  <2>1. draft' \in [Call -> Policies \cup {None}]
    BY <1>1, <1>3 DEF TypeOK
  <2>2. CallOK(c)' /\ Others(c) /\ pc' \in [Call -> Place]
    BY <1>1, <1>3, <2>1, Moved DEF Place
  <2>3. TypeOK'
    BY <1>1, <1>3, <2>2 DEF TypeOK, Place
  <2>4. QueueOK'
    BY <1>1, <2>2, QueueStands
  <2> QED BY <1>1, <2>2, <2>3, <2>4, QuietStep, Standing
<1> QED BY <1>2, <1>3 DEF Consult

LEMMA ListStep ==
    ASSUME IInv, NEW c \in Call, List(c)
    PROVE  IInv'
<1>1. /\ pc[c] = "list" /\ TypeOK /\ Goto(c, "fill")
      /\ draft' = [draft EXCEPT ![c] = policies]
      /\ UNCHANGED <<enabled, sessions, policies, apiKeys, cache, license, reported, queue, job,
                     recorded, lastReport, changed, behind, started, now, faults>>
  BY Unpack DEF List, database, process, records, history
<1>2. /\ draft' \in [Call -> Policies \cup {None}] /\ draft'[c] \in Policies
      /\ \A d \in Call \ {c} : draft'[d] = draft[d]
  BY <1>1 DEF TypeOK
<1>3. CallOK(c)' /\ Others(c) /\ pc' \in [Call -> Place]
  BY <1>1, <1>2, Moved DEF Place
<1>4. TypeOK'
  BY <1>1, <1>2, <1>3 DEF TypeOK, Place
<1>5. QueueOK'
  BY <1>1, <1>3, QueueStands
<1> QED BY <1>1, <1>3, <1>4, <1>5, QuietStep, Standing

LEMMA FillStep ==
    ASSUME IInv, NEW c \in Call, Fill(c)
    PROVE  IInv'
<1> DEFINE p == job[c].process
<1>1. /\ pc[c] = "fill" /\ TypeOK /\ p \in Process /\ draft[c] \in Policies /\ End(c)
      /\ cache' = [cache EXCEPT ![p] = draft[c]]
      /\ behind' = IF draft[c] = policies THEN behind \ {p} ELSE behind \cup {p}
      /\ UNCHANGED <<enabled, sessions, policies, apiKeys, license, reported, queue,
                     recorded, lastReport, changed, started, now, faults>>
  BY Unpack DEF Fill, database, records, AskOK, PlaceOK
<1>2. Others(c) /\ CallsOK' /\ QueueOK'
  BY <1>1, Ended, Standing, OthersKept, QueueStands
<1>3. TypeOK'
  <2>1. cache' \in [Process -> Policies \cup {None}] /\ behind' \subseteq Process
    BY <1>1 DEF TypeOK
  <2> QED BY <1>1, <2>1, Ended DEF TypeOK, Place, Job
<1>4. CacheOK'
  <2> SUFFICES ASSUME NEW q \in Process
               PROVE  cache'[q] \in {None, policies} \/ q \in behind' \/ \E d \in Call : Pending(d, q)'
    BY <1>1 DEF CacheOK
  <2>1. CASE q = p
    BY <1>1, <2>1 DEF TypeOK
  <2>2. CASE q # p
    <3>1. cache'[q] = cache[q] /\ (q \in behind => q \in behind')
      BY <1>1, <2>2 DEF TypeOK
    <3>2. ASSUME NEW d \in Call, Pending(d, q) PROVE Pending(d, q)'
      BY <1>1, <1>2, <3>2 DEF Pending, Others, SameRequest
    <3> QED BY <3>1, <3>2 DEF IInv, CacheOK
  <2> QED BY <2>1, <2>2
<1> QED BY <1>2, <1>3, <1>4 DEF IInv

\* The requests and the queue of a process that starts again are gone.
LEMMA RestartStep ==
    ASSUME IInv, NEW p \in Process, Restart(p)
    PROVE  IInv'
<1> DEFINE kept == {c \in Call : job[c].process # p}
<1>1. /\ TypeOK
      /\ faults' = faults + 1
      /\ cache' = [cache EXCEPT ![p] = None]
      /\ license' = [license EXCEPT ![p] = Boot]
      /\ reported' = [reported EXCEPT ![p] = LicenseState(Boot, now)]
      /\ lastReport' = [lastReport EXCEPT ![p] = LicenseState(Boot, now)]
      /\ queue' = [queue EXCEPT ![p] = <<>>]
      /\ pc' = [c \in Call |-> IF c \in kept THEN pc[c] ELSE "ended"]
      /\ job' = [c \in Call |-> IF c \in kept THEN job[c] ELSE NoJob]
      /\ draft' = [c \in Call |-> IF c \in kept THEN draft[c] ELSE None]
      /\ behind' = behind \ {p}
      /\ UNCHANGED <<enabled, sessions, policies, apiKeys, recorded, changed, started, now>>
  BY DEF Restart, IInv, database
<1>2. Fading
  BY <1>1, Standing
<1>3. ASSUME NEW d \in Call, d \in kept PROVE SameRequest(d)
  <2>1. AskOK(d) /\ TypeOK
    BY Unpack
  <2>2. job[d].locked => license'[job[d].process] = license[job[d].process]
    <3>1. job[d].locked => job[d].process \in Process
      BY <2>1 DEF AskOK, NoJob
    <3> QED BY <1>1, <1>3, <3>1 DEF TypeOK
  <2>3. pc'[d] = pc[d] /\ job'[d] = job[d] /\ draft'[d] = draft[d]
    BY <1>1, <1>3
  <2> QED BY <2>2, <2>3 DEF SameRequest
<1>4. CallsOK'
  <2> SUFFICES ASSUME NEW d \in Call PROVE CallOK(d)'
    BY DEF CallsOK
  <2>1. CASE d \in kept
    BY <1>2, <1>3, <2>1, SameKept
  <2>2. CASE d \notin kept
    <3>1. pc'[d] = "ended" /\ job'[d] = NoJob
      BY <1>1, <2>2
    <3> QED BY <3>1 DEF CallOK, AskOK, PlaceOK, LockedOK, NoJob
  <2> QED BY <2>1, <2>2
<1>5. queue \in [Process -> Seq(Task)] /\ queue' \in [Process -> Seq(Task)]
      /\ queue'[p] = <<>> /\ \A q \in Process \ {p} : queue'[q] = queue[q]
  <2>1. queue \in [Process -> Seq(Task)]
    BY DEF IInv, TypeOK, Task
  <2>2. <<>> \in Seq(Task)
    OBVIOUS
  <2> QED BY <1>1, <2>1, <2>2
<1>6. TypeOK'
  <2>1. LicenseState(Boot, now) \in States
    BY <1>1, StateType, AdminAssumption DEF TypeOK
  <2>2. /\ reported' \in [Process -> States] /\ lastReport' \in [Process -> States]
        /\ license' \in [Process -> License \cup {None}]
        /\ cache' \in [Process -> Policies \cup {None}]
        /\ behind' \subseteq Process /\ faults' \in Nat
    BY <1>1, <2>1, AdminAssumption DEF TypeOK
  <2>3. NoJob \in Job
    BY DEF NoJob, Job
  <2>4. /\ pc' \in [Call -> Place] /\ job' \in [Call -> Job]
        /\ draft' \in [Call -> Policies \cup {None}]
    BY <1>1, <2>3 DEF TypeOK, Place, Job
  <2> QED BY <1>1, <1>5, <2>2, <2>4 DEF TypeOK, Place, Job, Task
<1>7. QueueOK'
  <2>1. ASSUME NEW q \in Process, NEW n \in 1 .. Len(queue'[q])
        PROVE  TaskOK(q, queue[q][n])'
    <3>1. q # p /\ n \in 1 .. Len(queue[q]) /\ queue'[q] = queue[q]
      BY <1>5, <2>1
    <3>2. PICK task \in Task : task = queue[q][n]
      BY <1>5, <3>1
    <3>3. TaskOK(q, task)
      BY <3>1, <3>2 DEF IInv, QueueOK
    <3>4. task.call \in kept
      BY <3>1, <3>3 DEF TaskOK, Task
    <3>5. TaskOK(q, task)'
      BY <1>3, <3>3, <3>4, TaskKept
    <3> QED BY <3>1, <3>2, <3>5 DEF TaskOK, May
  <2>2. ASSUME NEW q \in Process, NEW m \in 1 .. Len(queue'[q]), NEW n \in 1 .. Len(queue'[q]),
               queue'[q][m].call = queue'[q][n].call
        PROVE  m = n
    <3>1. q # p /\ queue'[q] = queue[q]
      BY <1>5, <2>2
    <3> QED BY <2>2, <3>1 DEF IInv, QueueOK
  <2> QED BY <2>1, <2>2 DEF QueueOK
<1>8. CacheOK'
  <2> SUFFICES ASSUME NEW q \in Process
               PROVE  cache'[q] \in {None, policies} \/ q \in behind' \/ \E d \in Call : Pending(d, q)'
    BY <1>1 DEF CacheOK
  <2>1. CASE q = p
    BY <1>1, <2>1 DEF TypeOK
  <2>2. CASE q # p
    <3>1. cache'[q] = cache[q] /\ (q \in behind => q \in behind')
      BY <1>1, <2>2 DEF TypeOK
    <3>2. ASSUME NEW d \in Call, Pending(d, q) PROVE Pending(d, q)'
      BY <1>3, <2>2, <3>2 DEF Pending, SameRequest
    <3> QED BY <3>1, <3>2 DEF IInv, CacheOK
  <2> QED BY <2>1, <2>2
<1> QED BY <1>4, <1>6, <1>7, <1>8 DEF IInv

\* The clock, an operator and a stutter leave all requests as they are.
LEMMA StillStep ==
    ASSUME IInv, Fading, enabled' \in [User -> BOOLEAN], faults' \in Nat,
           UNCHANGED <<sessions, policies, apiKeys, cache, license, reported, queue, pc, job, draft,
                       recorded, lastReport, changed, behind, started>>
    PROVE  IInv'
<1>1. TypeOK'
  BY DEF IInv, TypeOK, Fading
<1>2. \A d \in Call : SameRequest(d)
  BY DEF SameRequest
<1>3. CallsOK'
  BY <1>2, SameKept DEF CallsOK
<1>4. QueueOK' /\ CacheOK'
  BY DEF IInv, QueueOK, TaskOK, May, CacheOK, Pending
<1> QED BY <1>1, <1>3, <1>4 DEF IInv

-----------------------------------------------------------------------------
(* The results *)

LEMMA NextHolds == IInv /\ [Next]_vars => IInv'
<1> SUFFICES ASSUME IInv, [Next]_vars PROVE IInv'
  OBVIOUS
<1>1. ASSUME NEW c \in Call, Step(c) PROVE IInv'
  BY <1>1, RequestStep, AuthenticateStep, RevokeStep, GuardStep, LoadStep, LoadedStep, WriteStep,
     WrittenStep, ConsultStep, ListStep, FillStep, FailStep DEF Step
<1>2. CASE Tick
  <2>1. Fading
    <3>1. now \in Nat /\ now' = now + 1 /\ UNCHANGED <<enabled, sessions>>
      BY <1>2 DEF Tick, IInv, TypeOK, database
    <3>2. \A t \in Token : ExpiryOf[t] \in Nat
      BY AdminAssumption
    <3>3. \A t \in Token : ExpiryOf[t] > now' => ExpiryOf[t] > now
      BY <3>1, <3>2
    <3>4. now' \in Nat /\ now <= now'
      BY <3>1
    <3> QED BY <3>1, <3>3, <3>4 DEF Fading, MayEnter, SessionLive
  <2>2. enabled' \in [User -> BOOLEAN] /\ faults' \in Nat
    BY <1>2 DEF Tick, IInv, TypeOK, database
  <2> QED BY <1>2, <2>1, <2>2, StillStep DEF Tick, database, process, request, records, history
<1>3. ASSUME NEW u \in User, Disable(u) PROVE IInv'
  <2>1. enabled' = [enabled EXCEPT ![u] = FALSE] /\ enabled \in [User -> BOOLEAN]
    BY <1>3 DEF Disable, IInv, TypeOK
  <2>2. enabled' \in [User -> BOOLEAN] /\ \A v \in User : enabled'[v] => enabled[v]
    BY <2>1
  <2>3. Fading
    <3>1. \A t \in Token : OwnerOf[t] \in User
      BY AdminAssumption
    <3> QED BY <1>3, <2>2, <3>1 DEF Disable, IInv, TypeOK, Fading, MayEnter, SessionLive
  <2>4. faults' \in Nat
    BY <1>3 DEF Disable, IInv, TypeOK
  <2> QED BY <1>3, <2>2, <2>3, <2>4, StillStep DEF Disable, process, request, records, history
<1>4. CASE UNCHANGED vars
  <2>1. Fading
    BY <1>4, Standing DEF vars, database
  <2>2. enabled' \in [User -> BOOLEAN] /\ faults' \in Nat
    BY <1>4 DEF vars, IInv, TypeOK, database
  <2> QED BY <1>4, <2>1, <2>2, StillStep
          DEF vars, database, process, request, records, history
<1> QED BY <1>1, <1>2, <1>3, <1>4, AppendedStep, RestartStep DEF Next

\* The inductive invariant holds in every reachable state.
THEOREM InvariantHolds == Spec => []IInv
<1> QED BY InitHolds, NextHolds, PTL DEF Spec

\* Every variable has its type: licence states, queues and places are never
\* anything else (TypeOK).
THEOREM TypeCorrect == Spec => []TypeOK
<1>1. IInv => TypeOK
  BY DEF IInv
<1> QED BY <1>1, InvariantHolds, PTL

\* A request that came when the grace period was over changes nothing, however
\* long it waits for the audit trail, and whatever overtakes it.
THEOREM FrozenStaysReadOnly == Spec => []FrozenIsReadOnly
<1>1. IInv => FrozenIsReadOnly
  BY DEF IInv, CallsOK, CallOK, PlaceOK, May, FrozenIsReadOnly
<1> QED BY <1>1, InvariantHolds, PTL

\* Only requests of enabled admins with a live session change the configuration.
THEOREM AdminsOnly == Spec => []OnlyAdminsChange
<1>1. IInv => OnlyAdminsChange
  BY DEF IInv, CallsOK, CallOK, PlaceOK, May, OnlyAdminsChange
<1> QED BY <1>1, InvariantHolds, PTL

\* A policy cache is up to date but in the cases that behind names.
THEOREM CacheFresh == Spec => []FreshUnlessRaced
<1>1. IInv => FreshUnlessRaced
  BY DEF IInv, CacheOK, Pending, FreshUnlessRaced
<1> QED BY <1>1, InvariantHolds, PTL

\* Nothing is changed in the read-only state or by anyone but a live admin.
THEOREM ChangesStayAllowed == Spec => []ChangesAllowed
<1>1. FrozenIsReadOnly /\ OnlyAdminsChange => ChangesAllowed
  BY DEF ChangesAllowed
<1> QED BY <1>1, FrozenStaysReadOnly, AdminsOnly, PTL

-----------------------------------------------------------------------------
(* What a step means to the audit trail *)

\* The other requests ask for what they asked for, and are where they were.
SameAsked(d) == pc'[d] = pc[d] /\ job'[d].op = job[d].op /\ job'[d].id = job[d].id

OthersAsked(c) == \A d \in Call \ {c} : SameAsked(d)

Early == {"arrived", "discard", "handler", "write"}

\* Nothing is changed and no append begins or ends.
Quiet(c) ==
    /\ OthersAsked(c)
    /\ pc[c] \notin {"written", "append"} /\ pc'[c] \notin {"written", "append"}
    /\ job'[c].op = "createKey" =>
          job'[c] = job[c] /\ (pc'[c] \in Early => pc[c] \in Early)
    /\ UNCHANGED <<apiKeys, reported, queue, recorded, lastReport, changed>>
    /\ faults' = faults \/ faults' = faults + 1

\* A licence state is about to be put on record.
Reports(c) ==
    /\ OthersAsked(c) /\ job'[c].op = job[c].op /\ job'[c].id = job[c].id
    /\ pc[c] \in {"handler", "loaded"} /\ (job[c].op = "createKey" => pc[c] = "handler")
    /\ \E state \in States, next \in {"loaded", "write", "ended"} :
          /\ Enqueue(c, <<"LICENSE_CHANGED", state>>, next)
          /\ reported' = [reported EXCEPT ![job[c].process] = state]
    /\ UNCHANGED <<apiKeys, recorded, lastReport, changed, faults>>

\* A change is about to be put on record.
Records(c) ==
    /\ OthersAsked(c) /\ job'[c].op = job[c].op /\ job'[c].id = job[c].id
    /\ pc[c] = "written" /\ job[c].op \in Mutations
    /\ Enqueue(c, ChangeOf(c), "ended")
    /\ UNCHANGED <<apiKeys, reported, recorded, lastReport, changed, faults>>

\* A statement takes effect; its answer may be lost.
Changes(c) ==
    /\ OthersAsked(c)
    /\ pc[c] = "write" /\ job[c].op \in Mutations
    /\ TakesEffect(c) /\ TakeEffect(c)
    /\ \/ pc'[c] = "written" /\ job'[c].op = job[c].op /\ job'[c].id = job[c].id /\ faults' = faults
       \/ pc'[c] = "ended" /\ job'[c] = NoJob /\ faults' = faults + 1
    /\ UNCHANGED <<reported, queue, recorded, lastReport>>
\* A request that ends without having changed anything since it began its last
\* statement.
LEMMA EndQuietly ==
    ASSUME IInv, NEW c \in Call, End(c), pc[c] \notin {"written", "append"},
           UNCHANGED <<apiKeys, reported, queue, recorded, lastReport, changed>>,
           faults' = faults \/ faults' = faults + 1
    PROVE  Quiet(c)
<1>1. /\ pc' = [pc EXCEPT ![c] = "ended"] /\ job' = [job EXCEPT ![c] = NoJob]
      /\ DOMAIN pc = Call /\ DOMAIN job = Call
  BY DEF End, Goto, IInv, TypeOK
<1>2. pc'[c] = "ended" /\ job'[c] = NoJob /\ OthersAsked(c)
  BY <1>1 DEF OthersAsked, SameAsked
<1> QED BY <1>2 DEF Quiet, NoJob

\* A request that goes on.
LEMMA GoQuietly ==
    ASSUME IInv, NEW c \in Call, NEW place, Goto(c, place), UNCHANGED job,
           pc[c] \notin {"written", "append"}, place \notin {"written", "append"},
           pc[c] \in Early \/ place \notin Early \/ job[c].op # "createKey",
           UNCHANGED <<apiKeys, reported, queue, recorded, lastReport, changed, faults>>
    PROVE  Quiet(c)
<1>1. pc' = [pc EXCEPT ![c] = place] /\ DOMAIN pc = Call
  BY DEF Goto, IInv, TypeOK
<1>2. pc'[c] = place /\ OthersAsked(c)
  BY <1>1 DEF OthersAsked, SameAsked
<1> QED BY <1>2 DEF Quiet

\* A request that joins the queue.
LEMMA Asks ==
    ASSUME IInv, NEW c \in Call, NEW about, NEW next, Enqueue(c, about, next), UNCHANGED job
    PROVE  OthersAsked(c) /\ job'[c].op = job[c].op /\ job'[c].id = job[c].id
<1>1. pc' = [pc EXCEPT ![c] = "append"] /\ DOMAIN pc = Call
  BY DEF Enqueue, Goto, IInv, TypeOK
<1> QED BY <1>1 DEF OthersAsked, SameAsked

LEMMA StatusKind ==
    ASSUME IInv, NEW c \in Call, pc[c] \in {"handler", "loaded"}, Status(c),
           UNCHANGED <<apiKeys, recorded, lastReport, changed, faults>>
    PROVE  Quiet(c) \/ Reports(c)
<1> DEFINE p == job[c].process
           state == Current(p)
           next == AfterStatus(c, state)
<1>1. p \in Process /\ state \in States /\ next \in {"write", "ended"}
      /\ (pc[c] = "loaded" => job[c].op = "load")
  BY Unpack, CurrentType DEF AskOK, PlaceOK, AfterStatus
<1>2. CASE Resume(c, next) /\ UNCHANGED <<reported, queue>>
  <2>1. CASE End(c)
    BY <1>2, <2>1, EndQuietly
  <2>2. CASE Goto(c, next) /\ UNCHANGED <<job, draft>>
    <3>1. pc[c] \in Early \/ job[c].op # "createKey"
      BY <1>1 DEF Early
    <3> HIDE DEF next
    <3> QED BY <1>1, <1>2, <2>2, <3>1, GoQuietly
  <2> QED BY <1>2, <2>1, <2>2 DEF Resume
<1>3. CASE /\ reported' = [reported EXCEPT ![p] = state]
           /\ Enqueue(c, <<"LICENSE_CHANGED", state>>, next)
           /\ UNCHANGED <<job, draft>>
  <2>1. OthersAsked(c) /\ job'[c].op = job[c].op /\ job'[c].id = job[c].id
    BY <1>3, Asks
  <2>2. job[c].op = "createKey" => pc[c] = "handler"
    BY <1>1
  <2>3. next \in {"loaded", "write", "ended"}
    BY <1>1
  <2> HIDE DEF next, state
  <2> QED BY <1>1, <1>3, <2>1, <2>2, <2>3 DEF Reports
<1> QED BY <1>2, <1>3 DEF Status, StateNow, Reporting

\* Every step of a request is one of these.
LEMMA StepKinds ==
    ASSUME IInv, NEW c \in Call, Step(c)
    PROVE  Request(c) \/ Quiet(c) \/ Reports(c) \/ Records(c) \/ Changes(c)
<1>t. DOMAIN pc = Call /\ DOMAIN job = Call
  BY DEF IInv, TypeOK
<1>1. CASE Authenticate(c)
  <2>1. pc[c] = "arrived"
        /\ UNCHANGED <<apiKeys, reported, queue, recorded, lastReport, changed, faults>>
    BY <1>1 DEF Authenticate, database, process, records, history
  <2>2. End(c) => Quiet(c)
    BY <2>1, EndQuietly
  <2>3. ASSUME NEW place \in {"handler", "discard"}, Goto(c, place), UNCHANGED <<job, draft>>
        PROVE  Quiet(c)
    BY <2>1, <2>3, GoQuietly DEF Early
  <2> QED BY <1>1, <2>2, <2>3 DEF Authenticate
<1>2. CASE Revoke(c)
  BY <1>2, EndQuietly DEF Revoke, process, records, history
<1>3. CASE Guard(c)
  <2>1. pc[c] = "handler" /\ UNCHANGED <<apiKeys, recorded, lastReport, changed, faults>>
    BY <1>3 DEF Guard, database, records, history
  <2>2. CASE End(c) /\ UNCHANGED <<reported, queue>>
    BY <2>1, <2>2, EndQuietly
  <2>3. CASE Status(c)
    BY <2>1, <2>3, StatusKind
  <2> QED BY <1>3, <2>2, <2>3 DEF Guard
<1>4. CASE Load(c)
  <2>1. /\ pc[c] = "handler" /\ job[c].op = "load"
        /\ UNCHANGED <<apiKeys, recorded, lastReport, changed, faults>>
    BY <1>4 DEF Load, database, records, history
  <2>2. CASE End(c) /\ UNCHANGED <<license, reported, queue>>
    BY <2>1, <2>2, EndQuietly
  <2>3. CASE /\ reported' = [reported EXCEPT ![job[c].process] = LicenseState(job[c].id, now)]
             /\ job' = [d \in Call |->
                   IF job[d].process = job[c].process THEN Unlocked(job[d]) ELSE job[d]]
             /\ Enqueue(c, <<"LICENSE_CHANGED", LicenseState(job[c].id, now)>>, "loaded")
    <3>1. LicenseState(job[c].id, now) \in States
      <4>1. AskOK(c) /\ TypeOK
        BY Unpack
      <4>2. job[c].id \in License \cup {None} /\ now \in Nat
        BY <2>1, <4>1 DEF AskOK, TypeOK
      <4> QED BY <4>2, StateType
    <3>2. \A d \in Call : job'[d].op = job[d].op /\ job'[d].id = job[d].id
      BY <2>3 DEF Unlocked
    <3>3. \A d \in Call \ {c} : pc'[d] = pc[d]
      BY <1>t, <2>3 DEF Enqueue, Goto
    <3> QED BY <2>1, <2>3, <3>1, <3>2, <3>3 DEF Reports, OthersAsked, SameAsked
  <2> QED BY <1>4, <2>2, <2>3 DEF Load, ReportedAfterLoad
<1>5. CASE Loaded(c)
  <2>1. pc[c] = "loaded" /\ UNCHANGED <<apiKeys, recorded, lastReport, changed, faults>>
    BY <1>5 DEF Loaded, database, records, history
  <2>2. CASE End(c) /\ UNCHANGED <<reported, queue>>
    BY <2>1, <2>2, EndQuietly
  <2>3. CASE Status(c)
    BY <2>1, <2>3, StatusKind
  <2> QED BY <1>5, <2>2, <2>3 DEF Loaded
<1>6. CASE Write(c)
  <2>1. /\ pc[c] = "write" /\ job[c].op \in Mutations
        /\ UNCHANGED <<reported, queue, recorded, lastReport>>
        /\ IF TakesEffect(c) THEN TakeEffect(c) ELSE UNCHANGED <<policies, apiKeys, changed>>
    BY <1>6, Unpack DEF Write, process, records, PlaceOK, May
  <2>2. CASE /\ Goto(c, IF TakesEffect(c) THEN "written" ELSE "missed")
             /\ UNCHANGED <<job, draft, faults>>
    <3>1. CASE TakesEffect(c)
      <4>1. pc' = [pc EXCEPT ![c] = "written"]
        BY <2>2, <3>1 DEF Goto
      <4>2. pc'[c] = "written" /\ OthersAsked(c)
        BY <1>t, <2>2, <4>1 DEF OthersAsked, SameAsked
      <4> QED BY <2>1, <2>2, <3>1, <4>2 DEF Changes
    <3>2. CASE ~TakesEffect(c)
      BY <2>1, <2>2, <3>2, GoQuietly DEF Early
    <3> QED BY <3>1, <3>2
  <2>3. CASE faults' = faults + 1 /\ End(c)
    <3>1. CASE TakesEffect(c)
      <4>1. pc' = [pc EXCEPT ![c] = "ended"] /\ job' = [job EXCEPT ![c] = NoJob]
        BY <2>3 DEF End, Goto
      <4>2. pc'[c] = "ended" /\ job'[c] = NoJob /\ OthersAsked(c)
        BY <1>t, <4>1 DEF OthersAsked, SameAsked
      <4> QED BY <2>1, <2>3, <3>1, <4>2 DEF Changes
    <3>2. CASE ~TakesEffect(c)
      BY <2>1, <2>3, <3>2, EndQuietly
    <3> QED BY <3>1, <3>2
  <2> QED BY <1>6, <2>2, <2>3 DEF Write
<1>7. CASE Written(c)
  <2>1. /\ pc[c] \in {"written", "missed"} /\ job[c].op \in Mutations
        /\ UNCHANGED <<apiKeys, reported, recorded, lastReport, changed, faults>>
    BY <1>7, Unpack DEF Written, database, records, PlaceOK, May
  <2>2. CASE pc[c] = "written" /\ Enqueue(c, ChangeOf(c), "ended") /\ UNCHANGED <<job, draft>>
    BY <2>1, <2>2, Asks DEF Records
  <2>3. CASE pc[c] = "missed" /\ End(c) /\ UNCHANGED queue
    BY <2>1, <2>3, EndQuietly
  <2> QED BY <1>7, <2>2, <2>3 DEF Written
<1>8. CASE Consult(c)
  <2>1. /\ pc[c] = "handler"
        /\ UNCHANGED <<apiKeys, reported, queue, recorded, lastReport, changed, faults>>
    BY <1>8 DEF Consult, database, process, records, history
  <2>2. End(c) => Quiet(c)
    BY <2>1, EndQuietly
  <2>3. Goto(c, "list") /\ UNCHANGED <<job, draft>> => Quiet(c)
    BY <2>1, GoQuietly DEF Early
  <2> QED BY <1>8, <2>2, <2>3 DEF Consult
<1>9. CASE List(c)
  BY <1>9, GoQuietly DEF List, database, process, records, history, Early
<1>10. CASE Fill(c)
  BY <1>10, EndQuietly DEF Fill, database, records
<1>11. CASE Fail(c)
  BY <1>11, EndQuietly DEF Fail, database, process, records, history
<1> QED BY <1>1, <1>2, <1>3, <1>4, <1>5, <1>6, <1>7, <1>8, <1>9, <1>10, <1>11 DEF Step
\* What the queues hold.
LEMMA QueueType ==
    ASSUME IInv, NEW p \in Process
    PROVE  /\ queue[p] \in Seq(Task) /\ Len(queue[p]) \in Nat
           /\ DOMAIN queue[p] = 1 .. Len(queue[p])
           /\ \A n \in 1 .. Len(queue[p]) : queue[p][n] \in Task /\ TaskOK(p, queue[p][n])
<1>1. queue \in [Process -> Seq(Task)]
  BY DEF IInv, TypeOK, Task
<1> QED BY <1>1 DEF IInv, QueueOK

\* Only a request that waits for an append has one in a queue.
LEMMA NotQueued ==
    ASSUME IInv, NEW c \in Call, pc[c] # "append", NEW p \in Process, NEW n \in 1 .. Len(queue[p])
    PROVE  queue[p][n].call # c
BY QueueType DEF TaskOK

\* The queue of c's process, after c has joined it.
LEMMA Joined ==
    ASSUME IInv, NEW c \in Call, pc[c] # "ended",
           NEW about, NEW next, Enqueue(c, about, next), NEW q, q = job[c].process
    PROVE  /\ q \in Process /\ pc'[c] = "append"
           /\ queue'[q] = Append(queue[q], [call |-> c, about |-> about, next |-> next])
           /\ \A p \in Process \ {q} : queue'[p] = queue[p]
<1>1. q \in Process
  BY Unpack DEF AskOK
<1>2. DOMAIN queue = Process /\ DOMAIN pc = Call
  BY DEF IInv, TypeOK
<1> QED BY <1>1, <1>2 DEF Enqueue, Goto

\* The place of the new append.
LEMMA Longer ==
    ASSUME IInv, NEW q \in Process, NEW task, queue'[q] = Append(queue[q], task)
    PROVE  /\ Len(queue'[q]) = Len(queue[q]) + 1
           /\ DOMAIN queue'[q] = 1 .. Len(queue[q]) + 1
           /\ queue'[q][Len(queue[q]) + 1] = task
           /\ \A n \in 1 .. Len(queue[q]) : queue'[q][n] = queue[q][n]
<1>1. queue[q] \in Seq(Task) /\ Len(queue[q]) \in Nat
  BY QueueType
<1>2. queue[q] \in Seq(Task \cup {task}) /\ task \in Task \cup {task}
  BY <1>1
<1> QED BY <1>1, <1>2

\* The append at the front of a queue, and what becomes of its request.
LEMMA AppendedKind ==
    ASSUME IInv, NEW p \in Process, Appended(p)
    PROVE  \E task \in Task :
              /\ 1 \in 1 .. Len(queue[p]) /\ task = queue[p][1] /\ task = Head(queue[p])
              /\ pc[task.call] = "append" /\ OthersAsked(task.call)
              /\ queue' = [queue EXCEPT ![p] = Tail(queue[p])]
              /\ \/ pc'[task.call] = "ended" /\ job'[task.call] = NoJob
                 \/ /\ task.next # "ended" /\ pc'[task.call] = task.next
                    /\ job'[task.call] = job[task.call]
              /\ UNCHANGED <<apiKeys, reported, changed>>
<1>1. queue[p] # <<>> /\ queue[p] \in Seq(Task)
      /\ queue' = [queue EXCEPT ![p] = Tail(queue[p])]
      /\ UNCHANGED <<apiKeys, reported, changed>>
  BY QueueType DEF Appended, database, history
<1>2. PICK task \in Task : task = Head(queue[p]) /\ task = queue[p][1] /\ 1 \in 1 .. Len(queue[p])
  BY <1>1
<1>3. pc[task.call] = "append" /\ task.call \in Call
  BY <1>2, QueueType DEF TaskOK, Task
<1>4. Resume(task.call, task.next) \/ End(task.call)
  BY <1>2 DEF Appended
<1>t. DOMAIN pc = Call /\ DOMAIN job = Call
  BY DEF IInv, TypeOK
<1>5. CASE End(task.call)
  <2>1. pc'[task.call] = "ended" /\ job'[task.call] = NoJob /\ OthersAsked(task.call)
    BY <1>t, <1>3, <1>5 DEF End, Goto, OthersAsked, SameAsked
  <2> QED BY <1>1, <1>2, <1>3, <2>1
<1>6. CASE task.next # "ended" /\ Goto(task.call, task.next) /\ UNCHANGED <<job, draft>>
  <2>1. pc'[task.call] = task.next /\ job' = job /\ OthersAsked(task.call)
    BY <1>t, <1>3, <1>6 DEF Goto, OthersAsked, SameAsked
  <2> QED BY <1>1, <1>2, <1>3, <1>6, <2>1
<1> QED BY <1>4, <1>5, <1>6 DEF Resume

\* What is left of a queue without its first append.
LEMMA Shorter ==
    ASSUME IInv, NEW p \in Process, 1 \in 1 .. Len(queue[p]),
           queue' = [queue EXCEPT ![p] = Tail(queue[p])]
    PROVE  /\ Len(queue'[p]) = Len(queue[p]) - 1
           /\ DOMAIN queue'[p] = 1 .. Len(queue[p]) - 1
           /\ \A n \in 1 .. Len(queue[p]) - 1 :
                 n + 1 \in 1 .. Len(queue[p]) /\ queue'[p][n] = queue[p][n + 1]
           /\ \A q \in Process \ {p} : queue'[q] = queue[q]
<1>1. queue[p] \in Seq(Task) /\ Len(queue[p]) \in Nat /\ Len(queue[p]) >= 1 /\ queue[p] # <<>>
  BY QueueType
<1>2. DOMAIN queue = Process
  BY DEF IInv, TypeOK
<1>3. /\ Tail(queue[p]) \in Seq(Task) /\ Len(Tail(queue[p])) = Len(queue[p]) - 1
      /\ \A n \in 1 .. Len(queue[p]) - 1 : Tail(queue[p])[n] = queue[p][n + 1]
  BY <1>1
<1>4. queue'[p] = Tail(queue[p]) /\ \A q \in Process \ {p} : queue'[q] = queue[q]
  BY <1>2
<1>5. DOMAIN Tail(queue[p]) = 1 .. Len(queue[p]) - 1
  BY <1>1, <1>3
<1>6. \A n \in 1 .. Len(queue[p]) - 1 : n + 1 \in 1 .. Len(queue[p])
  BY <1>1
<1> QED BY <1>3, <1>4, <1>5, <1>6

\* The requests of a process that starts again are gone, the others are not touched.
LEMMA RestartKind ==
    ASSUME IInv, NEW p \in Process, Restart(p)
    PROVE  /\ \A c \in Call : \/ job[c].process # p /\ SameAsked(c)
                              \/ job[c].process = p /\ pc'[c] = "ended" /\ job'[c] = NoJob
           /\ queue'[p] = <<>> /\ \A q \in Process \ {p} : queue'[q] = queue[q]
           /\ faults' = faults + 1 /\ UNCHANGED <<apiKeys, recorded, changed>>
<1>1. DOMAIN queue = Process
  BY DEF IInv, TypeOK
<1> QED BY <1>1 DEF Restart, SameAsked, database

\* The clock, an operator and a stutter leave all this as it is.
LEMMA StillKind ==
    ASSUME Tick \/ (\E u \in User : Disable(u)) \/ UNCHANGED vars
    PROVE  UNCHANGED <<pc, job, queue, apiKeys, reported, recorded, lastReport, changed, faults>>
BY DEF Tick, Disable, vars, database, process, request, records, history

\* A request that comes takes a free slot.
LEMMA RequestKind ==
    ASSUME IInv, NEW c \in Call, Request(c)
    PROVE  /\ OthersAsked(c) /\ pc[c] = "ended" /\ pc'[c] = "arrived"
           /\ job[c] = NoJob
           /\ UNCHANGED <<queue, apiKeys, reported, recorded, lastReport, changed, faults>>
           /\ job'[c].op = "createKey" =>
                 /\ apiKeys[job'[c].id] = "none"
                 /\ \A d \in Call : job[d].op = "createKey" => job[d].id # job'[c].id
<1>1. PICK a \in Asked :
         /\ a.op = "createKey" => /\ apiKeys[a.id] = "none"
                                  /\ \A d \in Call : job[d].op = "createKey" => job[d].id # a.id
         /\ job' = [job EXCEPT ![c] = Arriving(a)]
  BY DEF Request
<1>2. pc[c] = "ended" /\ pc' = [pc EXCEPT ![c] = "arrived"]
      /\ UNCHANGED <<queue, apiKeys, reported, recorded, lastReport, changed, faults>>
  BY DEF Request, Goto, database, process, records
<1>3. DOMAIN pc = Call /\ DOMAIN job = Call /\ job[c] = NoJob
  BY <1>2, Unpack DEF IInv, TypeOK, AskOK
<1>4. job'[c] = Arriving(a) /\ pc'[c] = "arrived" /\ OthersAsked(c)
  BY <1>1, <1>2, <1>3 DEF OthersAsked, SameAsked
<1>5. job'[c].op = a.op /\ job'[c].id = a.id
  BY <1>4 DEF Arriving
<1> QED BY <1>1, <1>2, <1>3, <1>4, <1>5

\* Where an append that waits comes from.
LEMMA QueueMoves ==
    ASSUME IInv, [Next]_vars, NEW p \in Process, NEW n \in 1 .. Len(queue'[p])
    PROVE  \/ \E m \in 1 .. Len(queue[p]) :
                 queue'[p][n] = queue[p][m] /\ SameAsked(queue[p][m].call)
           \/ \E c \in Call, about \in Change \cup Report, next \in {"loaded", "write", "ended"} :
                 /\ queue'[p][n] = [call |-> c, about |-> about, next |-> next]
                 /\ \/ Reports(c) /\ about \in Report
                    \/ Records(c) /\ about = ChangeOf(c) /\ about \in Change /\ next = "ended"
<1>t. \A q \in Process : \A m \in 1 .. Len(queue[q]) : queue[q][m].call \in Call
  BY QueueType DEF Task
<1>1. ASSUME NEW c \in Call, OthersAsked(c), pc[c] # "append", UNCHANGED queue
      PROVE  queue'[p][n] = queue[p][n] /\ n \in 1 .. Len(queue[p]) /\ SameAsked(queue[p][n].call)
  <2>1. n \in 1 .. Len(queue[p])
    BY <1>1
  <2>2. queue[p][n].call \in Call \ {c}
    BY <1>1, <1>t, <2>1, NotQueued
  <2> QED BY <1>1, <2>1, <2>2 DEF OthersAsked
<1>2. ASSUME NEW c \in Call, NEW about \in Change \cup Report,
             NEW next \in {"loaded", "write", "ended"},
             OthersAsked(c), pc[c] \notin {"append", "ended"}, Enqueue(c, about, next)
      PROVE  \/ queue'[p][n] = [call |-> c, about |-> about, next |-> next]
             \/ /\ n \in 1 .. Len(queue[p]) /\ queue'[p][n] = queue[p][n]
                /\ SameAsked(queue[p][n].call)
  <2>1. PICK q : q = job[c].process
    OBVIOUS
  <2>2. /\ q \in Process
        /\ queue'[q] = Append(queue[q], [call |-> c, about |-> about, next |-> next])
        /\ \A r \in Process \ {q} : queue'[r] = queue[r]
    BY <1>2, <2>1, Joined
  <2>3. CASE p = q /\ n = Len(queue[q]) + 1
    BY <2>2, <2>3, Longer
  <2>4. CASE ~(p = q /\ n = Len(queue[q]) + 1)
    <3>1. n \in 1 .. Len(queue[p]) /\ queue'[p][n] = queue[p][n]
      <4>1. CASE p = q
        <5>1. Len(queue'[p]) = Len(queue[p]) + 1 /\ Len(queue[p]) \in Nat
          BY <2>2, <4>1, Longer, QueueType
        <5>2. n \in 1 .. Len(queue[p])
          BY <2>4, <4>1, <5>1
        <5> QED BY <2>2, <4>1, <5>2, Longer
      <4>2. CASE p # q
        BY <2>2, <4>2
      <4> QED BY <4>1, <4>2
    <3>2. queue[p][n].call \in Call \ {c}
      BY <1>2, <1>t, <3>1, NotQueued
    <3> QED BY <1>2, <3>1, <3>2 DEF OthersAsked
  <2> QED BY <2>3, <2>4
<1>3. ASSUME NEW c \in Call, Reports(c)
      PROVE  \/ \E m \in 1 .. Len(queue[p]) :
                   queue'[p][n] = queue[p][m] /\ SameAsked(queue[p][m].call)
             \/ \E about \in Change \cup Report, next \in {"loaded", "write", "ended"} :
                   /\ queue'[p][n] = [call |-> c, about |-> about, next |-> next]
                   /\ Reports(c) /\ about \in Report
  <2>1. PICK state \in States, next \in {"loaded", "write", "ended"} :
           Enqueue(c, <<"LICENSE_CHANGED", state>>, next)
    BY <1>3 DEF Reports
  <2>2. <<"LICENSE_CHANGED", state>> \in Report
    BY DEF Report
  <2>3. OthersAsked(c) /\ pc[c] \notin {"append", "ended"}
    BY <1>3 DEF Reports
  <2> QED BY <1>2, <1>3, <2>1, <2>2, <2>3
<1>4. ASSUME NEW c \in Call, Records(c)
      PROVE  \/ \E m \in 1 .. Len(queue[p]) :
                   queue'[p][n] = queue[p][m] /\ SameAsked(queue[p][m].call)
             \/ ChangeOf(c) \in Change
                /\ queue'[p][n] = [call |-> c, about |-> ChangeOf(c), next |-> "ended"]
  <2>1. /\ OthersAsked(c) /\ pc[c] \notin {"append", "ended"} /\ job[c].op \in Mutations
        /\ Enqueue(c, ChangeOf(c), "ended")
    BY <1>4 DEF Records
  <2>2. ChangeOf(c) \in Change
    BY <2>1, ChangeType
  <2> QED BY <1>2, <2>1, <2>2
<1>5. ASSUME NEW q \in Process, Appended(q)
      PROVE  \E m \in 1 .. Len(queue[p]) :
                queue'[p][n] = queue[p][m] /\ SameAsked(queue[p][m].call)
  <2>1. PICK task \in Task :
           /\ 1 \in 1 .. Len(queue[q]) /\ task = queue[q][1]
           /\ pc[task.call] = "append" /\ OthersAsked(task.call)
           /\ queue' = [queue EXCEPT ![q] = Tail(queue[q])]
    BY <1>5, AppendedKind
  <2>2. CASE p = q
    <3>0. n \in 1 .. Len(queue[p]) - 1 /\ n + 1 # 1
      <4>1. Len(queue'[p]) = Len(queue[p]) - 1
        BY <2>1, <2>2, Shorter
      <4> QED BY <4>1, QueueType
    <3>1. n + 1 \in 1 .. Len(queue[p]) /\ queue'[p][n] = queue[p][n + 1] /\ n + 1 # 1
      BY <2>1, <2>2, <3>0, Shorter
    <3>2. queue[p][n + 1].call # queue[p][1].call
      BY <2>1, <2>2, <3>1 DEF IInv, QueueOK
    <3> QED BY <1>t, <2>1, <2>2, <3>1, <3>2 DEF OthersAsked
  <2>3. CASE p # q
    <3>1. n \in 1 .. Len(queue[p]) /\ queue'[p][n] = queue[p][n]
      BY <2>1, <2>3, Shorter
    <3>2. job[queue[p][n].call].process = p /\ job[task.call].process = q
      BY <2>1, <3>1, QueueType DEF TaskOK
    <3> QED BY <1>t, <2>1, <2>3, <3>1, <3>2 DEF OthersAsked
  <2> QED BY <2>2, <2>3
<1>6. ASSUME NEW q \in Process, Restart(q)
      PROVE  \E m \in 1 .. Len(queue[p]) :
                queue'[p][n] = queue[p][m] /\ SameAsked(queue[p][m].call)
  <2>1. p # q
    BY <1>6, RestartKind
  <2>2. n \in 1 .. Len(queue[p]) /\ queue'[p] = queue[p]
    BY <1>6, <2>1, RestartKind
  <2>3. job[queue[p][n].call].process # q
    BY <2>1, <2>2, QueueType DEF TaskOK
  <2> QED BY <1>t, <1>6, <2>2, <2>3, RestartKind
<1>7. ASSUME Tick \/ (\E u \in User : Disable(u)) \/ UNCHANGED vars
      PROVE  n \in 1 .. Len(queue[p]) /\ queue'[p][n] = queue[p][n] /\ SameAsked(queue[p][n].call)
  BY <1>7, StillKind DEF SameAsked
<1>8. ASSUME NEW c \in Call, Request(c) \/ Quiet(c) \/ Changes(c)
      PROVE  queue'[p][n] = queue[p][n] /\ n \in 1 .. Len(queue[p]) /\ SameAsked(queue[p][n].call)
  <2>1. OthersAsked(c) /\ pc[c] # "append" /\ UNCHANGED queue
    BY <1>8, RequestKind DEF Quiet, Changes
  <2> QED BY <1>1, <2>1
<1>9. ASSUME NEW c \in Call, Step(c)
      PROVE  \/ \E m \in 1 .. Len(queue[p]) :
                   queue'[p][n] = queue[p][m] /\ SameAsked(queue[p][m].call)
             \/ \E about \in Change \cup Report, next \in {"loaded", "write", "ended"} :
                   /\ queue'[p][n] = [call |-> c, about |-> about, next |-> next]
                   /\ \/ Reports(c) /\ about \in Report
                      \/ Records(c) /\ about = ChangeOf(c) /\ about \in Change /\ next = "ended"
  BY <1>3, <1>4, <1>8, <1>9, StepKinds
<1> QED BY <1>5, <1>6, <1>7, <1>9 DEF Next
-----------------------------------------------------------------------------
(* What is on its way to the trail *)

\* A record of a change that waits is of its request's change, and the last
\* thing that request does.
AboutTask(task) ==
    task.about \in Change =>
        /\ task.next = "ended"
        /\ job[task.call].op \in Mutations
        /\ task.about = ChangeOf(task.call)

AboutOK == \A p \in Process : \A n \in 1 .. Len(queue[p]) : AboutTask(queue[p][n])

\* The statement of a request is still to come.
Unmade(c) ==
    \/ pc[c] \in Early
    \/ \E p \in Process : \E n \in 1 .. Len(queue[p]) :
          queue[p][n].call = c /\ queue[p][n].about \in Report

\* A key that will be created is not there yet, and only one request creates it.
KeysOK ==
    /\ \A c \in Call : job[c].op = "createKey" /\ Unmade(c) => apiKeys[job[c].id] = "none"
    /\ \A c, d \in Call :
          job[c].op = "createKey" /\ job[d].op = "createKey" /\ job[c].id = job[d].id => c = d

\* A record of a change is not one of a licence state.
LEMMA TwoKinds == ASSUME NEW about \in Report PROVE about \notin Change
BY DEF Report, Change

LEMMA AboutStep == IInv /\ AboutOK /\ [Next]_vars => AboutOK'
<1> SUFFICES ASSUME IInv, AboutOK, [Next]_vars, NEW p \in Process, NEW n \in 1 .. Len(queue'[p])
             PROVE  AboutTask(queue[p][n])'
  BY DEF AboutOK
<1>1. ASSUME NEW m \in 1 .. Len(queue[p]), queue'[p][n] = queue[p][m],
             SameAsked(queue[p][m].call)
      PROVE  AboutTask(queue[p][n])'
  <2>1. PICK task : task = queue[p][m]
    OBVIOUS
  <2>2. AboutTask(task)
    BY <2>1 DEF AboutOK
  <2>3. queue'[p][n] = task
    BY <1>1, <2>1
  <2>4. job'[task.call].op = job[task.call].op /\ job'[task.call].id = job[task.call].id
    BY <1>1, <2>1 DEF SameAsked
  <2> QED BY <2>2, <2>3, <2>4 DEF AboutTask, ChangeOf
<1>2. ASSUME NEW c \in Call, NEW about \in Report, NEW next,
             queue'[p][n] = [call |-> c, about |-> about, next |-> next]
      PROVE  AboutTask(queue[p][n])'
  <2>1. about \notin Change
    BY TwoKinds
  <2>2. queue'[p][n].about = about
    BY <1>2
  <2> QED BY <2>1, <2>2 DEF AboutTask, Change
<1>3. ASSUME NEW c \in Call, Records(c),
             queue'[p][n] = [call |-> c, about |-> ChangeOf(c), next |-> "ended"]
      PROVE  AboutTask(queue[p][n])'
  BY <1>3 DEF Records, AboutTask, ChangeOf
<1>4. CASE \E m \in 1 .. Len(queue[p]) :
               queue'[p][n] = queue[p][m] /\ SameAsked(queue[p][m].call)
  BY <1>1, <1>4
<1>5. CASE \E c \in Call, about \in Change \cup Report, next \in {"loaded", "write", "ended"} :
               /\ queue'[p][n] = [call |-> c, about |-> about, next |-> next]
               /\ \/ Reports(c) /\ about \in Report
                  \/ Records(c) /\ about = ChangeOf(c) /\ about \in Change /\ next = "ended"
  <2>1. PICK c \in Call, about \in Change \cup Report, next \in {"loaded", "write", "ended"} :
               /\ queue'[p][n] = [call |-> c, about |-> about, next |-> next]
               /\ \/ Reports(c) /\ about \in Report
                  \/ Records(c) /\ about = ChangeOf(c) /\ about \in Change /\ next = "ended"
    BY <1>5
  <2>2. CASE about \in Report
    BY <1>2, <2>1, <2>2
  <2>3. CASE Records(c) /\ about = ChangeOf(c) /\ next = "ended"
    BY <1>3, <2>1, <2>3
  <2> QED BY <2>1, <2>2, <2>3
<1> QED BY <1>4, <1>5, QueueMoves

\* Who is to create a key was to create it before, or just asked.
LEMMA KeysKept ==
    ASSUME KeysOK, UNCHANGED apiKeys,
           \A d \in Call : job'[d].op = "createKey" =>
              /\ job[d].op = "createKey" /\ job'[d].id = job[d].id
              /\ Unmade(d)' => Unmade(d)
    PROVE  KeysOK'
BY DEF KeysOK

\* A request has its statement still to come only if it had before, or it is new.
LEMMA UnmadeMoves ==
    ASSUME IInv, AboutOK, [Next]_vars, NEW d \in Call, Unmade(d)',
           pc'[d] \in Early => Unmade(d),
           \A c \in Call : Reports(c) => c # d
    PROVE  Unmade(d)
<1>1. CASE pc'[d] \in Early
  BY <1>1
<1>2. ASSUME NEW p \in Process, NEW n \in 1 .. Len(queue'[p]),
             queue'[p][n].call = d, queue'[p][n].about \in Report
      PROVE  Unmade(d)
  <2>1. ASSUME NEW m \in 1 .. Len(queue[p]), queue'[p][n] = queue[p][m] PROVE Unmade(d)
    BY <1>2, <2>1 DEF Unmade
  <2>2. ASSUME NEW c \in Call, NEW about, NEW next, about \in Change,
               queue'[p][n] = [call |-> c, about |-> about, next |-> next]
        PROVE  FALSE
    BY <1>2, <2>2, TwoKinds
  <2>3. ASSUME NEW c \in Call, NEW about, NEW next, Reports(c),
               queue'[p][n] = [call |-> c, about |-> about, next |-> next]
        PROVE  FALSE
    BY <1>2, <2>3
  <2>4. CASE \E m \in 1 .. Len(queue[p]) :
                 queue'[p][n] = queue[p][m] /\ SameAsked(queue[p][m].call)
    BY <2>1, <2>4
  <2>5. CASE \E c \in Call, about \in Change \cup Report, next \in {"loaded", "write", "ended"} :
                 /\ queue'[p][n] = [call |-> c, about |-> about, next |-> next]
                 /\ \/ Reports(c) /\ about \in Report
                    \/ Records(c) /\ about = ChangeOf(c) /\ about \in Change /\ next = "ended"
    BY <2>2, <2>3, <2>5
  <2> QED BY <2>4, <2>5, QueueMoves
<1> QED BY <1>1, <1>2 DEF Unmade

LEMMA KeysStep == IInv /\ AboutOK /\ KeysOK /\ [Next]_vars => KeysOK'
<1> SUFFICES ASSUME IInv, AboutOK, KeysOK, [Next]_vars PROVE KeysOK'
  OBVIOUS
\* The requests that do nothing.
<1>o. ASSUME NEW d \in Call, SameAsked(d), Unmade(d)', \A c \in Call : Reports(c) => c # d
      PROVE  Unmade(d)
  <2>1. pc'[d] \in Early => Unmade(d)
    BY <1>o DEF SameAsked, Unmade
  <2> QED BY <1>o, <2>1, UnmadeMoves
\* Two requests never report at once.
<1>r. ASSUME NEW c \in Call, OthersAsked(c) PROVE \A d \in Call : Reports(d) => d = c
  BY <1>r DEF Reports, Enqueue, Goto, OthersAsked, SameAsked, IInv, TypeOK
<1>1. ASSUME NEW c \in Call, Request(c) PROVE KeysOK'
  <2>1. /\ OthersAsked(c) /\ pc[c] = "ended" /\ job[c] = NoJob /\ UNCHANGED <<apiKeys, queue>>
        /\ job'[c].op = "createKey" =>
              /\ apiKeys[job'[c].id] = "none"
              /\ \A d \in Call : job[d].op = "createKey" => job[d].id # job'[c].id
    BY <1>1, RequestKind
  <2>2. ASSUME NEW d \in Call \ {c}
        PROVE  /\ job'[d].op = job[d].op /\ job'[d].id = job[d].id
               /\ Unmade(d)' => Unmade(d)
    <3>1. SameAsked(d) /\ \A e \in Call : Reports(e) => e # d
      BY <1>r, <2>1 DEF OthersAsked
    <3> QED BY <1>o, <3>1 DEF SameAsked
  <2>3. ASSUME NEW d \in Call, job'[d].op = "createKey", Unmade(d)'
        PROVE  apiKeys'[job'[d].id] = "none"
    <3>1. CASE d = c
      BY <2>1, <2>3, <3>1
    <3>2. CASE d # c
      BY <2>1, <2>2, <2>3, <3>2 DEF KeysOK
    <3> QED BY <3>1, <3>2
  <2>4. ASSUME NEW d \in Call, NEW e \in Call, job'[d].op = "createKey",
               job'[e].op = "createKey", job'[d].id = job'[e].id
        PROVE  d = e
    <3>1. CASE d # c /\ e # c
      BY <2>2, <2>4, <3>1 DEF KeysOK
    <3>2. CASE d = c /\ e # c
      BY <2>1, <2>2, <2>4, <3>2
    <3>3. CASE d # c /\ e = c
      BY <2>1, <2>2, <2>4, <3>3
    <3> QED BY <3>1, <3>2, <3>3
  <2> QED BY <2>3, <2>4 DEF KeysOK
<1>2. ASSUME NEW c \in Call, Quiet(c) PROVE KeysOK'
  <2>1. ASSUME NEW d \in Call, job'[d].op = "createKey"
        PROVE  /\ job[d].op = "createKey" /\ job'[d].id = job[d].id
               /\ Unmade(d)' => Unmade(d)
    <3>0. OthersAsked(c)
      BY <1>2 DEF Quiet
    <3>1. CASE d # c
      <4>1. SameAsked(d) /\ \A e \in Call : Reports(e) => e # d
        BY <1>r, <3>0, <3>1 DEF OthersAsked
      <4> QED BY <1>o, <2>1, <4>1 DEF SameAsked
    <3>2. CASE d = c
      <4>1. job'[c] = job[c] /\ (pc'[c] \in Early => pc[c] \in Early) /\ UNCHANGED queue
        BY <1>2, <2>1, <3>2 DEF Quiet
      <4> QED BY <2>1, <3>2, <4>1 DEF Unmade
    <3> QED BY <3>1, <3>2
  <2> QED BY <1>2, <2>1, KeysKept DEF Quiet
<1>3. ASSUME NEW c \in Call, Reports(c) PROVE KeysOK'
  <2>1. ASSUME NEW d \in Call, job'[d].op = "createKey"
        PROVE  /\ job[d].op = "createKey" /\ job'[d].id = job[d].id
               /\ Unmade(d)' => Unmade(d)
    <3>0. OthersAsked(c)
      BY <1>3 DEF Reports
    <3>1. CASE d # c
      <4>1. SameAsked(d) /\ \A e \in Call : Reports(e) => e # d
        BY <1>r, <3>0, <3>1 DEF OthersAsked
      <4> QED BY <1>o, <2>1, <4>1 DEF SameAsked
    <3>2. CASE d = c
      BY <1>3, <2>1, <3>2 DEF Reports, Unmade, Early
    <3> QED BY <3>1, <3>2
  <2> QED BY <1>3, <2>1, KeysKept DEF Reports
<1>4. ASSUME NEW c \in Call, Records(c) PROVE KeysOK'
  <2>1. ASSUME NEW d \in Call, job'[d].op = "createKey"
        PROVE  /\ job[d].op = "createKey" /\ job'[d].id = job[d].id
               /\ Unmade(d)' => Unmade(d)
    <3>0. OthersAsked(c) /\ pc[c] = "written"
      BY <1>4 DEF Records
    <3>1. CASE d # c
      <4>1. SameAsked(d) /\ \A e \in Call : Reports(e) => e # d
        BY <1>r, <3>0, <3>1 DEF OthersAsked
      <4> QED BY <1>o, <2>1, <4>1 DEF SameAsked
    <3>2. CASE d = c
      <4>1. job'[c].op = job[c].op /\ job'[c].id = job[c].id
        BY <1>4 DEF Records
      <4>2. pc'[c] = "append"
        BY <1>4 DEF Records, Enqueue, Goto, IInv, TypeOK
      <4>3. \A e \in Call : Reports(e) => e # c
        BY <3>0 DEF Reports, Enqueue, Goto, OthersAsked, SameAsked, IInv, TypeOK
      <4>4. Unmade(c)' => Unmade(c)
        BY <4>2, <4>3, UnmadeMoves DEF Early
      <4> QED BY <2>1, <3>2, <4>1, <4>4
    <3> QED BY <3>1, <3>2
  <2> QED BY <1>4, <2>1, KeysKept DEF Records
\* A statement on another key leaves the one that is still to be created.
<1>5. ASSUME NEW c \in Call, Changes(c) PROVE KeysOK'
  <2>0. /\ OthersAsked(c) /\ pc[c] = "write" /\ job[c].op \in Mutations /\ AskOK(c)
        /\ UNCHANGED queue /\ apiKeys \in [ApiKey -> KeyStates]
    BY <1>5, Unpack DEF Changes, IInv, TypeOK
  <2>1. ASSUME NEW d \in Call \ {c}
        PROVE  /\ job'[d].op = job[d].op /\ job'[d].id = job[d].id
               /\ Unmade(d)' => Unmade(d)
    <3>1. SameAsked(d) /\ \A e \in Call : Reports(e) => e # d
      BY <1>r, <2>0 DEF OthersAsked
    <3> QED BY <1>o, <3>1 DEF SameAsked
  <2>2. job'[c].op = "createKey" =>
           job[c].op = "createKey" /\ job'[c].id = job[c].id /\ ~Unmade(c)'
    <3>1. pc'[c] = "ended" => job'[c].op = "none"
      BY <1>5 DEF Changes, NoJob
    <3>2. pc'[c] \in {"written", "ended"}
      BY <1>5 DEF Changes
    <3>3. ASSUME NEW p \in Process, NEW n \in 1 .. Len(queue'[p]) PROVE queue'[p][n].call # c
      BY <2>0, NotQueued
    <3> QED BY <1>5, <3>1, <3>2, <3>3 DEF Changes, Unmade, Early
  <2>3. ASSUME NEW d \in Call \ {c}, job[d].op = "createKey", Unmade(d)
        PROVE  apiKeys'[job[d].id] = "none"
    <3>1. apiKeys[job[d].id] = "none"
      BY <2>3 DEF KeysOK
    <3>2. CASE job[c].op = "createKey"
      <4>1. job[c].id # job[d].id
        BY <2>3, <3>2 DEF KeysOK
      <4>2. apiKeys' = [apiKeys EXCEPT ![job[c].id] = "active"]
        BY <1>5, <3>2 DEF Changes, TakeEffect
      <4> QED BY <2>0, <3>1, <4>1, <4>2
    <3>3. CASE job[c].op = "revokeKey"
      <4>1. apiKeys[job[c].id] = "active"
        BY <1>5, <3>3 DEF Changes, TakesEffect
      <4>2. apiKeys' = [apiKeys EXCEPT ![job[c].id] = "revoked"]
        BY <1>5, <3>3 DEF Changes, TakeEffect
      <4> QED BY <2>0, <3>1, <4>1, <4>2
    <3>4. CASE job[c].op \in PolicyWrites
      BY <1>5, <3>1, <3>4 DEF Changes, TakeEffect, PolicyWrites
    <3> QED BY <2>0, <3>2, <3>3, <3>4 DEF Mutations, KeyWrites
  <2>4. ASSUME NEW d \in Call, job'[d].op = "createKey", Unmade(d)'
        PROVE  apiKeys'[job'[d].id] = "none"
    BY <2>1, <2>2, <2>3, <2>4
  <2>5. ASSUME NEW d \in Call, NEW e \in Call, job'[d].op = "createKey",
               job'[e].op = "createKey", job'[d].id = job'[e].id
        PROVE  d = e
    <3>1. job[d].op = "createKey" /\ job[e].op = "createKey" /\ job[d].id = job[e].id
      BY <2>1, <2>2, <2>5
    <3> QED BY <3>1 DEF KeysOK
  <2> QED BY <2>4, <2>5 DEF KeysOK
<1>6. ASSUME NEW q \in Process, Appended(q) PROVE KeysOK'
  <2>1. PICK task \in Task :
           /\ 1 \in 1 .. Len(queue[q]) /\ task = queue[q][1]
           /\ pc[task.call] = "append" /\ OthersAsked(task.call)
           /\ \/ pc'[task.call] = "ended" /\ job'[task.call] = NoJob
              \/ /\ task.next # "ended" /\ pc'[task.call] = task.next
                 /\ job'[task.call] = job[task.call]
           /\ UNCHANGED apiKeys
    BY <1>6, AppendedKind
  <2>2. task.call \in Call /\ AboutTask(task) /\ task.about \in Change \cup Report
    BY <2>1 DEF Task, AboutOK
  <2>3. \A e \in Call : ~Reports(e)
    <3>1. \A e \in Call : Reports(e) => e = task.call
      BY <1>r, <2>1, <2>2
    <3> QED BY <2>1, <3>1 DEF Reports
  <2>4. ASSUME NEW d \in Call, job'[d].op = "createKey"
        PROVE  /\ job[d].op = "createKey" /\ job'[d].id = job[d].id
               /\ Unmade(d)' => Unmade(d)
    <3>1. CASE d # task.call
      <4>1. SameAsked(d)
        BY <2>1, <3>1 DEF OthersAsked
      <4> QED BY <1>o, <2>3, <2>4, <4>1 DEF SameAsked
    <3>2. CASE d = task.call
      <4>1. task.next # "ended" /\ job'[d] = job[d]
        BY <2>1, <2>4, <3>2 DEF NoJob
      <4>2. task.about \in Report
        BY <2>2, <4>1 DEF AboutTask
      <4>3. Unmade(d)
        BY <2>1, <3>2, <4>2 DEF Unmade
      <4> QED BY <2>4, <4>1, <4>3
    <3> QED BY <3>1, <3>2
  <2> QED BY <2>1, <2>4, KeysKept
<1>7. ASSUME NEW q \in Process, Restart(q) PROVE KeysOK'
  <2>1. ASSUME NEW d \in Call, job'[d].op = "createKey"
        PROVE  /\ job[d].op = "createKey" /\ job'[d].id = job[d].id
               /\ Unmade(d)' => Unmade(d)
    <3>1. SameAsked(d)
      BY <1>7, <2>1, RestartKind DEF NoJob
    <3>2. \A e \in Call : ~Reports(e)
      <4>1. \A e \in Call : Reports(e) => faults' = faults
        BY DEF Reports
      <4>2. faults' = faults + 1 /\ faults \in Nat
        BY <1>7, RestartKind DEF IInv, TypeOK
      <4>3. faults' # faults
        BY <4>2
      <4> QED BY <4>1, <4>3
    <3> QED BY <1>o, <2>1, <3>1, <3>2 DEF SameAsked
  <2> QED BY <1>7, <2>1, RestartKind, KeysKept
<1>8. CASE Tick \/ (\E u \in User : Disable(u)) \/ UNCHANGED vars
  <2>1. UNCHANGED <<pc, job, queue, apiKeys>>
    BY <1>8, StillKind
  <2> QED BY <2>1 DEF KeysOK, Unmade
<1> QED BY <1>1, <1>2, <1>3, <1>4, <1>5, <1>6, <1>7, <1>8, StepKinds DEF Next
-----------------------------------------------------------------------------
(* The records of the changes *)

\* Request c has made change x, and its record is still to come.
Waits(c, x) ==
    /\ job[c].op \in Mutations /\ ChangeOf(c) = x
    /\ \/ pc[c] = "written"
       \/ \E p \in Process : \E n \in DOMAIN queue[p] :
             queue[p][n].call = c /\ queue[p][n].about = x

LEMMA Counted ==
    ASSUME NEW x
    PROVE  /\ Outstanding(x) = Cardinality({c \in Call : Waits(c, x)})
           /\ IsFiniteSet({c \in Call : Waits(c, x)})
           /\ Outstanding(x) \in Nat
<1>1. Outstanding(x) = Cardinality({c \in Call : Waits(c, x)})
  BY DEF Outstanding, Waits
<1>2. IsFiniteSet({c \in Call : Waits(c, x)})
  BY AdminAssumption, FS_Subset
<1> QED BY <1>1, <1>2, FS_CardinalityType

\* The numbers of such requests before and after a step.
LEMMA AsMany ==
    ASSUME NEW x, \A d \in Call : Waits(d, x)' <=> Waits(d, x)
    PROVE  Outstanding(x)' = Outstanding(x)
<1>1. {c \in Call : Waits(c, x)}' = {c \in Call : Waits(c, x)}
  OBVIOUS
<1>2. Outstanding(x)' = Cardinality({c \in Call : Waits(c, x)}')
  BY DEF Outstanding, Waits
<1> QED BY <1>1, <1>2, Counted

LEMMA OneMore ==
    ASSUME NEW x, NEW c \in Call, Waits(c, x)', ~Waits(c, x),
           \A d \in Call \ {c} : Waits(d, x)' <=> Waits(d, x)
    PROVE  Outstanding(x)' = Outstanding(x) + 1
<1> DEFINE S == {d \in Call : Waits(d, x)}
<1>a. \A d \in Call : Waits(d, x)' <=> Waits(d, x) \/ d = c
  OBVIOUS
<1>1. S' = S \cup {c} /\ c \notin S
  BY <1>a
<1>2. Outstanding(x)' = Cardinality(S')
  BY DEF Outstanding, Waits
<1>3. Outstanding(x) = Cardinality(S) /\ IsFiniteSet(S)
  BY Counted
<1> HIDE DEF S
<1>4. Cardinality(S \cup {c}) = Cardinality(S) + 1
  BY <1>1, <1>3, FS_AddElement
<1> QED BY <1>1, <1>2, <1>3, <1>4

LEMMA OneLess ==
    ASSUME NEW x, NEW c \in Call, ~Waits(c, x)', Waits(c, x),
           \A d \in Call \ {c} : Waits(d, x)' <=> Waits(d, x)
    PROVE  Outstanding(x)' = Outstanding(x) - 1
<1> DEFINE S == {d \in Call : Waits(d, x)}
<1>a. \A d \in Call : Waits(d, x)' <=> Waits(d, x) /\ d # c
  OBVIOUS
<1>1. S' = S \ {c} /\ c \in S
  BY <1>a
<1>2. Outstanding(x)' = Cardinality(S')
  BY DEF Outstanding, Waits
<1>3. Outstanding(x) = Cardinality(S) /\ IsFiniteSet(S)
  BY Counted
<1> HIDE DEF S
<1>4. Cardinality(S \ {c}) = Cardinality(S) - 1
  BY <1>1, <1>3, FS_RemoveElement
<1> QED BY <1>1, <1>2, <1>3, <1>4

LEMMA NoMore ==
    ASSUME NEW x, \A d \in Call : Waits(d, x)' => Waits(d, x)
    PROVE  Outstanding(x)' <= Outstanding(x) /\ Outstanding(x)' \in Nat
<1> DEFINE S == {d \in Call : Waits(d, x)}
<1>1. S' \subseteq S
  OBVIOUS
<1>2. Outstanding(x)' = Cardinality(S')
  BY DEF Outstanding, Waits
<1>3. Outstanding(x) = Cardinality(S) /\ IsFiniteSet(S)
  BY Counted
<1> HIDE DEF S
<1> QED BY <1>1, <1>2, <1>3, FS_Subset, FS_CardinalityType

\* Who waits for nothing.
LEMMA NotWaiting ==
    ASSUME IInv, NEW c \in Call, pc[c] \notin {"written", "append"}, NEW x
    PROVE  ~Waits(c, x)
BY NotQueued, QueueType DEF Waits

\* Who waits for a licence state to be on record waits for no change to be.
LEMMA WaitsForOne ==
    ASSUME IInv, NEW c \in Call, pc[c] = "append", NEW x,
           NEW p \in Process, NEW n \in 1 .. Len(queue[p]), queue[p][n].call = c
    PROVE  Waits(c, x) => queue[p][n].about = x
<1> SUFFICES ASSUME Waits(c, x) PROVE queue[p][n].about = x
  OBVIOUS
<1>1. PICK q \in Process : \E m \in DOMAIN queue[q] : queue[q][m].call = c /\ queue[q][m].about = x
  BY DEF Waits
<1>2. PICK m \in 1 .. Len(queue[q]) : queue[q][m].call = c /\ queue[q][m].about = x
  BY <1>1, QueueType
<1>3. q = p
  BY <1>2, QueueType DEF TaskOK
<1> QED BY <1>2, <1>3 DEF IInv, QueueOK

\* A step of c that leaves the queues, or lets c join one, leaves the others waiting.
LEMMA OthersWait ==
    ASSUME IInv, NEW c \in Call, OthersAsked(c), NEW x, NEW d \in Call \ {c},
           \/ UNCHANGED queue
           \/ pc[c] # "ended" /\ \E about, next : Enqueue(c, about, next)
    PROVE  Waits(d, x)' <=> Waits(d, x)
<1>1. /\ pc'[d] = pc[d] /\ (job'[d].op \in Mutations <=> job[d].op \in Mutations)
      /\ ChangeOf(d)' = ChangeOf(d)
  BY DEF OthersAsked, SameAsked, ChangeOf
<1>2. CASE UNCHANGED queue
  BY <1>1, <1>2 DEF Waits
<1>3. ASSUME NEW about, NEW next, pc[c] # "ended", Enqueue(c, about, next)
      PROVE  Waits(d, x)' <=> Waits(d, x)
  <2>1. PICK q : q = job[c].process
    OBVIOUS
  <2>2. /\ q \in Process
        /\ queue'[q] = Append(queue[q], [call |-> c, about |-> about, next |-> next])
        /\ \A r \in Process \ {q} : queue'[r] = queue[r]
    BY <1>3, <2>1, Joined
  <2>3. /\ Len(queue[q]) \in Nat /\ DOMAIN queue[q] = 1 .. Len(queue[q])
        /\ DOMAIN queue'[q] = 1 .. Len(queue[q]) + 1
        /\ queue'[q][Len(queue[q]) + 1] = [call |-> c, about |-> about, next |-> next]
        /\ \A n \in 1 .. Len(queue[q]) : queue'[q][n] = queue[q][n]
    BY <2>2, Longer, QueueType
  <2>4. ASSUME NEW p \in Process, NEW n \in DOMAIN queue[p], queue[p][n].call = d
        PROVE  n \in DOMAIN queue'[p] /\ queue'[p][n] = queue[p][n]
    BY <2>2, <2>3, <2>4
  <2>5. ASSUME NEW p \in Process, NEW n \in DOMAIN queue'[p], queue'[p][n].call = d
        PROVE  n \in DOMAIN queue[p] /\ queue'[p][n] = queue[p][n]
    <3>1. CASE p = q
      <4>1. n # Len(queue[q]) + 1
        BY <2>3, <2>5, <3>1
      <4> QED BY <2>3, <2>5, <3>1, <4>1
    <3>2. CASE p # q
      BY <2>2, <2>5, <3>2
    <3> QED BY <3>1, <3>2
  <2> QED BY <1>1, <2>4, <2>5 DEF Waits
<1> QED BY <1>2, <1>3

\* Nor does the end of c's own append touch them.
LEMMA OthersWaitOn ==
    ASSUME IInv, NEW p \in Process, 1 \in 1 .. Len(queue[p]), NEW c \in Call,
           queue[p][1].call = c, OthersAsked(c),
           queue' = [queue EXCEPT ![p] = Tail(queue[p])], NEW x, NEW d \in Call \ {c}
    PROVE  Waits(d, x)' <=> Waits(d, x)
<1>1. /\ pc'[d] = pc[d] /\ (job'[d].op \in Mutations <=> job[d].op \in Mutations)
      /\ ChangeOf(d)' = ChangeOf(d)
  BY DEF OthersAsked, SameAsked, ChangeOf
<1>2. /\ Len(queue[p]) \in Nat /\ DOMAIN queue[p] = 1 .. Len(queue[p])
      /\ DOMAIN queue'[p] = 1 .. Len(queue[p]) - 1
      /\ \A n \in 1 .. Len(queue[p]) - 1 :
            n + 1 \in 1 .. Len(queue[p]) /\ queue'[p][n] = queue[p][n + 1]
      /\ \A q \in Process \ {p} : queue'[q] = queue[q]
  BY Shorter, QueueType
<1>3. ASSUME NEW q \in Process, NEW n \in DOMAIN queue'[q]
      PROVE  \E m \in DOMAIN queue[q] : queue'[q][n] = queue[q][m]
  BY <1>2
<1>4. ASSUME NEW q \in Process, NEW n \in DOMAIN queue[q], queue[q][n].call = d
      PROVE  \E m \in DOMAIN queue'[q] : queue'[q][m] = queue[q][n]
  <2>1. CASE q = p
    <3>1. n # 1
      BY <1>4, <2>1
    <3>2. n - 1 \in 1 .. Len(queue[p]) - 1 /\ (n - 1) + 1 = n
      BY <1>2, <2>1, <3>1
    <3> QED BY <1>2, <2>1, <3>2
  <2>2. CASE q # p
    BY <1>2, <2>2
  <2> QED BY <2>1, <2>2
<1> QED BY <1>1, <1>3, <1>4 DEF Waits
\* A statement that takes effect counts as a change.
LEMMA EffectCounts ==
    ASSUME IInv, KeysOK, NEW c \in Call, Changes(c)
    PROVE  /\ ChangeOf(c) \in Change
           /\ changed' = [changed EXCEPT ![ChangeOf(c)] = changed[ChangeOf(c)] + 1]
<1>1. /\ pc[c] = "write" /\ job[c].op \in Mutations /\ TakesEffect(c) /\ TakeEffect(c)
      /\ apiKeys \in [ApiKey -> KeyStates] /\ policies \in Policies /\ AskOK(c)
  BY Unpack DEF Changes, IInv, TypeOK
<1>2. ChangeOf(c) \in Change
  BY <1>1, ChangeType
<1>3. CASE job[c].op = "putPolicy"
  BY <1>1, <1>2, <1>3 DEF TakeEffect
<1>4. ASSUME policies' # policies \/ apiKeys' # apiKeys
      PROVE  changed' = [changed EXCEPT ![ChangeOf(c)] = changed[ChangeOf(c)] + 1]
  BY <1>1, <1>4 DEF TakeEffect
<1>5. CASE job[c].op = "deletePolicy"
  <2>1. policies[job[c].id] # None /\ policies' = [policies EXCEPT ![job[c].id] = None]
    BY <1>1, <1>5 DEF TakesEffect, TakeEffect
  <2>2. job[c].id \in Policy
    BY <1>1, <1>5 DEF AskOK, PolicyWrites
  <2>3. policies'[job[c].id] = None
    BY <1>1, <2>1, <2>2 DEF Policies
  <2> QED BY <1>2, <1>4, <2>1, <2>3
<1>6. CASE job[c].op = "createKey"
  <2>1. apiKeys[job[c].id] = "none"
    BY <1>1, <1>6 DEF KeysOK, Unmade, Early
  <2>2. apiKeys' = [apiKeys EXCEPT ![job[c].id] = "active"] /\ job[c].id \in ApiKey
    BY <1>1, <1>6 DEF TakeEffect, AskOK, KeyWrites
  <2>3. apiKeys'[job[c].id] = "active"
    BY <1>1, <2>2
  <2> QED BY <1>2, <1>4, <2>1, <2>3
<1>7. CASE job[c].op = "revokeKey"
  <2>1. apiKeys[job[c].id] = "active"
    BY <1>1, <1>7 DEF TakesEffect
  <2>2. apiKeys' = [apiKeys EXCEPT ![job[c].id] = "revoked"] /\ job[c].id \in ApiKey
    BY <1>1, <1>7 DEF TakeEffect, AskOK, KeyWrites
  <2>3. apiKeys'[job[c].id] = "revoked"
    BY <1>1, <2>2
  <2> QED BY <1>2, <1>4, <2>1, <2>3
<1> QED BY <1>1, <1>2, <1>3, <1>5, <1>6, <1>7 DEF Mutations, PolicyWrites, KeyWrites

\* The records there are and those to come are as many as the changes.
LEMMA ChangesStep ==
    IInv /\ IInv' /\ AboutOK /\ KeysOK /\ ChangesRecorded /\ [Next]_vars => ChangesRecorded'
<1> SUFFICES ASSUME IInv, IInv', AboutOK, KeysOK, ChangesRecorded, [Next]_vars, NEW x \in Change
             PROVE  /\ recorded'[x] + Outstanding(x)' <= changed'[x]
                    /\ faults' = 0 => recorded'[x] + Outstanding(x)' = changed'[x]
  BY DEF ChangesRecorded
<1> DEFINE Balanced == /\ recorded'[x] + Outstanding(x)' <= changed'[x]
                       /\ faults' = 0 => recorded'[x] + Outstanding(x)' = changed'[x]
<1>t. /\ recorded[x] \in Nat /\ changed[x] \in Nat /\ Outstanding(x) \in Nat /\ faults \in Nat
      /\ recorded'[x] \in Nat /\ changed'[x] \in Nat
      /\ recorded \in [Change -> Nat] /\ changed \in [Change -> Nat]
  BY Counted DEF IInv, TypeOK
<1>b. /\ recorded[x] + Outstanding(x) <= changed[x]
      /\ faults = 0 => recorded[x] + Outstanding(x) = changed[x]
  BY DEF ChangesRecorded
\* As many wait as before, and nothing is stored or changed.
<1>s. ASSUME recorded'[x] = recorded[x], changed'[x] = changed[x],
             faults' = faults \/ faults' = faults + 1,
             \A d \in Call : Waits(d, x)' <=> Waits(d, x)
      PROVE  Balanced
  <2>1. Outstanding(x)' = Outstanding(x)
    BY <1>s, AsMany
  <2> QED BY <1>b, <1>t, <1>s, <2>1
\* Fewer may wait after a fault.
<1>f. ASSUME recorded'[x] = recorded[x], changed'[x] = changed[x], faults' = faults + 1,
             \A d \in Call : Waits(d, x)' => Waits(d, x)
      PROVE  Balanced
  <2>1. Outstanding(x)' <= Outstanding(x) /\ Outstanding(x)' \in Nat
    BY <1>f, NoMore
  <2> QED BY <1>b, <1>t, <1>f, <2>1
<1>1. ASSUME NEW c \in Call, Request(c) \/ Quiet(c) PROVE Balanced
  <2>1. /\ OthersAsked(c) /\ pc[c] \notin {"written", "append"}
        /\ pc'[c] \notin {"written", "append"}
        /\ UNCHANGED <<queue, recorded, changed>>
        /\ faults' = faults \/ faults' = faults + 1
    BY <1>1, RequestKind DEF Quiet
  <2>2. ~Waits(c, x) /\ ~Waits(c, x)'
    <3>1. ~Waits(c, x)
      BY <2>1, NotWaiting
    <3>2. ASSUME NEW p \in Process, NEW n \in DOMAIN queue'[p] PROVE queue'[p][n].call # c
      BY <2>1, NotQueued, QueueType
    <3> QED BY <2>1, <3>1, <3>2 DEF Waits
  <2>3. \A d \in Call : Waits(d, x)' <=> Waits(d, x)
    BY <2>1, <2>2, OthersWait
  <2> QED BY <1>s, <2>1, <2>3
<1>2. ASSUME NEW c \in Call, Reports(c) PROVE Balanced
  <2>1. PICK state \in States, next \in {"loaded", "write", "ended"} :
           Enqueue(c, <<"LICENSE_CHANGED", state>>, next)
    BY <1>2 DEF Reports
  <2>2. OthersAsked(c) /\ pc[c] \notin {"append", "ended", "written"}
        /\ UNCHANGED <<recorded, changed, faults>>
    BY <1>2 DEF Reports
  <2>3. ~Waits(c, x)
    BY <2>2, NotWaiting
  <2>4. ~Waits(c, x)'
    <3> SUFFICES ASSUME Waits(c, x)' PROVE FALSE
      OBVIOUS
    <3>1. pc'[c] = "append"
      BY <2>1, <2>2, Joined
    <3>2. PICK p \in Process : \E n \in DOMAIN queue'[p] :
             queue'[p][n].call = c /\ queue'[p][n].about = x
      BY <3>1 DEF Waits
    <3>3. PICK n \in DOMAIN queue'[p] : queue'[p][n].call = c /\ queue'[p][n].about = x
      BY <3>2
    <3>4. PICK q : q = job[c].process
      OBVIOUS
    <3>5. /\ q \in Process
          /\ queue'[q] = Append(queue[q],
                [call |-> c, about |-> <<"LICENSE_CHANGED", state>>, next |-> next])
          /\ \A r \in Process \ {q} : queue'[r] = queue[r]
      BY <2>1, <2>2, <3>4, Joined
    <3>6. /\ DOMAIN queue'[q] = 1 .. Len(queue[q]) + 1 /\ Len(queue[q]) \in Nat
          /\ queue'[q][Len(queue[q]) + 1] =
                [call |-> c, about |-> <<"LICENSE_CHANGED", state>>, next |-> next]
          /\ \A m \in 1 .. Len(queue[q]) : queue'[q][m] = queue[q][m]
      BY <3>5, Longer, QueueType
    <3>7. <<"LICENSE_CHANGED", state>> # x
      <4>1. <<"LICENSE_CHANGED", state>> \in Report
        BY DEF Report
      <4> QED BY <4>1, TwoKinds
    <3>8. CASE p = q
      <4>1. n # Len(queue[q]) + 1
        BY <3>3, <3>6, <3>7, <3>8
      <4>2. n \in 1 .. Len(queue[q])
        BY <3>6, <3>8, <4>1
      <4> QED BY <2>2, <3>3, <3>5, <3>6, <3>8, <4>2, NotQueued
    <3>9. CASE p # q
      BY <2>2, <3>3, <3>5, <3>9, NotQueued, QueueType
    <3> QED BY <3>8, <3>9
  <2>5. \A d \in Call \ {c} : Waits(d, x)' <=> Waits(d, x)
    BY <2>1, <2>2, OthersWait
  <2>6. \A d \in Call : Waits(d, x)' <=> Waits(d, x)
    BY <2>3, <2>4, <2>5
  <2> QED BY <1>s, <2>2, <2>6
<1>3. ASSUME NEW c \in Call, Records(c) PROVE Balanced
  <2>1. /\ OthersAsked(c) /\ job'[c].op = job[c].op /\ job'[c].id = job[c].id
        /\ pc[c] = "written" /\ job[c].op \in Mutations /\ Enqueue(c, ChangeOf(c), "ended")
        /\ UNCHANGED <<recorded, changed, faults>>
    BY <1>3 DEF Records
  <2>2. ChangeOf(c)' = ChangeOf(c)
    BY <2>1 DEF ChangeOf
  <2>3. Waits(c, x) <=> ChangeOf(c) = x
    BY <2>1 DEF Waits
  <2>4. ASSUME ChangeOf(c) = x PROVE Waits(c, x)'
    <3>1. PICK q : q = job[c].process
      OBVIOUS
    <3>2. /\ q \in Process
          /\ queue'[q] = Append(queue[q], [call |-> c, about |-> ChangeOf(c), next |-> "ended"])
      BY <2>1, <3>1, Joined
    <3>3. /\ Len(queue[q]) + 1 \in DOMAIN queue'[q]
          /\ queue'[q][Len(queue[q]) + 1] =
                [call |-> c, about |-> ChangeOf(c), next |-> "ended"]
      <4>1. DOMAIN queue'[q] = 1 .. Len(queue[q]) + 1 /\ Len(queue[q]) \in Nat
        BY <3>2, Longer, QueueType
      <4>2. Len(queue[q]) + 1 \in 1 .. Len(queue[q]) + 1
        BY <4>1
      <4> QED BY <3>2, <4>1, <4>2, Longer
    <3> QED BY <2>1, <2>2, <2>4, <3>2, <3>3 DEF Waits
  <2>5. Waits(c, x)' => ChangeOf(c) = x
    BY <2>2 DEF Waits
  <2>6. \A d \in Call \ {c} : Waits(d, x)' <=> Waits(d, x)
    BY <2>1, OthersWait
  <2>7. \A d \in Call : Waits(d, x)' <=> Waits(d, x)
    BY <2>3, <2>4, <2>5, <2>6
  <2> QED BY <1>s, <2>1, <2>7
<1>4. ASSUME NEW c \in Call, Changes(c) PROVE Balanced
  <2>1. /\ OthersAsked(c) /\ pc[c] = "write" /\ job[c].op \in Mutations
        /\ UNCHANGED <<queue, recorded>>
        /\ \/ /\ pc'[c] = "written" /\ job'[c].op = job[c].op /\ job'[c].id = job[c].id
              /\ faults' = faults
           \/ pc'[c] = "ended" /\ job'[c] = NoJob /\ faults' = faults + 1
    BY <1>4 DEF Changes
  <2>2. /\ ChangeOf(c) \in Change
        /\ changed' = [changed EXCEPT ![ChangeOf(c)] = changed[ChangeOf(c)] + 1]
    BY <1>4, EffectCounts
  <2>3. \A d \in Call \ {c} : Waits(d, x)' <=> Waits(d, x)
    BY <2>1, OthersWait
  <2>4. ~Waits(c, x)
    BY <2>1, NotWaiting
  <2>5. changed'[x] = IF x = ChangeOf(c) THEN changed[x] + 1 ELSE changed[x]
    BY <1>t, <2>2
  <2>n. NoJob.op \notin Mutations
    BY DEF NoJob, Mutations, PolicyWrites, KeyWrites
  <2>6. CASE pc'[c] = "written" /\ job'[c].op = job[c].op /\ job'[c].id = job[c].id
             /\ faults' = faults
    <3>1. Waits(c, x)' <=> ChangeOf(c) = x
      BY <2>1, <2>6 DEF Waits, ChangeOf
    <3>2. CASE ChangeOf(c) = x
      <4>1. Outstanding(x)' = Outstanding(x) + 1
        BY <2>3, <2>4, <3>1, <3>2, OneMore
      <4> QED BY <1>b, <1>t, <2>1, <2>5, <2>6, <3>2, <4>1
    <3>3. CASE ChangeOf(c) # x
      <4>1. \A d \in Call : Waits(d, x)' <=> Waits(d, x)
        BY <2>3, <2>4, <3>1, <3>3
      <4> QED BY <1>s, <2>1, <2>5, <2>6, <3>3, <4>1
    <3> QED BY <3>2, <3>3
  <2>7. CASE pc'[c] = "ended" /\ job'[c] = NoJob /\ faults' = faults + 1
    <3>1. ~Waits(c, x)'
      BY <2>7, <2>n DEF Waits
    <3>2. Outstanding(x)' = Outstanding(x)
      BY <2>3, <2>4, <3>1, AsMany
    <3> QED BY <1>b, <1>t, <2>1, <2>5, <2>7, <3>2
  <2> QED BY <2>1, <2>6, <2>7
<1>5. ASSUME NEW p \in Process, Appended(p) PROVE Balanced
  <2>1. PICK task \in Task :
           /\ 1 \in 1 .. Len(queue[p]) /\ task = queue[p][1] /\ task = Head(queue[p])
           /\ pc[task.call] = "append" /\ OthersAsked(task.call)
           /\ queue' = [queue EXCEPT ![p] = Tail(queue[p])]
           /\ \/ pc'[task.call] = "ended" /\ job'[task.call] = NoJob
              \/ /\ task.next # "ended" /\ pc'[task.call] = task.next
                 /\ job'[task.call] = job[task.call]
           /\ UNCHANGED changed
    BY <1>5, AppendedKind
  <2>2. PICK c \in Call : c = task.call
    BY DEF Task
  <2>3. /\ task.about \in Change \cup Report /\ task.next \in {"loaded", "write", "ended"}
        /\ AboutTask(task)
    BY <2>1 DEF Task, AboutOK
  <2>4. \A d \in Call \ {c} : Waits(d, x)' <=> Waits(d, x)
    BY <2>1, <2>2, OthersWaitOn
  <2>5. ~Waits(c, x)'
    <3>1. pc'[c] \notin {"written", "append"}
      BY <2>1, <2>2, <2>3
    <3>2. ASSUME NEW q \in Process, NEW n \in DOMAIN queue'[q] PROVE queue'[q][n].call # c
      <4>1. QueueOK' /\ n \in 1 .. Len(queue'[q])
        <5>1. queue' \in [Process -> Seq(Task)]
          BY DEF IInv, TypeOK, Task
        <5>2. DOMAIN queue'[q] = 1 .. Len(queue'[q])
          BY <5>1
        <5> QED BY <5>2 DEF IInv
      <4> QED BY <3>1, <4>1 DEF QueueOK, TaskOK
    <3> QED BY <3>1, <3>2 DEF Waits
  <2>6. Waits(c, x) <=> task.about = x
    <3>1. Waits(c, x) => task.about = x
      BY <2>1, <2>2, WaitsForOne
    <3>2. ASSUME task.about = x PROVE Waits(c, x)
      <4>1. 1 \in DOMAIN queue[p]
        BY <2>1, QueueType
      <4> QED BY <2>1, <2>2, <2>3, <3>2, <4>1 DEF AboutTask, Waits
    <3> QED BY <3>1, <3>2
  <2> DEFINE stored ==
        \/ /\ task.about \in Change
           /\ recorded' = [recorded EXCEPT ![task.about] = recorded[task.about] + 1]
        \/ task.about \in Report /\ recorded' = recorded
  <2>7. \/ stored /\ faults' = faults
        \/ faults' = faults + 1 /\ (stored \/ recorded' = recorded)
    BY <1>5, <2>1 DEF Appended, records
  <2>8. CASE stored /\ task.about = x
    <3>1. x \notin Report
      BY TwoKinds
    <3>2. recorded'[x] = recorded[x] + 1
      BY <1>t, <2>8, <3>1
    <3>3. Outstanding(x)' = Outstanding(x) - 1
      BY <2>4, <2>5, <2>6, <2>8, OneLess
    <3>4. faults' = faults \/ faults' = faults + 1
      BY <2>7
    <3> QED BY <1>b, <1>t, <2>1, <3>2, <3>3, <3>4
  <2>9. CASE stored /\ task.about # x
    <3>1. recorded'[x] = recorded[x]
      BY <1>t, <2>9
    <3>2. \A d \in Call : Waits(d, x)' <=> Waits(d, x)
      BY <2>4, <2>5, <2>6, <2>9
    <3>3. changed'[x] = changed[x] /\ (faults' = faults \/ faults' = faults + 1)
      BY <2>1, <2>7
    <3> QED BY <1>s, <3>1, <3>2, <3>3
  <2>10. CASE faults' = faults + 1 /\ recorded' = recorded
    <3>1. \A d \in Call : Waits(d, x)' => Waits(d, x)
      BY <2>4, <2>5
    <3> QED BY <1>f, <2>1, <2>10, <3>1
  <2> QED BY <2>7, <2>8, <2>9, <2>10
<1>6. ASSUME NEW p \in Process, Restart(p) PROVE Balanced
  <2>1. ASSUME NEW d \in Call, Waits(d, x)' PROVE Waits(d, x)
    <3>n. NoJob.op \notin Mutations
      BY DEF NoJob, Mutations, PolicyWrites, KeyWrites
    <3>1. SameAsked(d)
      BY <1>6, <2>1, <3>n, RestartKind DEF Waits
    <3>2. ASSUME NEW q \in Process, NEW n \in DOMAIN queue'[q]
          PROVE  n \in DOMAIN queue[q] /\ queue'[q][n] = queue[q][n]
      <4>1. queue'[p] = <<>> /\ \A r \in Process \ {p} : queue'[r] = queue[r]
        BY <1>6, RestartKind
      <4>2. q # p
        BY <3>2, <4>1
      <4> QED BY <3>2, <4>1, <4>2
    <3>3. ChangeOf(d)' = ChangeOf(d)
      BY <3>1 DEF ChangeOf, SameAsked
    <3> QED BY <2>1, <3>1, <3>2, <3>3 DEF Waits, SameAsked
  <2>2. faults' = faults + 1 /\ UNCHANGED <<recorded, changed>>
    BY <1>6, RestartKind
  <2> QED BY <1>f, <2>1, <2>2
<1>7. CASE Tick \/ (\E u \in User : Disable(u)) \/ UNCHANGED vars
  <2>1. UNCHANGED <<pc, job, queue, recorded, changed, faults>>
    BY <1>7, StillKind
  <2>2. \A d \in Call : Waits(d, x)' <=> Waits(d, x)
    BY <2>1 DEF Waits, ChangeOf
  <2> QED BY <1>s, <2>1, <2>2
<1> QED BY <1>1, <1>2, <1>3, <1>4, <1>5, <1>6, <1>7, StepKinds DEF Next
-----------------------------------------------------------------------------
(* The licence states on record *)

\* A nonempty set of natural numbers has a least member.
LEMMA LeastNatural ==
    ASSUME NEW S, S \subseteq Nat, S # {}
    PROVE  \E n \in S : \A m \in S : n <= m
<1> DEFINE less == OpToRel(<, Nat)
<1>1. PICK n \in S : \A m \in S : <<m, n>> \notin less
  BY WFMin, NatLessThanWellFounded
<1>2. \A m \in S : ~(m < n)
  BY <1>1 DEF OpToRel
<1> QED BY <1>2

\* A bounded one has a greatest member.
LEMMA GreatestNatural ==
    ASSUME NEW S, S \subseteq Nat, S # {}, NEW bound \in Nat, \A n \in S : n <= bound
    PROVE  \E n \in S : \A m \in S : m <= n
<1> DEFINE T == {bound - n : n \in S}
<1>1. T \subseteq Nat
  <2>1. \A n \in S : bound - n \in Nat
    OBVIOUS
  <2> QED BY <2>1
<1>2. T # {}
  OBVIOUS
<1>3. PICK t \in T : \A u \in T : t <= u
  BY <1>1, <1>2, LeastNatural
<1>4. PICK n \in S : t = bound - n
  OBVIOUS
<1>5. \A m \in S : t <= bound - m
  BY <1>3
<1> QED BY <1>4, <1>5

\* The last licence state of a queue, or else the one that is on record.
LastOf(q, last) ==
    LET waiting == {n \in DOMAIN q : q[n].about \in Report}
    IN  IF waiting = {} THEN last
        ELSE q[CHOOSE n \in waiting : \A m \in waiting : m =< n].about[2]

\* n is the place of that state.
Newest(q, n) ==
    /\ n \in DOMAIN q /\ q[n].about \in Report
    /\ \A m \in DOMAIN q : q[m].about \in Report => m <= n

LEMMA NewestCounts ==
    ASSUME NEW q, DOMAIN q \subseteq Nat, NEW last, NEW n, Newest(q, n)
    PROVE  LastOf(q, last) = q[n].about[2]
<1> DEFINE waiting == {m \in DOMAIN q : q[m].about \in Report}
           newest == CHOOSE m \in waiting : \A k \in waiting : k =< m
<1>1. n \in waiting /\ \A m \in waiting : m =< n
  BY DEF Newest
<1>2. newest \in waiting /\ \A m \in waiting : m =< newest
  BY <1>1
<1>3. newest = n
  <2>1. newest <= n /\ n <= newest /\ newest \in Nat /\ n \in Nat
    BY <1>1, <1>2
  <2> HIDE DEF newest
  <2> QED BY <2>1
<1> QED BY <1>1, <1>3 DEF LastOf

LEMMA NoneCounts ==
    ASSUME NEW q, NEW last, \A n \in DOMAIN q : q[n].about \notin Report
    PROVE  LastOf(q, last) = last
BY DEF LastOf

LEMMA SomeNewest ==
    ASSUME NEW len \in Nat, NEW q, DOMAIN q = 1 .. len,
           NEW m \in DOMAIN q, q[m].about \in Report
    PROVE  \E n : Newest(q, n)
<1> DEFINE waiting == {k \in 1 .. len : q[k].about \in Report}
<1>1. waiting \subseteq Nat /\ waiting # {} /\ \A k \in waiting : k <= len
  OBVIOUS
<1>2. PICK n \in waiting : \A k \in waiting : k <= n
  <2> HIDE DEF waiting
  <2> QED BY <1>1, GreatestNatural
<1> QED BY <1>2 DEF Newest

\* A state that joins the queue is the newest one, and is behind nothing else.
LEMMA ReportCounts ==
    ASSUME NEW len \in Nat, NEW q, DOMAIN q = 1 .. len + 1, q[len + 1].about \in Report, NEW last
    PROVE  LastOf(q, last) = q[len + 1].about[2]
<1>1. DOMAIN q \subseteq Nat /\ len + 1 \in DOMAIN q /\ \A m \in DOMAIN q : m <= len + 1
  OBVIOUS
<1>2. PICK n : n = len + 1
  OBVIOUS
<1>3. Newest(q, n)
  BY <1>1, <1>2 DEF Newest
<1> QED BY <1>1, <1>2, <1>3, NewestCounts

\* A change that joins the queue leaves the last licence state.
LEMMA ChangeCounts ==
    ASSUME NEW len \in Nat, NEW q, NEW r, DOMAIN q = 1 .. len, DOMAIN r = 1 .. len + 1,
           \A n \in 1 .. len : r[n] = q[n], r[len + 1].about \notin Report, NEW last
    PROVE  LastOf(r, last) = LastOf(q, last)
<1>1. \A n \in DOMAIN r : r[n].about \in Report => n \in DOMAIN q /\ r[n] = q[n]
  <2>1. \A n \in 1 .. len + 1 : n = len + 1 \/ n \in 1 .. len
    OBVIOUS
  <2> QED BY <2>1
<1>2. DOMAIN q \subseteq DOMAIN r /\ DOMAIN q \subseteq Nat /\ DOMAIN r \subseteq Nat
  OBVIOUS
<1>3. CASE \A n \in DOMAIN q : q[n].about \notin Report
  <2>1. \A n \in DOMAIN r : r[n].about \notin Report
    BY <1>1, <1>3
  <2> QED BY <1>3, <2>1, NoneCounts
<1>4. ASSUME NEW m \in DOMAIN q, q[m].about \in Report PROVE LastOf(r, last) = LastOf(q, last)
  <2>1. PICK n : Newest(q, n)
    BY <1>4, SomeNewest
  <2>2. r[n] = q[n] /\ n \in DOMAIN q
    BY <2>1 DEF Newest
  <2>3. Newest(r, n)
    BY <1>1, <1>2, <2>1, <2>2 DEF Newest
  <2> QED BY <1>2, <2>1, <2>2, <2>3, NewestCounts
<1> QED BY <1>3, <1>4

\* Of a queue without its first append, the last licence state is what it was,
\* when the first is on record if it was one.
LEMMA TailCounts ==
    ASSUME NEW len \in Nat, NEW q, NEW r, DOMAIN q = 1 .. len, DOMAIN r = 1 .. len - 1, 1 \in 1 .. len,
           \A n \in 1 .. len - 1 : r[n] = q[n + 1], NEW last, NEW after,
           after = IF q[1].about \in Report THEN q[1].about[2] ELSE last
    PROVE  LastOf(r, after) = LastOf(q, last)
<1>1. DOMAIN q \subseteq Nat /\ DOMAIN r \subseteq Nat
  OBVIOUS
<1>2. \A n \in DOMAIN q : n = 1 \/ (n - 1 \in DOMAIN r /\ r[n - 1] = q[n])
  <2>1. \A n \in 1 .. len : n = 1 \/ (n - 1 \in 1 .. len - 1 /\ (n - 1) + 1 = n)
    OBVIOUS
  <2> QED BY <2>1
<1>3. \A n \in DOMAIN r : n + 1 \in DOMAIN q /\ r[n] = q[n + 1]
  OBVIOUS
<1>4. CASE \A n \in DOMAIN r : r[n].about \notin Report
  <2>1. LastOf(r, after) = after
    BY <1>4, NoneCounts
  <2>2. \A n \in DOMAIN q : q[n].about \in Report => n = 1
    BY <1>2, <1>4
  <2>3. CASE q[1].about \in Report
    <3>1. Newest(q, 1)
      BY <2>2, <2>3 DEF Newest
    <3> QED BY <1>1, <2>1, <2>3, <3>1, NewestCounts
  <2>4. CASE q[1].about \notin Report
    <3>1. \A n \in DOMAIN q : q[n].about \notin Report
      BY <2>2, <2>4
    <3> QED BY <2>1, <2>4, <3>1, NoneCounts
  <2> QED BY <2>3, <2>4
<1>5. ASSUME NEW m \in DOMAIN r, r[m].about \in Report PROVE LastOf(r, after) = LastOf(q, last)
  <2>0. len - 1 \in Nat
    OBVIOUS
  <2>1. PICK n : Newest(r, n)
    BY <1>5, <2>0, SomeNewest
  <2>2. PICK k : k = n + 1
    OBVIOUS
  <2>3. n \in Nat /\ k \in DOMAIN q /\ q[k] = r[n] /\ q[k].about \in Report
    BY <1>1, <1>3, <2>1, <2>2 DEF Newest
  <2>4. ASSUME NEW j \in DOMAIN q, q[j].about \in Report PROVE j <= k
    <3>1. CASE j = 1
      BY <2>2, <2>3, <3>1
    <3>2. CASE j - 1 \in DOMAIN r /\ r[j - 1] = q[j]
      <4>1. j - 1 <= n
        BY <2>1, <2>4, <3>2 DEF Newest
      <4> QED BY <1>1, <2>2, <2>3, <4>1
    <3> QED BY <1>2, <3>1, <3>2
  <2>5. Newest(q, k)
    BY <2>3, <2>4 DEF Newest
  <2>6. LastOf(r, after) = r[n].about[2]
    BY <1>1, <2>1, NewestCounts
  <2>7. LastOf(q, last) = q[k].about[2]
    BY <1>1, <2>5, NewestCounts
  <2> QED BY <2>3, <2>6, <2>7
<1> QED BY <1>4, <1>5

LEMMA LastIs == ASSUME NEW p \in Process PROVE LastReport(p) = LastOf(queue[p], lastReport[p])
BY DEF LastReport, LastOf

\* A step without a fault keeps the trail in step with what the processes reported.
LEMMA LicenceStep == IInv /\ LicenceReported /\ [Next]_vars => LicenceReported'
<1> SUFFICES ASSUME IInv, LicenceReported, [Next]_vars, faults' = 0, NEW p \in Process
             PROVE  LastReport(p)' = reported'[p]
  BY DEF LicenceReported
<1>t. /\ reported \in [Process -> States] /\ lastReport \in [Process -> States] /\ faults \in Nat
      /\ DOMAIN queue = Process
  BY DEF IInv, TypeOK
<1>p. faults + 1 # 0
  BY <1>t
<1>l. LastReport(p)' = LastOf(queue'[p], lastReport'[p])
  BY DEF LastReport, LastOf
<1>h. faults = 0 => LastOf(queue[p], lastReport[p]) = reported[p]
  BY LastIs DEF LicenceReported
\* A step that leaves this process.
<1>s. ASSUME queue'[p] = queue[p], lastReport'[p] = lastReport[p], reported'[p] = reported[p],
             faults' = faults \/ faults' = faults + 1
      PROVE  LastReport(p)' = reported'[p]
  BY <1>h, <1>l, <1>p, <1>s
<1>1. ASSUME NEW c \in Call, Request(c) PROVE LastReport(p)' = reported'[p]
  BY <1>1, <1>s, RequestKind
<1>2. ASSUME NEW c \in Call, Quiet(c) \/ Changes(c) PROVE LastReport(p)' = reported'[p]
  BY <1>2, <1>s DEF Quiet, Changes
<1>3. ASSUME NEW c \in Call, Reports(c) PROVE LastReport(p)' = reported'[p]
  <2>1. PICK state \in States, next \in {"loaded", "write", "ended"} :
           /\ Enqueue(c, <<"LICENSE_CHANGED", state>>, next)
           /\ reported' = [reported EXCEPT ![job[c].process] = state]
    BY <1>3 DEF Reports
  <2>2. PICK q : q = job[c].process
    OBVIOUS
  <2>3. PICK task : task = [call |-> c, about |-> <<"LICENSE_CHANGED", state>>, next |-> next]
    OBVIOUS
  <2>4. pc[c] # "ended" /\ faults' = faults /\ lastReport' = lastReport
    BY <1>3 DEF Reports
  <2>5. /\ q \in Process /\ queue'[q] = Append(queue[q], task)
        /\ \A r \in Process \ {q} : queue'[r] = queue[r]
    BY <2>1, <2>2, <2>3, <2>4, Joined
  <2>6. CASE p = q
    <3>1. PICK len : len = Len(queue[p]) /\ len \in Nat
      BY QueueType
    <3>2. DOMAIN queue'[p] = 1 .. len + 1 /\ queue'[p][len + 1] = task
      BY <2>5, <2>6, <3>1, Longer
    <3>3. task.about \in Report /\ task.about[2] = state
      BY <2>3 DEF Report
    <3>4. LastOf(queue'[p], lastReport'[p]) = state
      BY <3>1, <3>2, <3>3, ReportCounts
    <3> QED BY <1>l, <1>t, <2>1, <2>2, <2>6, <3>4
  <2>7. CASE p # q
    <3>1. queue'[p] = queue[p] /\ reported'[p] = reported[p]
      BY <1>t, <2>1, <2>2, <2>5, <2>7
    <3> QED BY <1>s, <2>4, <3>1
  <2> QED BY <2>6, <2>7
<1>4. ASSUME NEW c \in Call, Records(c) PROVE LastReport(p)' = reported'[p]
  <2>1. PICK q, task :
           q = job[c].process /\ task = [call |-> c, about |-> ChangeOf(c), next |-> "ended"]
    OBVIOUS
  <2>2. /\ pc[c] = "written" /\ job[c].op \in Mutations
        /\ Enqueue(c, ChangeOf(c), "ended") /\ UNCHANGED <<reported, lastReport, faults>>
    BY <1>4 DEF Records
  <2>3. /\ q \in Process /\ queue'[q] = Append(queue[q], task)
        /\ \A r \in Process \ {q} : queue'[r] = queue[r]
    BY <2>1, <2>2, Joined
  <2>4. task.about \notin Report
    BY <2>1, <2>2, ChangeType, TwoKinds
  <2>5. CASE p = q
    <3>1. PICK len : len = Len(queue[p]) /\ len \in Nat /\ DOMAIN queue[p] = 1 .. len
      BY QueueType
    <3>2. /\ DOMAIN queue'[p] = 1 .. len + 1 /\ queue'[p][len + 1] = task
          /\ \A n \in 1 .. len : queue'[p][n] = queue[p][n]
      BY <2>3, <2>5, <3>1, Longer
    <3>3. LastOf(queue'[p], lastReport[p]) = LastOf(queue[p], lastReport[p])
      <4>1. PICK old, new, last : old = queue[p] /\ new = queue'[p] /\ last = lastReport[p]
        OBVIOUS
      <4>2. /\ DOMAIN old = 1 .. len /\ DOMAIN new = 1 .. len + 1 /\ new[len + 1] = task
            /\ \A n \in 1 .. len : new[n] = old[n]
        BY <3>1, <3>2, <4>1
      <4>3. LastOf(new, last) = LastOf(old, last)
        BY <2>4, <3>1, <4>2, ChangeCounts
      <4> QED BY <4>1, <4>3
    <3> QED BY <1>h, <1>l, <2>2, <3>3
  <2>6. CASE p # q
    BY <1>s, <2>2, <2>3, <2>6
  <2> QED BY <2>5, <2>6
<1>5. ASSUME NEW q \in Process, Appended(q) PROVE LastReport(p)' = reported'[p]
  <2>1. PICK task \in Task :
           /\ 1 \in 1 .. Len(queue[q]) /\ task = queue[q][1] /\ task = Head(queue[q])
           /\ queue' = [queue EXCEPT ![q] = Tail(queue[q])]
           /\ UNCHANGED reported
    BY <1>5, AppendedKind
  <2>2. \/ task.about \in Change /\ lastReport' = lastReport
        \/ /\ task.about \in Report
           /\ lastReport' = [lastReport EXCEPT ![q] = task.about[2]]
    BY <1>5, <1>p, <2>1 DEF Appended, records
  <2>3. faults' = faults
    BY <1>5, <1>p DEF Appended
  <2>4. CASE p = q
    <3>1. PICK len : len = Len(queue[p]) /\ len \in Nat /\ DOMAIN queue[p] = 1 .. len
      BY QueueType
    <3>2. /\ DOMAIN queue'[p] = 1 .. len - 1
          /\ \A n \in 1 .. len - 1 : queue'[p][n] = queue[p][n + 1]
      BY <2>1, <2>4, <3>1, Shorter
    <3>3. lastReport'[p] = IF queue[p][1].about \in Report THEN queue[p][1].about[2]
                           ELSE lastReport[p]
      BY <1>t, <2>1, <2>2, <2>4, TwoKinds
    <3>4. 1 \in 1 .. len
      BY <2>1, <2>4, <3>1
    <3>5. LastOf(queue'[p], lastReport'[p]) = LastOf(queue[p], lastReport[p])
      <4>1. PICK old, new, last, after :
               /\ old = queue[p] /\ new = queue'[p] /\ last = lastReport[p]
               /\ after = lastReport'[p]
        OBVIOUS
      <4>2. /\ DOMAIN old = 1 .. len /\ DOMAIN new = 1 .. len - 1
            /\ \A n \in 1 .. len - 1 : new[n] = old[n + 1]
            /\ after = IF old[1].about \in Report THEN old[1].about[2] ELSE last
        BY <3>1, <3>2, <3>3, <4>1
      <4>3. LastOf(new, after) = LastOf(old, last)
        BY <3>1, <3>4, <4>2, TailCounts
      <4> QED BY <4>1, <4>3
    <3> QED BY <1>h, <1>l, <2>1, <2>3, <3>5
  <2>5. CASE p # q
    <3>1. queue'[p] = queue[p] /\ lastReport'[p] = lastReport[p]
      BY <1>t, <2>1, <2>2, <2>5
    <3> QED BY <1>s, <2>1, <2>3, <3>1
  <2> QED BY <2>4, <2>5
<1>6. ASSUME NEW q \in Process, Restart(q) PROVE FALSE
  BY <1>6, <1>p, RestartKind
<1>7. ASSUME Tick \/ (\E u \in User : Disable(u)) \/ UNCHANGED vars
      PROVE  LastReport(p)' = reported'[p]
  BY <1>7, <1>s, StillKind
<1> QED BY <1>1, <1>2, <1>3, <1>4, <1>5, <1>6, <1>7, StepKinds DEF Next

-----------------------------------------------------------------------------
(* The audit trail is complete *)

TrailInv == AboutOK /\ KeysOK /\ ChangesRecorded /\ LicenceReported

LEMMA TrailBegins == Init => TrailInv
<1> SUFFICES ASSUME Init PROVE TrailInv
  OBVIOUS
<1>1. \A p \in Process : queue[p] = <<>> /\ DOMAIN queue[p] = {}
  BY DEF Init
<1>2. \A c \in Call : pc[c] = "ended" /\ job[c] = NoJob
  BY DEF Init
<1>n. NoJob.op \notin Mutations /\ NoJob.op # "createKey"
  BY DEF NoJob, Mutations, PolicyWrites, KeyWrites
<1>3. AboutOK
  BY <1>1 DEF AboutOK
<1>4. KeysOK
  BY <1>2, <1>n DEF KeysOK
<1>5. ASSUME NEW x \in Change PROVE recorded[x] = 0 /\ changed[x] = 0 /\ Outstanding(x) = 0
  <2>1. \A c \in Call : job[c].op \notin Mutations
    BY <1>2, <1>n
  <2>2. {c \in Call : /\ job[c].op \in Mutations /\ ChangeOf(c) = x
                      /\ \/ pc[c] = "written"
                         \/ \E p \in Process : \E n \in DOMAIN queue[p] :
                               queue[p][n].call = c /\ queue[p][n].about = x} = {}
    BY <2>1
  <2>3. Outstanding(x) = 0
    BY <2>2, FS_EmptySet DEF Outstanding
  <2> QED BY <2>3 DEF Init
<1>6. ChangesRecorded
  BY <1>5 DEF ChangesRecorded
<1>7. ASSUME NEW p \in Process PROVE LastReport(p) = reported[p]
  <2>1. LastOf(queue[p], lastReport[p]) = lastReport[p]
    BY <1>1, NoneCounts
  <2> QED BY <2>1, LastIs DEF Init
<1> QED BY <1>3, <1>4, <1>6, <1>7 DEF TrailInv, LicenceReported

LEMMA TrailGoesOn == IInv /\ TrailInv /\ [Next]_vars => TrailInv'
BY NextHolds, AboutStep, KeysStep, ChangesStep, LicenceStep DEF TrailInv

\* The audit trail has a record of every change and of every licence state, in
\* order, and no other, unless a call failed or a process was restarted
\* (TrailComplete): whatever requests overlap, in whatever process they run.
THEOREM TrailStaysComplete == Spec => []TrailComplete
<1>1. IInv /\ TrailInv => TrailComplete
  BY DEF IInv, TrailInv, TrailComplete
<1> QED BY <1>1, InvariantHolds, TrailBegins, TrailGoesOn, PTL DEF Spec
=============================================================================
