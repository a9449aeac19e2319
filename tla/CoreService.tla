---------------------------- MODULE CoreService ----------------------------
(***************************************************************************)
(* The detection service's event loop (core/src/hushmark_core/api): each    *)
(* request is checked, its body is read in chunks, it waits for a slot of   *)
(* the inference semaphore at most queue_timeout_ms, is handled and gives   *)
(* the slot back.                                                           *)
(*                                                                         *)
(* One thread runs them all, so every action is the code between two        *)
(* awaits.  The semaphore is asyncio's (Python 3.12, pyproject.toml:4): a   *)
(* release hands the slot to the first waiter, whose task runs later, and a *)
(* timer may cancel that task before it does.                              *)
(***************************************************************************)
EXTENDS Integers, Sequences, FiniteSets, SequencesExt

CONSTANTS Requests,
          MaxConcurrency,   \* HUSHMARK_CORE_MAX_CONCURRENCY
          BodyLimit,        \* body_limit_bytes
          Chunks,           \* sizes of the chunks a body comes in
          Heads(_)          \* a request's lines: [v1, authorized, declared]

ASSUME ServiceAssumption ==
    /\ IsFiniteSet(Requests)
    /\ MaxConcurrency \in Nat \ {0}
    /\ BodyLimit \in Nat \ {0}
    /\ Chunks \subseteq Nat \ {0}
    /\ \A r \in Requests : \A h \in Heads(r) :
                        /\ h.v1 \in BOOLEAN /\ h.authorized \in BOOLEAN
                        /\ h.declared \in Int

\* content-length: -1 without one, and above the limit when it is no number.
NoLength == -1

VARIABLES
    value,      \* free slots of the semaphore
    waiters,    \* its queue of futures, by request
    future,     \* "none", "pending", "woken", "cancelled", "late"
    acquired,   \* requests whose semaphore_acquired is true
    at,         \* where the request's task is
    head,       \* what came before the body
    size,       \* bytes of the body read
    answer      \* status of the response, 0 before there is one

semaphore == <<value, waiters, future, acquired>>
tasks == <<at, head, size, answer>>
serviceVars == <<semaphore, tasks>>

Gone == 499     \* the client went away and gets nothing

Pending == {r \in ToSet(waiters) : future[r] = "pending"}

\* Semaphore.locked of asyncio: free slots are not taken past a waiter.
Locked == value = 0 \/ \E r \in ToSet(waiters) : future[r] # "cancelled"

\* The first n requests whose future can still be resolved.
Place(r) == CHOOSE i \in DOMAIN waiters : waiters[i] = r
FirstPending(n) ==
    {r \in Pending : Cardinality({q \in Pending : Place(q) < Place(r)}) < n}

-----------------------------------------------------------------------------
Respond(r, status) ==
    /\ at' = [at EXCEPT ![r] = "done"]
    /\ answer' = [answer EXCEPT ![r] = status]

Refusal(h) ==
    IF ~h.v1 THEN 0
    ELSE IF ~h.authorized THEN 401
    ELSE IF h.declared > BodyLimit THEN 413 ELSE 0

\* The middleware up to the body.  A path outside /v1/ goes straight on.
Arrive(r) ==
    /\ at[r] = "new"
    /\ \E h \in Heads(r) :
          /\ head' = [head EXCEPT ![r] = h]
          /\ IF Refusal(h) # 0 THEN Respond(r, Refusal(h))
             ELSE /\ at' = [at EXCEPT ![r] = IF h.v1 THEN "reading" ELSE "calling"]
                  /\ UNCHANGED answer
    /\ UNCHANGED <<semaphore, size>>

\* Each chunk is measured by itself (mutant).
ReadChunkAlone(r) ==
    /\ at[r] = "reading"
    /\ \E n \in Chunks :
          IF n > BodyLimit
          THEN Respond(r, 413) /\ UNCHANGED size
          ELSE size' = [size EXCEPT ![r] = @ + n] /\ UNCHANGED <<at, answer>>
    /\ UNCHANGED <<semaphore, head>>

\* A chunk is kept when the body still fits, whatever content-length said.
ReadChunk(r) ==
    /\ at[r] = "reading"
    /\ \E n \in Chunks :
          IF size[r] + n > BodyLimit
          THEN Respond(r, 413) /\ UNCHANGED size
          ELSE size' = [size EXCEPT ![r] = @ + n] /\ UNCHANGED <<at, answer>>
    /\ UNCHANGED <<semaphore, head>>

\* The client goes away while its body is read: the stream raises.
Disconnect(r) ==
    /\ at[r] = "reading"
    /\ Respond(r, Gone)
    /\ UNCHANGED <<semaphore, head, size>>

\* The body is complete; a free slot is taken at once, else the task waits.
ReadEnd(r) ==
    /\ at[r] = "reading"
    /\ IF Locked
       THEN /\ waiters' = Append(waiters, r)
            /\ future' = [future EXCEPT ![r] = "pending"]
            /\ at' = [at EXCEPT ![r] = "queued"]
            /\ UNCHANGED <<value, acquired>>
       ELSE /\ value' = value - 1
            /\ acquired' = acquired \cup {r}
            /\ at' = [at EXCEPT ![r] = "calling"]
            /\ UNCHANGED <<waiters, future>>
    /\ UNCHANGED <<head, size, answer>>

\* queue_timeout_ms runs out: wait_for cancels the task, which has not run
\* again yet.  A future that is already resolved stays so.
TimerFires(r) ==
    /\ future[r] \in {"pending", "woken"}
    /\ future' = [future EXCEPT ![r] = IF @ = "pending" THEN "cancelled" ELSE "late"]
    /\ UNCHANGED <<value, waiters, acquired, tasks>>

\* acquire's last loop: r left the queue and the free slots go to those that
\* wait, as far as they reach.
PassOn(r, free) ==
    LET next == FirstPending(free) IN
    /\ future' = [q \in Requests |-> IF q = r THEN "none"
                                    ELSE IF q \in next THEN "woken" ELSE future[q]]
    /\ value' = free - Cardinality(next)

\* The slot of a request that came too late is kept back (mutant).
ResumeQuietly(r) ==
    /\ future[r] \in {"woken", "cancelled", "late"}
    /\ waiters' = RemoveAt(waiters, Place(r))
    /\ IF future[r] = "late"
       THEN value' = value + 1 /\ future' = [future EXCEPT ![r] = "none"]
       ELSE PassOn(r, value)
    /\ IF future[r] = "woken"
       THEN /\ acquired' = acquired \cup {r}
            /\ at' = [at EXCEPT ![r] = "calling"]
            /\ UNCHANGED answer
       ELSE Respond(r, 429) /\ UNCHANGED acquired
    /\ UNCHANGED <<head, size>>

\* The waiting task runs again.  With the slot it was given it goes on; one
\* that the timer cancelled answers 429, and gives back a slot it was given.
Resume(r) ==
    /\ future[r] \in {"woken", "cancelled", "late"}
    /\ waiters' = RemoveAt(waiters, Place(r))
    /\ PassOn(r, IF future[r] = "late" THEN value + 1 ELSE value)
    /\ IF future[r] = "woken"
       THEN /\ acquired' = acquired \cup {r}
            /\ at' = [at EXCEPT ![r] = "calling"]
            /\ UNCHANGED answer
       ELSE Respond(r, 429) /\ UNCHANGED acquired
    /\ UNCHANGED <<head, size>>

\* The handler does not await: until it returns nobody else runs.
Handle(r, status) ==
    /\ at[r] = "calling"
    /\ at' = [at EXCEPT ![r] = "handled"]
    /\ answer' = [answer EXCEPT ![r] = status]
    /\ UNCHANGED <<semaphore, head, size>>

\* release: one slot goes to the first that waits, or is free.
Release ==
    LET next == FirstPending(1) IN
    /\ future' = [q \in Requests |-> IF q \in next THEN "woken" ELSE future[q]]
    /\ value' = value + 1 - Cardinality(next)

\* The finally of the middleware: a slot that was taken is released, to the
\* first that waits or to nobody.
Finish(r) ==
    /\ at[r] = "handled"
    /\ at' = [at EXCEPT ![r] = "done"]
    /\ acquired' = acquired \ {r}
    /\ IF r \in acquired
       THEN Release
       ELSE UNCHANGED <<value, future>>
    /\ UNCHANGED <<waiters, head, size, answer>>

\* lifespan: the semaphore is made and the engine loaded before any request.
ServiceInit ==
    /\ value = MaxConcurrency /\ waiters = <<>> /\ acquired = {}
    /\ future = [r \in Requests |-> "none"]
    /\ at = [r \in Requests |-> "new"]
    /\ head = [r \in Requests |-> [v1 |-> FALSE, authorized |-> FALSE, declared |-> NoLength]]
    /\ size = [r \in Requests |-> 0]
    /\ answer = [r \in Requests |-> 0]

\* Everything but the handler.
LoopStep(r) ==
    \/ Arrive(r) \/ ReadChunk(r) \/ Disconnect(r) \/ ReadEnd(r)
    \/ TimerFires(r) \/ Resume(r) \/ Finish(r)

-----------------------------------------------------------------------------
Handed == {r \in Requests : future[r] \in {"woken", "late"}}

\* No slot is lost and none is made: each is free, taken, or on its way to a
\* request, whatever the timer does to that one (the finally of the
\* middleware, lines 138 to 140).
SlotsConserved ==
    value + Cardinality(acquired) + Cardinality(Handed) = MaxConcurrency

\* A slot is free while a request waits for one only if some task that was
\* given a slot has yet to run: it hands the free ones on when it leaves the
\* queue (asyncio's acquire; the middleware relies on it, lines 122 to 125).
NoIdleSlot == value > 0 /\ Pending # {} => Handed # {}

\* Whoever is handled behind /v1/ showed the credential and sent no more than
\* the limit, in however many chunks and under whatever content-length.
OnlyAdmitted ==
    \A r \in Requests : r \in acquired =>
        /\ head[r].v1 /\ head[r].authorized
        /\ size[r] <= BodyLimit /\ head[r].declared <= BodyLimit

\* A request that waits in the queue is answered, even if no timer ever runs
\* out: the loop is scheduled fairly and every handler returns.
QueuedAnswered == \A r \in Requests : at[r] = "queued" ~> at[r] = "done"
=============================================================================
