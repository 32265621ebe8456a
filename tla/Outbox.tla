------------------------------- MODULE Outbox -------------------------------
(***************************************************************************)
(* The way of a domain event from the outbox collection to the email       *)
(* queue: dispatcher processes that claim events under a lease and publish *)
(* them to the domain queue, the worker that runs the domain handlers, and *)
(* the faults they meet.  Every database and Redis round trip is a step.   *)
(* MongoDB and BullMQ are external.  There is no clock: a lease, a backoff *)
(* or the retention of a job ends at some later moment.                    *)
(***************************************************************************)
EXTENDS Naturals, FiniteSets

CONSTANTS
  Events,             \* ids of the events, ordered as occurredAt orders them
  Dispatchers,        \* processes that run the dispatcher worker
  BatchSize,          \* BATCH_SIZE
  MaxHandlerRetries,  \* MAX_HANDLER_RETRIES
  JobAttempts,        \* attempts of a job of the domain queue
  WorkerHasMongo,     \* has the process of the domain worker a connection to
                      \* MongoDB?  domain-events.worker.ts never calls connectDB
  MaxFaults           \* bound on the crashes and errors of a behaviour

ASSUME OutboxAssumption ==
  /\ Events \subseteq Nat
  /\ BatchSize \in Nat \ {0}
  /\ MaxHandlerRetries \in Nat \ {0}
  /\ JobAttempts \in Nat \ {0}
  /\ WorkerHasMongo \in BOOLEAN
  /\ MaxFaults \in Nat

VARIABLES
  \* the outbox collection
  status,       \* status[e]; "absent" until the event is stored
  retry,        \* error.retryCount, 0 when there is no error
  expired,      \* events under a claim whose lockedUntil has passed
  due,          \* failed events whose nextAttemptAt has passed
  \* the dispatchers
  dpc,          \* where the job of each dispatcher is
  candidates,   \* documents of the find, not looked at again yet
  claimed,      \* events the job has claimed and not finished, as claimed
  \* the domain queue, its worker, and the email queue; jobId is the event id
  job,          \* the job of each event, with the step of its handler
  attempts,     \* attempts at the job that have failed
  stalled,      \* jobs that were found stalled
  found,        \* the retry count the handler has read in the outbox
  email,        \* the email job of each event
  \* faults and history
  faults,       \* crashes and errors so far
  fails,        \* fails[e]: failures of e that a mark has recorded
  overran,      \* events whose lease ended under a dispatcher at work on them
  scheduled,    \* events for which an email job was created
  repeated,     \* events for which an email job was created again
  forgotten,    \* events whose email job is no longer retained
  undelivered   \* events whose handler has recorded a failure in the outbox,
                \* or whose job was given up by BullMQ

outbox == <<status, retry, expired, due>>
jobs == <<job, attempts, stalled, found, email, scheduled, repeated, forgotten, undelivered>>
vars == <<outbox, dpc, candidates, claimed, jobs, faults, fails, overran>>

Statuses == {"absent", "pending", "processing", "sent", "failed", "dead"}

JobStates == {"none", "waiting", "active", "lookup", "mark", "returned", "completed", "failed"}

OutboxTypes ==
  /\ status \in [Events -> Statuses]
  /\ retry \in [Events -> Nat]
  /\ expired \subseteq Events
  /\ due \subseteq Events

DispatcherTypes ==
  /\ dpc \in [Dispatchers -> {"idle", "find", "claim", "dispatch", "sent", "fail"}]
  /\ candidates \in [Dispatchers -> SUBSET [id : Events, status : {"pending", "failed"}]]
  /\ claimed \in [Dispatchers -> SUBSET [id : Events, retry : Nat]]

JobTypes ==
  /\ job \in [Events -> JobStates]
  /\ attempts \in [Events -> Nat]
  /\ stalled \subseteq Events
  /\ found \in [Events -> Nat]
  /\ email \in [Events -> {"none", "waiting", "done"}]

HistoryTypes ==
  /\ faults \in Nat
  /\ fails \in [Events -> Nat]
  /\ overran \subseteq Events
  /\ scheduled \subseteq Events
  /\ repeated \subseteq Events
  /\ forgotten \subseteq Events
  /\ undelivered \subseteq Events

TypeOK == OutboxTypes /\ DispatcherTypes /\ JobTypes /\ HistoryTypes

Init ==
  /\ status = [e \in Events |-> "absent"]
  /\ retry = [e \in Events |-> 0]
  /\ expired = {} /\ due = {}
  /\ dpc = [d \in Dispatchers |-> "idle"]
  /\ candidates = [d \in Dispatchers |-> {}]
  /\ claimed = [d \in Dispatchers |-> {}]
  /\ job = [e \in Events |-> "none"]
  /\ attempts = [e \in Events |-> 0]
  /\ stalled = {}
  /\ found = [e \in Events |-> 0]
  /\ email = [e \in Events |-> "none"]
  /\ faults = 0
  /\ fails = [e \in Events |-> 0]
  /\ overran = {} /\ scheduled = {} /\ repeated = {} /\ forgotten = {} /\ undelivered = {}

-----------------------------------------------------------------------------
\* The repository.

SetStatus(e, s) == status' = [status EXCEPT ![e] = s]

\* markAsSent also drops the lock and the error.
MarkAsSent(e) ==
  /\ SetStatus(e, "sent")
  /\ retry' = [retry EXCEPT ![e] = 0]
  /\ expired' = expired \ {e}
  /\ due' = due \ {e}

\* markAsDead and markAsFailed drop the lock and set the error; whichever is
\* called, the event is dead once count has reached the limit.
MarkAsFailed(e, count) ==
  /\ SetStatus(e, IF count >= MaxHandlerRetries THEN "dead" ELSE "failed")
  /\ retry' = [retry EXCEPT ![e] = count]
  /\ expired' = expired \ {e}
  /\ due' = due \ {e}
  /\ fails' = [fails EXCEPT ![e] = @ + 1]

\* The environment has one more fault in store.
Fault == faults < MaxFaults /\ faults' = faults + 1

-----------------------------------------------------------------------------
\* Use cases that raise an event.

\* saveManyDomainEvents, in the transaction of the use case if it has one.
SaveDomainEvent(e) ==
  /\ status[e] = "absent"
  /\ SetStatus(e, "pending")
  /\ UNCHANGED <<retry, expired, due, dpc, candidates, claimed, jobs, faults, fails, overran>>

-----------------------------------------------------------------------------
\* One job of a dispatcher.

Holds(d, e) == \E c \in claimed[d] : c.id = e

\* The event a dispatcher turns to next, of those in records: the oldest.
Oldest(records) == {c \in records : \A o \in records : c.id <= o.id}

\* Mutant: a released event is charged with a retry it never had.
ReleaseCountsRetry(d) ==
  /\ dpc[d] = "idle"
  /\ status' = [e \in Events |-> IF status[e] = "processing" /\ e \in expired
                                 THEN "pending" ELSE status[e]]
  /\ retry' = [e \in Events |-> IF status[e] = "processing" /\ e \in expired
                                THEN retry[e] + 1 ELSE retry[e]]
  /\ expired' = {}
  /\ dpc' = [dpc EXCEPT ![d] = "find"]
  /\ UNCHANGED <<due, candidates, claimed, jobs, faults, fails, overran>>

ReleaseExpiredLocks(d) ==
  /\ dpc[d] = "idle"
  /\ status' = [e \in Events |-> IF status[e] = "processing" /\ e \in expired
                                 THEN "pending" ELSE status[e]]
  /\ expired' = {e \in expired : status[e] # "processing"}
  /\ dpc' = [dpc EXCEPT ![d] = "find"]
  /\ UNCHANGED <<retry, due, candidates, claimed, jobs, faults, fails, overran>>

\* Mutant: events that other dispatchers are at work on are found too.
ReadyOrClaimed(e) == status[e] \in {"pending", "processing"} \/ (status[e] = "failed" /\ e \in due)

\* Mutant: failed events are not tried again.
ReadyOnce(e) == status[e] = "pending"

Ready(e) == status[e] = "pending" \/ (status[e] = "failed" /\ e \in due)

\* The find of claimPendingBatch: the BatchSize oldest events that are
\* pending, or failed and due.
FindCandidates(d) ==
  LET ready == {e \in Events : Ready(e)}
      first == {e \in ready : Cardinality({o \in ready : o < e}) < BatchSize}
  IN
  /\ dpc[d] = "find"
  /\ candidates' = [candidates EXCEPT ![d] = {[id |-> e, status |-> status[e]] : e \in first}]
  /\ dpc' = [dpc EXCEPT ![d] = IF first = {} THEN "idle" ELSE "claim"]
  /\ UNCHANGED <<outbox, claimed, jobs, faults, fails, overran>>

\* Mutant: the claim does not ask whether the event is still as it was found.
ClaimBlindly(d) ==
  /\ dpc[d] = "claim"
  /\ \E c \in Oldest(candidates[d]) :
       LET e == c.id IN
       /\ candidates' = [candidates EXCEPT ![d] = @ \ {c}]
       /\ SetStatus(e, "processing")
       /\ claimed' = [claimed EXCEPT ![d] = @ \cup {[id |-> e, retry |-> retry[e]]}]
       /\ expired' = expired \ {e}
       /\ due' = due \ {e}
       /\ dpc' = [dpc EXCEPT ![d] = IF candidates[d] # {c} THEN "claim" ELSE "dispatch"]
  /\ UNCHANGED <<retry, jobs, faults, fails, overran>>

\* The findOneAndUpdate of claimPendingBatch, candidate by candidate: it
\* claims the event if its status is the one that was found.
Claim(d) ==
  /\ dpc[d] = "claim"
  /\ \E c \in Oldest(candidates[d]) :
       LET e == c.id
           won == status[e] = c.status
           batch == IF won THEN claimed[d] \cup {[id |-> e, retry |-> retry[e]]}
                           ELSE claimed[d]
       IN
       /\ candidates' = [candidates EXCEPT ![d] = @ \ {c}]
       /\ claimed' = [claimed EXCEPT ![d] = batch]
       /\ IF won
          THEN /\ SetStatus(e, "processing")
               /\ expired' = expired \ {e}
               /\ due' = due \ {e}
          ELSE UNCHANGED <<status, expired, due>>
       /\ dpc' = [dpc EXCEPT ![d] = IF candidates[d] # {c} THEN "claim"
                                    ELSE IF batch = {} THEN "idle" ELSE "dispatch"]
  /\ UNCHANGED <<retry, jobs, faults, fails, overran>>

\* queue.add with the event's id: BullMQ ignores it while it retains a job of
\* that id.
AddJob(e) ==
  IF job[e] = "none"
  THEN /\ job' = [job EXCEPT ![e] = "waiting"]
       /\ attempts' = [attempts EXCEPT ![e] = 0]
       /\ stalled' = stalled \ {e}
  ELSE UNCHANGED <<job, attempts, stalled>>

\* The dispatcher has finished with c, and turns to the rest of its batch.
Finish(d, c) ==
  /\ claimed' = [claimed EXCEPT ![d] = @ \ {c}]
  /\ dpc' = [dpc EXCEPT ![d] = IF claimed[d] = {c} THEN "idle" ELSE "dispatch"]

Dispatch(d) ==
  /\ dpc[d] = "dispatch"
  /\ \E c \in Oldest(claimed[d]) : AddJob(c.id)
  /\ dpc' = [dpc EXCEPT ![d] = "sent"]
  /\ UNCHANGED <<outbox, candidates, claimed, found, email, scheduled, repeated, forgotten,
                 undelivered, faults, fails, overran>>

\* Mutant: the publisher takes every error for a job id conflict.
ErrorTakenForConflict(d) ==
  /\ dpc[d] = "dispatch"
  /\ Fault
  /\ dpc' = [dpc EXCEPT ![d] = "sent"]
  /\ UNCHANGED <<outbox, candidates, claimed, jobs, fails, overran>>

\* queue.add throws: Redis did not get it, or its reply was lost.
DispatchThrows(d) ==
  /\ dpc[d] = "dispatch"
  /\ Fault
  /\ \/ \E c \in Oldest(claimed[d]) : AddJob(c.id)
     \/ UNCHANGED <<job, attempts, stalled>>
  /\ dpc' = [dpc EXCEPT ![d] = "fail"]
  /\ UNCHANGED <<outbox, candidates, claimed, found, email, scheduled, repeated, forgotten,
                 undelivered, fails, overran>>

DispatcherMarksSent(d) ==
  /\ dpc[d] = "sent"
  /\ \E c \in Oldest(claimed[d]) : MarkAsSent(c.id) /\ Finish(d, c)
  /\ UNCHANGED <<candidates, jobs, faults, fails, overran>>

\* markAsSent throws, whether or not it was carried out; it is in the same
\* try block as dispatch.
MarkingThrows(d) ==
  /\ dpc[d] = "sent"
  /\ Fault
  /\ (\E c \in Oldest(claimed[d]) : MarkAsSent(c.id)) \/ UNCHANGED outbox
  /\ dpc' = [dpc EXCEPT ![d] = "fail"]
  /\ UNCHANGED <<candidates, claimed, jobs, fails, overran>>

\* The catch block; the count goes on from the one the claim has returned.
DispatcherMarksFailed(d) ==
  /\ dpc[d] = "fail"
  /\ \E c \in Oldest(claimed[d]) : MarkAsFailed(c.id, c.retry + 1) /\ Finish(d, c)
  /\ UNCHANGED <<candidates, jobs, faults, overran>>

\* The process dies, or a query outside the try block throws: the rest of the
\* batch is forgotten and stays in processing.
JobDies(d) ==
  /\ dpc[d] # "idle"
  /\ Fault
  /\ dpc' = [dpc EXCEPT ![d] = "idle"]
  /\ candidates' = [candidates EXCEPT ![d] = {}]
  /\ claimed' = [claimed EXCEPT ![d] = {}]
  /\ UNCHANGED <<outbox, jobs, fails, overran>>

-----------------------------------------------------------------------------
\* The domain worker and the handlers that schedule emails.

TakeJob(e) ==
  /\ job[e] = "waiting"
  /\ job' = [job EXCEPT ![e] = "active"]
  /\ UNCHANGED <<outbox, dpc, candidates, claimed, attempts, stalled, found, email, scheduled,
                 repeated, forgotten, undelivered, faults, fails, overran>>

\* Mutant: the email job does not get the id of the event.
AddEmailAnew(e) ==
  /\ email' = [email EXCEPT ![e] = "waiting"]
  /\ scheduled' = scheduled \cup {e}
  /\ repeated' = repeated \cup ({e} \cap scheduled)

\* emailQueue.add with the event's id.
AddEmail(e) ==
  IF email[e] = "none"
  THEN /\ email' = [email EXCEPT ![e] = "waiting"]
       /\ scheduled' = scheduled \cup {e}
       /\ repeated' = repeated \cup ({e} \cap scheduled)
  ELSE UNCHANGED <<email, scheduled, repeated>>

ScheduleEmail(e) ==
  /\ job[e] = "active"
  /\ AddEmail(e)
  /\ job' = [job EXCEPT ![e] = "returned"]
  /\ UNCHANGED <<outbox, dpc, candidates, claimed, attempts, stalled, found, forgotten,
                 undelivered, faults, fails, overran>>

\* emailQueue.add throws, whether or not the job was added.
SchedulingThrows(e) ==
  /\ job[e] = "active"
  /\ Fault
  /\ AddEmail(e) \/ UNCHANGED <<email, scheduled, repeated>>
  /\ job' = [job EXCEPT ![e] = "lookup"]
  /\ UNCHANGED <<outbox, dpc, candidates, claimed, attempts, stalled, found, forgotten,
                 undelivered, fails, overran>>

\* getOutboxEventByID in the catch block of the handler.
LookUpEvent(e) ==
  /\ job[e] = "lookup" /\ WorkerHasMongo
  /\ found' = [found EXCEPT ![e] = retry[e]]
  /\ job' = [job EXCEPT ![e] = "mark"]
  /\ UNCHANGED <<outbox, dpc, candidates, claimed, attempts, stalled, email, scheduled,
                 repeated, forgotten, undelivered, faults, fails, overran>>

\* Mutant: the handler swallows the error without recording it.
HandlerSwallows(e) ==
  /\ job[e] = "mark"
  /\ job' = [job EXCEPT ![e] = "returned"]
  /\ UNCHANGED <<outbox, dpc, candidates, claimed, attempts, stalled, found, email, scheduled,
                 repeated, forgotten, undelivered, faults, fails, overran>>

\* The handler leaves the retry to the outbox and returns.
HandlerMarksFailed(e) ==
  /\ job[e] = "mark"
  /\ MarkAsFailed(e, found[e] + 1)
  /\ undelivered' = undelivered \cup {e}
  /\ job' = [job EXCEPT ![e] = "returned"]
  /\ UNCHANGED <<dpc, candidates, claimed, attempts, stalled, found, email, scheduled,
                 repeated, forgotten, faults, overran>>

\* A query of the catch block throws: always without a connection (it waits
\* for one and times out), by a fault with one, and then the mark may have
\* been made all the same.  BullMQ counts a failed attempt and tries again
\* while it may.
HandlerThrows(e) ==
  /\ \/ job[e] = "lookup" /\ ~WorkerHasMongo /\ UNCHANGED <<outbox, fails, faults>>
     \/ job[e] \in {"lookup", "mark"} /\ WorkerHasMongo /\ Fault /\ UNCHANGED <<outbox, fails>>
     \/ job[e] = "mark" /\ Fault /\ MarkAsFailed(e, found[e] + 1)
  /\ attempts' = [attempts EXCEPT ![e] = @ + 1]
  /\ job' = [job EXCEPT ![e] = IF attempts[e] + 1 < JobAttempts THEN "waiting" ELSE "failed"]
  /\ undelivered' = IF job'[e] = "waiting" /\ fails' = fails
                    THEN undelivered ELSE undelivered \cup {e}
  /\ UNCHANGED <<dpc, candidates, claimed, stalled, found, email, scheduled, repeated,
                 forgotten, overran>>

\* The handler has returned without an error.
JobCompletes(e) ==
  /\ job[e] = "returned"
  /\ job' = [job EXCEPT ![e] = "completed"]
  /\ UNCHANGED <<outbox, dpc, candidates, claimed, attempts, stalled, found, email, scheduled,
                 repeated, forgotten, undelivered, faults, fails, overran>>

\* The worker dies with the job: BullMQ finds it stalled, puts it back once,
\* and fails it the next time.
JobStalls(e) ==
  /\ job[e] \in {"active", "lookup", "mark", "returned"}
  /\ Fault
  /\ stalled' = stalled \cup {e}
  /\ IF e \in stalled
     THEN /\ job' = [job EXCEPT ![e] = "failed"]
          /\ undelivered' = undelivered \cup {e}
     ELSE /\ job' = [job EXCEPT ![e] = "waiting"]
          /\ UNCHANGED undelivered
  /\ UNCHANGED <<outbox, dpc, candidates, claimed, attempts, found, email, scheduled,
                 repeated, forgotten, fails, overran>>

-----------------------------------------------------------------------------
\* Time passes.

LeaseEnds(e) ==
  /\ status[e] = "processing" /\ e \notin expired
  /\ expired' = expired \cup {e}
  /\ overran' = IF \E d \in Dispatchers : Holds(d, e)
                THEN overran \cup {e} ELSE overran
  /\ UNCHANGED <<status, retry, due, dpc, candidates, claimed, jobs, faults, fails>>

BackoffEnds(e) ==
  /\ status[e] = "failed" /\ e \notin due
  /\ due' = due \cup {e}
  /\ UNCHANGED <<status, retry, expired, dpc, candidates, claimed, jobs, faults, fails, overran>>

\* removeOnComplete and removeOnFail.
JobIsRemoved(e) ==
  /\ job[e] \in {"completed", "failed"}
  /\ job' = [job EXCEPT ![e] = "none"]
  /\ UNCHANGED <<outbox, dpc, candidates, claimed, attempts, stalled, found, email, scheduled,
                 repeated, forgotten, undelivered, faults, fails, overran>>

\* The email worker has done with the job.
EmailJobEnds(e) ==
  /\ email[e] = "waiting"
  /\ email' = [email EXCEPT ![e] = "done"]
  /\ UNCHANGED <<outbox, dpc, candidates, claimed, job, attempts, stalled, found, scheduled,
                 repeated, forgotten, undelivered, faults, fails, overran>>

EmailJobIsRemoved(e) ==
  /\ email[e] = "done"
  /\ email' = [email EXCEPT ![e] = "none"]
  /\ forgotten' = forgotten \cup {e}
  /\ UNCHANGED <<outbox, dpc, candidates, claimed, job, attempts, stalled, found, scheduled,
                 repeated, undelivered, faults, fails, overran>>

-----------------------------------------------------------------------------

DispatcherStep(d) ==
  \/ ReleaseExpiredLocks(d) \/ FindCandidates(d) \/ Claim(d)
  \/ Dispatch(d) \/ DispatchThrows(d)
  \/ DispatcherMarksSent(d) \/ MarkingThrows(d) \/ DispatcherMarksFailed(d)

HandlerStep(e) ==
  \/ TakeJob(e) \/ ScheduleEmail(e) \/ SchedulingThrows(e)
  \/ LookUpEvent(e) \/ HandlerMarksFailed(e) \/ HandlerThrows(e) \/ JobCompletes(e)

Next ==
  \/ \E d \in Dispatchers : DispatcherStep(d) \/ JobDies(d)
  \/ \E e \in Events :
       \/ SaveDomainEvent(e)
       \/ HandlerStep(e) \/ JobStalls(e)
       \/ LeaseEnds(e) \/ BackoffEnds(e)
       \/ JobIsRemoved(e) \/ EmailJobEnds(e) \/ EmailJobIsRemoved(e)

Spec == Init /\ [][Next]_vars

\* The scheduler starts a job every five seconds and the workers keep taking
\* them; leases and backoffs end.  Nothing else has to happen.
Fairness ==
  /\ \A d \in Dispatchers : WF_vars(DispatcherStep(d))
  /\ \A e \in Events :
       WF_vars(HandlerStep(e)) /\ WF_vars(LeaseEnds(e)) /\ WF_vars(BackoffEnds(e))

FairSpec == Spec /\ Fairness

-----------------------------------------------------------------------------
\* Properties.

\* An event that is marked sent has not fallen between two stools: its job is
\* still at work, or its email was scheduled, or its failure has left a trace,
\* a mark in the outbox or a job that BullMQ has failed (dispatcher.worker.ts
\* publishes before it marks, publish swallows only job id conflicts, a job
\* that is retained has been handled, and a handler that meets an error marks
\* the event or throws).
SentIsCovered ==
  \A e \in Events :
    status[e] = "sent" =>
      \/ job[e] \in {"waiting", "active", "lookup", "mark", "returned"}
      \/ e \in scheduled \cup undelivered

\* An event is given up only after MAX_HANDLER_RETRIES failures of it, however
\* claims, crashes, released locks, stale counts and the two writers of
\* retryCount (dispatcher.worker.ts and the domain handlers) interleave.
NotDeadTooSoon ==
  \A e \in Events : status[e] = "dead" => fails[e] >= MaxHandlerRetries

\* While no lease has ended under the dispatcher that holds it, an event is in
\* the hands of one dispatcher (claimPendingBatch), given that the handlers
\* cannot write to the outbox.
OneDispatcherAtATime ==
  ~WorkerHasMongo =>
    \A e \in Events \ overran : \A d1, d2 \in Dispatchers :
      Holds(d1, e) /\ Holds(d2, e) => d1 = d2

\* An event's email job is created again only when BullMQ has forgotten the
\* first one, however often the event is dispatched and its job retried
\* (the handlers: "idempotency : same event id => same job id").
EmailScheduledOnce == repeated \subseteq forgotten

\* Every event that is stored is dispatched or given up in the end: no crash,
\* error or expired lease leaves it behind in pending, processing or failed.
EveryEventSettles ==
  \A e \in Events : status[e] = "pending" ~> status[e] \in {"sent", "dead"}

=============================================================================
