---------------------------- MODULE OutboxProofs ----------------------------
(***************************************************************************)
(* Proofs about Outbox, for any number of events, dispatchers and faults.  *)
(* Five invariants, each inductive given the ones before it: the types;    *)
(* that what is marked sent is covered; that retry counts never run ahead  *)
(* of failures; that a claim whose lease lasts is exclusive; and that an   *)
(* email job that was made is there until it is forgotten.                 *)
(***************************************************************************)
EXTENDS Outbox, TLAPS

\* The event's job is in the queue, or has left its mark.
Covered(e) ==
  \/ job[e] \in {"waiting", "active", "lookup", "mark", "returned"}
  \/ e \in scheduled \cup undelivered

CoverInv ==
  /\ \A e \in Events :
       /\ job[e] # "none" => Covered(e)
       /\ job[e] = "returned" => e \in scheduled \cup undelivered
       /\ email[e] # "none" => e \in scheduled
       /\ status[e] = "sent" => Covered(e)
  /\ \A d \in Dispatchers :
       dpc[d] = "sent" => \A c \in Oldest(claimed[d]) : Covered(c.id)

RetryInv ==
  /\ \A e \in Events :
       /\ retry[e] <= fails[e]
       /\ found[e] <= fails[e]
       /\ status[e] = "dead" => fails[e] >= MaxHandlerRetries
  /\ \A d \in Dispatchers : \A c \in claimed[d] : c.retry <= fails[c.id]

\* What a job works on: each event once, and nothing when it is between jobs.
BatchInv ==
  \A d \in Dispatchers :
    /\ dpc[d] \in {"idle", "find"} => claimed[d] = {} /\ candidates[d] = {}
    /\ dpc[d] # "claim" => candidates[d] = {}
    /\ \A c1, c2 \in candidates[d] : c1.id = c2.id => c1 = c2
    /\ \A c1, c2 \in claimed[d] : c1.id = c2.id => c1 = c2
    /\ \A c1 \in candidates[d], c2 \in claimed[d] : c1.id # c2.id

\* Without a connection the handlers do not get to mark anything, so an event
\* that is held, and was not overrun, is still as its holder has left it.
HoldInv ==
  ~WorkerHasMongo =>
    \A e \in Events :
      /\ job[e] # "mark"
      /\ e \notin overran =>
           /\ \A d \in Dispatchers :
                Holds(d, e) => status[e] \in {"processing", "sent"} /\ e \notin expired
           /\ \A d1, d2 \in Dispatchers : Holds(d1, e) /\ Holds(d2, e) => d1 = d2

\* An email job that was made is retained until it is forgotten, which is what
\* adding it again relies on.
OnceInv ==
  /\ \A e \in scheduled : email[e] = "none" => e \in forgotten
  /\ repeated \subseteq forgotten

IInv == TypeOK /\ CoverInv /\ RetryInv /\ BatchInv /\ HoldInv /\ OnceInv

LEMMA InitHolds == Init => IInv
BY OutboxAssumption
   DEF Init, IInv, TypeOK, OutboxTypes, DispatcherTypes, JobTypes, HistoryTypes,
       Statuses, JobStates, CoverInv, Covered, Oldest, RetryInv, BatchInv,
       HoldInv, Holds, OnceInv

-----------------------------------------------------------------------------
\* Types.

\* What a dispatcher picks from its batch is one of the batch.
LEMMA OldestIsHeld ==
  ASSUME DispatcherTypes, NEW d \in Dispatchers, NEW c \in Oldest(claimed[d])
  PROVE  /\ c \in claimed[d] /\ c.id \in Events /\ c.retry \in Nat
         /\ Holds(d, c.id)
BY DEF DispatcherTypes, Oldest, Holds

LEMMA OldestIsFound ==
  ASSUME DispatcherTypes, NEW d \in Dispatchers, NEW c \in Oldest(candidates[d])
  PROVE  /\ c \in candidates[d] /\ c.id \in Events
         /\ c.status \in {"pending", "failed"}
BY DEF DispatcherTypes, Oldest

LEMMA TypeKept == TypeOK /\ [Next]_vars => TypeOK'
<1> USE DEF Statuses, JobStates, outbox, jobs
<1> SUFFICES ASSUME OutboxTypes, DispatcherTypes, JobTypes, HistoryTypes, [Next]_vars
             PROVE  TypeOK'
  BY DEF TypeOK
<1>1. ASSUME NEW d \in Dispatchers, ReleaseExpiredLocks(d) PROVE TypeOK'
  BY <1>1 DEF ReleaseExpiredLocks, TypeOK, OutboxTypes, DispatcherTypes, JobTypes, HistoryTypes
<1>2. ASSUME NEW d \in Dispatchers, FindCandidates(d) PROVE TypeOK'
  <2>1. OutboxTypes' /\ JobTypes' /\ HistoryTypes'
    BY <1>2 DEF FindCandidates, OutboxTypes, JobTypes, HistoryTypes
  <2>2. DispatcherTypes'
    <3> DEFINE ready == {e \in Events : Ready(e)}
               first == {e \in ready : Cardinality({o \in ready : o < e}) < BatchSize}
               docs == {[id |-> e, status |-> status[e]] : e \in first}
    <3>1. \A e \in first : e \in Events /\ status[e] \in {"pending", "failed"}
      BY DEF Ready
    <3>2. docs \in SUBSET [id : Events, status : {"pending", "failed"}]
      <4> HIDE DEF first
      <4> QED BY <3>1
    <3>3. candidates' = [candidates EXCEPT ![d] = docs]
      BY <1>2 DEF FindCandidates
    <3>4. claimed' = claimed
          /\ (dpc' = [dpc EXCEPT ![d] = "idle"] \/ dpc' = [dpc EXCEPT ![d] = "claim"])
      BY <1>2 DEF FindCandidates
    <3> HIDE DEF docs
    <3> QED BY <3>2, <3>3, <3>4 DEF DispatcherTypes
  <2> QED BY <2>1, <2>2 DEF TypeOK
<1>3. ASSUME NEW d \in Dispatchers, Claim(d) PROVE TypeOK'
  <2>1. JobTypes' /\ HistoryTypes'
    BY <1>3 DEF Claim, JobTypes, HistoryTypes
  <2>2. OutboxTypes'
    BY <1>3 DEF Claim, OutboxTypes, SetStatus, DispatcherTypes, Oldest
  <2>3. DispatcherTypes'
    <3>1. PICK c \in Oldest(candidates[d]) :
            /\ candidates' = [candidates EXCEPT ![d] = @ \ {c}]
            /\ \/ claimed' = [claimed EXCEPT ![d] = @ \cup {[id |-> c.id, retry |-> retry[c.id]]}]
               \/ claimed' = [claimed EXCEPT ![d] = @]
            /\ dpc' = [dpc EXCEPT ![d] = dpc'[d]] /\ dpc'[d] \in {"claim", "idle", "dispatch"}
      BY <1>3 DEF Claim, DispatcherTypes
    <3>2. [id |-> c.id, retry |-> retry[c.id]] \in [id : Events, retry : Nat]
      BY OldestIsFound DEF OutboxTypes
    <3> QED BY <3>1, <3>2 DEF DispatcherTypes
  <2> QED BY <2>1, <2>2, <2>3 DEF TypeOK
<1>4. ASSUME NEW d \in Dispatchers, Dispatch(d) PROVE TypeOK'
  <2>1. OutboxTypes' /\ DispatcherTypes' /\ HistoryTypes'
    BY <1>4 DEF Dispatch, OutboxTypes, DispatcherTypes, HistoryTypes
  <2>2. JobTypes'
    BY <1>4, OldestIsHeld DEF Dispatch, JobTypes, AddJob
  <2> QED BY <2>1, <2>2 DEF TypeOK
<1>5. ASSUME NEW d \in Dispatchers, DispatchThrows(d) PROVE TypeOK'
  <2>1. OutboxTypes' /\ DispatcherTypes'
    BY <1>5 DEF DispatchThrows, OutboxTypes, DispatcherTypes
  <2>2. JobTypes'
    BY <1>5, OldestIsHeld DEF DispatchThrows, JobTypes, AddJob
  <2>3. HistoryTypes'
    BY <1>5 DEF DispatchThrows, HistoryTypes, Fault
  <2> QED BY <2>1, <2>2, <2>3 DEF TypeOK
<1>6. ASSUME NEW d \in Dispatchers, DispatcherMarksSent(d) PROVE TypeOK'
  <2>1. JobTypes' /\ HistoryTypes'
    BY <1>6 DEF DispatcherMarksSent, JobTypes, HistoryTypes
  <2>2. OutboxTypes'
    BY <1>6, OldestIsHeld DEF DispatcherMarksSent, OutboxTypes, MarkAsSent, SetStatus
  <2>3. DispatcherTypes'
    BY <1>6, OldestIsHeld DEF DispatcherMarksSent, DispatcherTypes, Finish
  <2> QED BY <2>1, <2>2, <2>3 DEF TypeOK
<1>7. ASSUME NEW d \in Dispatchers, MarkingThrows(d) PROVE TypeOK'
  <2>1. DispatcherTypes' /\ JobTypes'
    BY <1>7 DEF MarkingThrows, DispatcherTypes, JobTypes
  <2>2. OutboxTypes'
    BY <1>7, OldestIsHeld DEF MarkingThrows, OutboxTypes, MarkAsSent, SetStatus
  <2>3. HistoryTypes'
    BY <1>7 DEF MarkingThrows, HistoryTypes, Fault
  <2> QED BY <2>1, <2>2, <2>3 DEF TypeOK
<1>8. ASSUME NEW d \in Dispatchers, DispatcherMarksFailed(d) PROVE TypeOK'
  <2>1. JobTypes'
    BY <1>8 DEF DispatcherMarksFailed, JobTypes
  <2>2. OutboxTypes'
    BY <1>8, OldestIsHeld DEF DispatcherMarksFailed, OutboxTypes, MarkAsFailed, SetStatus
  <2>3. DispatcherTypes'
    BY <1>8, OldestIsHeld DEF DispatcherMarksFailed, DispatcherTypes, Finish
  <2>4. HistoryTypes'
    BY <1>8, OldestIsHeld DEF DispatcherMarksFailed, HistoryTypes, MarkAsFailed
  <2> QED BY <2>1, <2>2, <2>3, <2>4 DEF TypeOK
<1>9. ASSUME NEW d \in Dispatchers, JobDies(d) PROVE TypeOK'
  <2>1. OutboxTypes' /\ DispatcherTypes' /\ JobTypes'
    BY <1>9 DEF JobDies, OutboxTypes, DispatcherTypes, JobTypes
  <2>2. HistoryTypes'
    BY <1>9 DEF JobDies, HistoryTypes, Fault
  <2> QED BY <2>1, <2>2 DEF TypeOK
<1>10. ASSUME NEW e \in Events, SaveDomainEvent(e) PROVE TypeOK'
  <2>1. DispatcherTypes' /\ JobTypes' /\ HistoryTypes'
    BY <1>10 DEF SaveDomainEvent, DispatcherTypes, JobTypes, HistoryTypes
  <2>2. OutboxTypes'
    BY <1>10 DEF SaveDomainEvent, OutboxTypes, SetStatus
  <2> QED BY <2>1, <2>2 DEF TypeOK
<1>11. ASSUME NEW e \in Events, TakeJob(e) PROVE TypeOK'
  BY <1>11 DEF TakeJob, TypeOK, OutboxTypes, DispatcherTypes, JobTypes, HistoryTypes
<1>12. ASSUME NEW e \in Events, ScheduleEmail(e) PROVE TypeOK'
  <2>1. OutboxTypes' /\ DispatcherTypes'
    BY <1>12 DEF ScheduleEmail, OutboxTypes, DispatcherTypes
  <2>2. JobTypes'
    BY <1>12 DEF ScheduleEmail, JobTypes, AddEmail
  <2>3. HistoryTypes'
    BY <1>12 DEF ScheduleEmail, HistoryTypes, AddEmail
  <2> QED BY <2>1, <2>2, <2>3 DEF TypeOK
<1>13. ASSUME NEW e \in Events, SchedulingThrows(e) PROVE TypeOK'
  <2>1. OutboxTypes' /\ DispatcherTypes'
    BY <1>13 DEF SchedulingThrows, OutboxTypes, DispatcherTypes
  <2>2. JobTypes'
    BY <1>13 DEF SchedulingThrows, JobTypes, AddEmail
  <2>3. HistoryTypes'
    <3>1. /\ scheduled' = scheduled \cup {e} \/ scheduled' = scheduled
          /\ repeated' = repeated \cup ({e} \cap scheduled) \/ repeated' = repeated
          /\ faults' = faults + 1 /\ UNCHANGED <<fails, overran, forgotten, undelivered>>
      BY <1>13 DEF SchedulingThrows, AddEmail, Fault
    <3> QED BY <3>1 DEF HistoryTypes
  <2> QED BY <2>1, <2>2, <2>3 DEF TypeOK
<1>14. ASSUME NEW e \in Events, LookUpEvent(e) PROVE TypeOK'
  <2>1. OutboxTypes' /\ DispatcherTypes' /\ HistoryTypes'
    BY <1>14 DEF LookUpEvent, OutboxTypes, DispatcherTypes, HistoryTypes
  <2>2. JobTypes'
    BY <1>14 DEF LookUpEvent, JobTypes, OutboxTypes
  <2> QED BY <2>1, <2>2 DEF TypeOK
<1>15. ASSUME NEW e \in Events, HandlerMarksFailed(e) PROVE TypeOK'
  <2>1. DispatcherTypes' /\ JobTypes'
    BY <1>15 DEF HandlerMarksFailed, DispatcherTypes, JobTypes
  <2>2. OutboxTypes'
    BY <1>15 DEF HandlerMarksFailed, OutboxTypes, MarkAsFailed, SetStatus, JobTypes
  <2>3. HistoryTypes'
    BY <1>15 DEF HandlerMarksFailed, HistoryTypes, MarkAsFailed
  <2> QED BY <2>1, <2>2, <2>3 DEF TypeOK
<1>16. ASSUME NEW e \in Events, HandlerThrows(e) PROVE TypeOK'
  <2>1. DispatcherTypes' /\ JobTypes'
    BY <1>16 DEF HandlerThrows, DispatcherTypes, JobTypes
  <2>2. OutboxTypes'
    BY <1>16 DEF HandlerThrows, OutboxTypes, MarkAsFailed, SetStatus, JobTypes
  <2>3. HistoryTypes'
    <3>1. /\ undelivered' = undelivered \cup {e} \/ undelivered' = undelivered
          /\ faults' = faults + 1 \/ faults' = faults
          /\ fails' = [fails EXCEPT ![e] = @ + 1] \/ fails' = fails
          /\ UNCHANGED <<overran, scheduled, repeated, forgotten>>
      BY <1>16 DEF HandlerThrows, MarkAsFailed, Fault
    <3> QED BY <3>1 DEF HistoryTypes
  <2> QED BY <2>1, <2>2, <2>3 DEF TypeOK
<1>17. ASSUME NEW e \in Events, JobStalls(e) PROVE TypeOK'
  <2>1. OutboxTypes' /\ DispatcherTypes' /\ JobTypes'
    BY <1>17 DEF JobStalls, OutboxTypes, DispatcherTypes, JobTypes
  <2>2. HistoryTypes'
    <3>1. /\ undelivered' = undelivered \cup {e} \/ undelivered' = undelivered
          /\ faults' = faults + 1
          /\ UNCHANGED <<fails, overran, scheduled, repeated, forgotten>>
      BY <1>17 DEF JobStalls, Fault
    <3> QED BY <3>1 DEF HistoryTypes
  <2> QED BY <2>1, <2>2 DEF TypeOK
<1>18. ASSUME NEW e \in Events, LeaseEnds(e) PROVE TypeOK'
  BY <1>18 DEF LeaseEnds, TypeOK, OutboxTypes, DispatcherTypes, JobTypes, HistoryTypes
<1>19. ASSUME NEW e \in Events, BackoffEnds(e) PROVE TypeOK'
  BY <1>19 DEF BackoffEnds, TypeOK, OutboxTypes, DispatcherTypes, JobTypes, HistoryTypes
<1>20. ASSUME NEW e \in Events, JobIsRemoved(e) PROVE TypeOK'
  BY <1>20 DEF JobIsRemoved, TypeOK, OutboxTypes, DispatcherTypes, JobTypes, HistoryTypes
<1>21. ASSUME NEW e \in Events, EmailJobEnds(e) PROVE TypeOK'
  BY <1>21 DEF EmailJobEnds, TypeOK, OutboxTypes, DispatcherTypes, JobTypes, HistoryTypes
<1>22. ASSUME NEW e \in Events, EmailJobIsRemoved(e) PROVE TypeOK'
  BY <1>22 DEF EmailJobIsRemoved, TypeOK, OutboxTypes, DispatcherTypes, JobTypes, HistoryTypes
<1>23. ASSUME NEW e \in Events, JobCompletes(e) PROVE TypeOK'
  BY <1>23 DEF JobCompletes, TypeOK, OutboxTypes, DispatcherTypes, JobTypes, HistoryTypes
<1>24. CASE UNCHANGED vars
  BY <1>24 DEF vars, TypeOK, OutboxTypes, DispatcherTypes, JobTypes, HistoryTypes
<1> QED BY <1>1, <1>2, <1>3, <1>4, <1>5, <1>6, <1>7, <1>8, <1>9, <1>10, <1>11,
           <1>12, <1>13, <1>14, <1>15, <1>16, <1>17, <1>18, <1>19, <1>20, <1>21, <1>22, <1>23, <1>24
        DEF Next, DispatcherStep, HandlerStep

-----------------------------------------------------------------------------
\* What is marked sent is covered.

LEMMA OldestIsOne ==
  ASSUME TypeOK, NEW d \in Dispatchers,
         NEW c1 \in Oldest(claimed[d]), NEW c2 \in Oldest(claimed[d])
  PROVE  c1.id = c2.id
<1>1. c1.id \in Nat /\ c2.id \in Nat
  BY OutboxAssumption, OldestIsHeld DEF TypeOK
<1> QED BY <1>1 DEF Oldest

\* A step keeps what is covered covered; only a dispatch gets a dispatcher to
\* the point where it marks, and only the marking makes an event sent.
LEMMA CoverKept == TypeOK /\ CoverInv /\ [Next]_vars => CoverInv'
<1> USE DEF jobs, outbox, SetStatus
<1> SUFFICES ASSUME TypeOK, CoverInv, [Next]_vars PROVE CoverInv'
  OBVIOUS
<1>t. OutboxTypes /\ DispatcherTypes /\ JobTypes /\ HistoryTypes
  BY DEF TypeOK
<1>1. ASSUME NEW d \in Dispatchers,
             \/ ReleaseExpiredLocks(d) \/ FindCandidates(d) \/ Claim(d)
             \/ DispatcherMarksFailed(d) \/ JobDies(d)
      PROVE  CoverInv'
  <2>1. /\ UNCHANGED jobs
        /\ \A x \in Dispatchers : dpc'[x] = "sent" => dpc[x] = "sent" /\ claimed'[x] = claimed[x]
    BY <1>1, <1>t DEF ReleaseExpiredLocks, FindCandidates, Claim, DispatcherMarksFailed, Finish,
                      JobDies, DispatcherTypes
  <2>2. \A e \in Events : status'[e] = "sent" => status[e] = "sent"
    BY <1>1, <1>t, OldestIsHeld, OldestIsFound
       DEF ReleaseExpiredLocks, FindCandidates, Claim, DispatcherMarksFailed, MarkAsFailed,
           JobDies, OutboxTypes
  <2> QED BY <2>1, <2>2 DEF CoverInv, Covered, Oldest
<1>2. ASSUME NEW d \in Dispatchers, Dispatch(d) PROVE CoverInv'
  <2>1. PICK c \in Oldest(claimed[d]) : AddJob(c.id)
    BY <1>2 DEF Dispatch
  <2>2. c.id \in Events
    BY <1>t, OldestIsHeld
  <2>3. /\ UNCHANGED <<status, email, scheduled, undelivered, claimed>>
        /\ dpc' = [dpc EXCEPT ![d] = "sent"]
    BY <1>2 DEF Dispatch
  <2>4. job' = job \/ (job[c.id] = "none" /\ job' = [job EXCEPT ![c.id] = "waiting"])
    BY <2>1 DEF AddJob
  <2>5. \A e \in Events :
          /\ Covered(e) => Covered(e)'
          /\ job'[e] # "none" => Covered(e)'
          /\ job'[e] = "returned" => e \in (scheduled \cup undelivered)'
    BY <1>t, <2>2, <2>3, <2>4 DEF CoverInv, Covered, JobTypes
  <2>6. job'[c.id] # "none"
    BY <1>t, <2>1, <2>2 DEF AddJob, JobTypes
  <2>7. \A k \in Oldest(claimed[d]) : Covered(k.id)'
    BY <2>1, <2>2, <2>5, <2>6, OldestIsOne
  <2>8. \A x \in Dispatchers :
          dpc'[x] = "sent" => \A k \in Oldest(claimed[x]) : Covered(k.id)'
    BY <1>t, <2>3, <2>5, <2>7, OldestIsHeld DEF CoverInv, DispatcherTypes
  <2> QED BY <2>3, <2>5, <2>8 DEF CoverInv, Oldest
<1>3. ASSUME NEW d \in Dispatchers, DispatchThrows(d) PROVE CoverInv'
  <2>1. \/ job' = job
        \/ \E c \in Oldest(claimed[d]) :
             job[c.id] = "none" /\ job' = [job EXCEPT ![c.id] = "waiting"]
    BY <1>3 DEF DispatchThrows, AddJob
  <2>2. /\ UNCHANGED <<status, email, scheduled, undelivered, claimed>>
        /\ dpc' = [dpc EXCEPT ![d] = "fail"]
    BY <1>3 DEF DispatchThrows
  <2>3. \A e \in Events :
          /\ Covered(e) => Covered(e)'
          /\ job'[e] # "none" => Covered(e)'
          /\ job'[e] = "returned" => e \in (scheduled \cup undelivered)'
    BY <1>t, <2>1, <2>2 DEF CoverInv, Covered, JobTypes
  <2>4. \A x \in Dispatchers : dpc'[x] = "sent" => dpc[x] = "sent"
    BY <1>t, <2>2 DEF DispatcherTypes
  <2> QED BY <1>t, <2>2, <2>3, <2>4, OldestIsHeld DEF CoverInv, Oldest
<1>4. ASSUME NEW d \in Dispatchers, DispatcherMarksSent(d) \/ MarkingThrows(d)
      PROVE  CoverInv'
  <2>1. /\ UNCHANGED <<job, email, scheduled, undelivered>>
        /\ \A x \in Dispatchers : dpc'[x] = "sent" => dpc[x] = "sent" /\ claimed'[x] = claimed[x]
    BY <1>4, <1>t DEF DispatcherMarksSent, MarkingThrows, Finish, DispatcherTypes
  <2>2. /\ dpc[d] = "sent"
        /\ \/ status' = status
           \/ \E c \in Oldest(claimed[d]) : status' = [status EXCEPT ![c.id] = "sent"]
    BY <1>4 DEF DispatcherMarksSent, MarkingThrows, MarkAsSent
  <2>3. \A e \in Events : status'[e] = "sent" => Covered(e)
    BY <1>t, <2>2 DEF CoverInv, OutboxTypes
  <2> QED BY <2>1, <2>3 DEF CoverInv, Covered, Oldest
<1>5. ASSUME NEW e \in Events,
             \/ SaveDomainEvent(e) \/ TakeJob(e) \/ ScheduleEmail(e) \/ SchedulingThrows(e)
             \/ LookUpEvent(e) \/ HandlerMarksFailed(e) \/ HandlerThrows(e) \/ JobCompletes(e) \/ JobStalls(e)
             \/ LeaseEnds(e) \/ BackoffEnds(e)
             \/ JobIsRemoved(e) \/ EmailJobEnds(e) \/ EmailJobIsRemoved(e)
      PROVE  CoverInv'
  <2>1. /\ UNCHANGED <<dpc, claimed>>
        /\ \A x \in Events : status'[x] = "sent" => status[x] = "sent"
    BY <1>5, <1>t
       DEF SaveDomainEvent, TakeJob, ScheduleEmail, SchedulingThrows, LookUpEvent,
           HandlerMarksFailed, MarkAsFailed, HandlerThrows, JobCompletes, JobStalls, LeaseEnds,
           BackoffEnds, JobIsRemoved, EmailJobEnds, EmailJobIsRemoved, OutboxTypes
  <2>2. \A x \in Events : x # e => job'[x] = job[x] /\ email'[x] = email[x]
    BY <1>5, <1>t
       DEF SaveDomainEvent, TakeJob, ScheduleEmail, SchedulingThrows, AddEmail, LookUpEvent,
           HandlerMarksFailed, HandlerThrows, JobCompletes, JobStalls, LeaseEnds, BackoffEnds,
           JobIsRemoved, EmailJobEnds, EmailJobIsRemoved, JobTypes
  <2>3. scheduled \subseteq scheduled' /\ undelivered \subseteq undelivered'
    BY <1>5
       DEF SaveDomainEvent, TakeJob, ScheduleEmail, SchedulingThrows, AddEmail, LookUpEvent,
           HandlerMarksFailed, HandlerThrows, JobCompletes, JobStalls, LeaseEnds, BackoffEnds,
           JobIsRemoved, EmailJobEnds, EmailJobIsRemoved
  <2>4. /\ Covered(e) => Covered(e)'
        /\ job'[e] # "none" => Covered(e)'
        /\ job'[e] = "returned" => e \in (scheduled \cup undelivered)'
        /\ email'[e] # "none" => e \in scheduled'
    <3> USE <1>t DEF CoverInv, Covered, JobTypes
    <3>1. CASE SaveDomainEvent(e) \/ LeaseEnds(e) \/ BackoffEnds(e)
      BY <3>1 DEF SaveDomainEvent, LeaseEnds, BackoffEnds
    <3>2. CASE TakeJob(e) \/ LookUpEvent(e) \/ JobCompletes(e) \/ JobIsRemoved(e)
      BY <3>2 DEF TakeJob, LookUpEvent, JobCompletes, JobIsRemoved
    <3>3. CASE ScheduleEmail(e)
      BY <3>3 DEF ScheduleEmail, AddEmail
    <3>4. CASE SchedulingThrows(e)
      BY <3>4 DEF SchedulingThrows, AddEmail
    <3>5. CASE HandlerMarksFailed(e) \/ HandlerThrows(e)
      BY <3>5 DEF HandlerMarksFailed, HandlerThrows
    <3>6. CASE JobStalls(e)
      BY <3>6 DEF JobStalls
    <3>7. CASE EmailJobEnds(e) \/ EmailJobIsRemoved(e)
      BY <3>7 DEF EmailJobEnds, EmailJobIsRemoved
    <3> QED BY <1>5, <3>1, <3>2, <3>3, <3>4, <3>5, <3>6, <3>7
  <2>5. \A x \in Events : Covered(x) => Covered(x)'
    BY <2>2, <2>3, <2>4 DEF Covered
  <2> QED BY <1>t, <2>1, <2>2, <2>3, <2>4, <2>5, OldestIsHeld DEF CoverInv, Oldest
<1>6. CASE UNCHANGED vars
  BY <1>6 DEF vars, CoverInv, Covered, Oldest
<1> QED BY <1>1, <1>2, <1>3, <1>4, <1>5, <1>6 DEF Next, DispatcherStep, HandlerStep

-----------------------------------------------------------------------------
\* Retry counts never run ahead of failures.

LEMMA RetryKept == TypeOK /\ RetryInv /\ [Next]_vars => RetryInv'
<1> USE DEF jobs, outbox, SetStatus
<1> SUFFICES ASSUME TypeOK, RetryInv, [Next]_vars PROVE RetryInv'
  OBVIOUS
<1>t. OutboxTypes /\ DispatcherTypes /\ JobTypes /\ HistoryTypes
  BY DEF TypeOK
<1>1. ASSUME NEW d \in Dispatchers,
             \/ ReleaseExpiredLocks(d) \/ FindCandidates(d) \/ Dispatch(d)
             \/ DispatchThrows(d) \/ JobDies(d)
      PROVE  RetryInv'
  <2>1. /\ UNCHANGED <<retry, found, fails>>
        /\ \A x \in Dispatchers : claimed'[x] \subseteq claimed[x]
    BY <1>1, <1>t DEF ReleaseExpiredLocks, FindCandidates, Dispatch, DispatchThrows, JobDies,
                      DispatcherTypes
  <2>2. \A e \in Events : status'[e] = "dead" => status[e] = "dead"
    BY <1>1, <1>t DEF ReleaseExpiredLocks, FindCandidates, Dispatch, DispatchThrows, JobDies,
                      OutboxTypes
  <2> QED BY <2>1, <2>2 DEF RetryInv
<1>2. ASSUME NEW d \in Dispatchers, Claim(d) PROVE RetryInv'
  <2>1. PICK c \in Oldest(candidates[d]) :
          /\ \/ claimed' = [claimed EXCEPT ![d] = @ \cup {[id |-> c.id, retry |-> retry[c.id]]}]
             \/ claimed' = [claimed EXCEPT ![d] = @]
          /\ status' = status \/ status' = [status EXCEPT ![c.id] = "processing"]
    BY <1>2, <1>t DEF Claim, DispatcherTypes
  <2>2. c.id \in Events
    BY <1>t, OldestIsFound
  <2>3. UNCHANGED <<retry, found, fails>>
    BY <1>2 DEF Claim
  <2>4. \A e \in Events : status'[e] = "dead" => status[e] = "dead"
    BY <1>t, <2>1 DEF OutboxTypes
  <2>5. \A x \in Dispatchers : \A k \in claimed'[x] : k.retry <= fails[k.id]
    BY <1>t, <2>1, <2>2 DEF RetryInv, DispatcherTypes
  <2> QED BY <2>3, <2>4, <2>5 DEF RetryInv
<1>3. ASSUME NEW d \in Dispatchers, DispatcherMarksSent(d) \/ MarkingThrows(d)
      PROVE  RetryInv'
  <2>1. /\ UNCHANGED <<found, fails>>
        /\ \A x \in Dispatchers : claimed'[x] \subseteq claimed[x]
    BY <1>3, <1>t DEF DispatcherMarksSent, MarkingThrows, Finish, DispatcherTypes
  <2>2. \A e \in Events :
          /\ status'[e] = "dead" => status[e] = "dead"
          /\ retry'[e] \in {0, retry[e]}
    BY <1>3, <1>t DEF DispatcherMarksSent, MarkingThrows, MarkAsSent, OutboxTypes
  <2>3. \A e \in Events : retry'[e] <= fails[e]
    BY <1>t, <2>2 DEF RetryInv, HistoryTypes
  <2> QED BY <2>1, <2>2, <2>3 DEF RetryInv
<1>4. ASSUME NEW e \in Events, NEW count \in Nat, count <= fails[e] + 1, MarkAsFailed(e, count),
             UNCHANGED found, \A x \in Dispatchers : claimed'[x] \subseteq claimed[x]
      PROVE  RetryInv'
  <2>1. /\ status' = [status EXCEPT ![e] = IF count >= MaxHandlerRetries THEN "dead" ELSE "failed"]
        /\ retry' = [retry EXCEPT ![e] = count]
        /\ fails' = [fails EXCEPT ![e] = @ + 1]
    BY <1>4 DEF MarkAsFailed
  <2>2. \A x \in Events : fails'[x] \in Nat /\ fails[x] \in Nat /\ fails[x] <= fails'[x]
    BY <1>t, <2>1 DEF HistoryTypes
  <2>3. \A x \in Events :
          /\ retry'[x] <= fails'[x]
          /\ status'[x] = "dead" => fails'[x] >= MaxHandlerRetries
    BY OutboxAssumption, <1>4, <1>t, <2>1, <2>2 DEF RetryInv, OutboxTypes, HistoryTypes
  <2>4. \A x \in Events : found[x] <= fails'[x]
    BY <1>t, <2>2 DEF RetryInv, JobTypes
  <2>5. \A x \in Dispatchers : \A k \in claimed'[x] : k.retry <= fails'[k.id]
    <3>1. \A x \in Dispatchers : \A k \in claimed[x] :
            k.id \in Events /\ k.retry \in Nat /\ k.retry <= fails[k.id]
      BY <1>t DEF RetryInv, DispatcherTypes
    <3> QED BY <1>4, <2>2, <3>1
  <2> QED BY <1>4, <2>3, <2>4, <2>5 DEF RetryInv
<1>5. ASSUME NEW d \in Dispatchers, DispatcherMarksFailed(d) PROVE RetryInv'
  <2>1. PICK c \in Oldest(claimed[d]) : MarkAsFailed(c.id, c.retry + 1)
    BY <1>5 DEF DispatcherMarksFailed
  <2>2. c.id \in Events /\ c.retry \in Nat /\ c.retry <= fails[c.id]
    BY <1>t, OldestIsHeld DEF RetryInv
  <2>3. UNCHANGED found /\ \A x \in Dispatchers : claimed'[x] \subseteq claimed[x]
    BY <1>5, <1>t DEF DispatcherMarksFailed, Finish, DispatcherTypes
  <2>4. c.retry + 1 <= fails[c.id] + 1
    BY <1>t, <2>2 DEF HistoryTypes
  <2> QED BY <1>4, <2>1, <2>2, <2>3, <2>4
<1>6. ASSUME NEW e \in Events,
             HandlerMarksFailed(e) \/ (HandlerThrows(e) /\ MarkAsFailed(e, found[e] + 1))
      PROVE  RetryInv'
  <2>1. MarkAsFailed(e, found[e] + 1) /\ UNCHANGED <<found, claimed>>
    BY <1>6 DEF HandlerMarksFailed, HandlerThrows
  <2>2. found[e] + 1 \in Nat /\ found[e] + 1 <= fails[e] + 1
    BY <1>t DEF RetryInv, JobTypes, HistoryTypes
  <2> QED BY <1>4, <2>1, <2>2
<1>7. ASSUME NEW e \in Events, LookUpEvent(e) PROVE RetryInv'
  <2>1. UNCHANGED <<status, retry, fails, claimed>> /\ found' = [found EXCEPT ![e] = retry[e]]
    BY <1>7 DEF LookUpEvent
  <2> QED BY <1>t, <2>1 DEF RetryInv, JobTypes
<1>8. ASSUME NEW e \in Events,
             \/ SaveDomainEvent(e) \/ TakeJob(e) \/ ScheduleEmail(e) \/ SchedulingThrows(e)
             \/ HandlerThrows(e) /\ UNCHANGED <<outbox, fails>>
             \/ JobCompletes(e) \/ JobStalls(e) \/ LeaseEnds(e) \/ BackoffEnds(e)
             \/ JobIsRemoved(e) \/ EmailJobEnds(e) \/ EmailJobIsRemoved(e)
      PROVE  RetryInv'
  <2>1. /\ UNCHANGED <<retry, found, fails, claimed>>
        /\ \A x \in Events : status'[x] = "dead" => status[x] = "dead"
    BY <1>8, <1>t
       DEF SaveDomainEvent, TakeJob, ScheduleEmail, SchedulingThrows, HandlerThrows, JobCompletes,
           JobStalls, LeaseEnds, BackoffEnds, JobIsRemoved, EmailJobEnds, EmailJobIsRemoved,
           OutboxTypes
  <2> QED BY <2>1 DEF RetryInv
<1>9. CASE UNCHANGED vars
  BY <1>9 DEF vars, RetryInv
<1>10. ASSUME NEW e \in Events, HandlerThrows(e)
       PROVE  UNCHANGED <<outbox, fails>> \/ MarkAsFailed(e, found[e] + 1)
  BY <1>10 DEF HandlerThrows
<1> QED BY <1>1, <1>2, <1>3, <1>5, <1>6, <1>7, <1>8, <1>9, <1>10
        DEF Next, DispatcherStep, HandlerStep

-----------------------------------------------------------------------------
\* What a job works on.

LEMMA BatchKept == TypeOK /\ BatchInv /\ [Next]_vars => BatchInv'
<1> USE DEF jobs, outbox
<1> SUFFICES ASSUME TypeOK, BatchInv, [Next]_vars PROVE BatchInv'
  OBVIOUS
<1>t. OutboxTypes /\ DispatcherTypes
  BY DEF TypeOK
<1>1. ASSUME NEW d \in Dispatchers, ReleaseExpiredLocks(d) PROVE BatchInv'
  BY <1>1, <1>t DEF ReleaseExpiredLocks, BatchInv, DispatcherTypes
<1>2. ASSUME NEW d \in Dispatchers, FindCandidates(d) PROVE BatchInv'
  <2>1. PICK first \in SUBSET Events :
          /\ candidates' = [candidates EXCEPT ![d] = {[id |-> e, status |-> status[e]] : e \in first}]
          /\ dpc' = [dpc EXCEPT ![d] = IF first = {} THEN "idle" ELSE "claim"]
    BY <1>2 DEF FindCandidates
  <2>2. claimed' = claimed /\ claimed[d] = {}
    BY <1>2 DEF FindCandidates, BatchInv
  <2>3. \A c1, c2 \in candidates'[d] : c1.id = c2.id => c1 = c2
    BY <1>t, <2>1 DEF DispatcherTypes
  <2>4. first = {} => candidates'[d] = {}
    BY <1>t, <2>1 DEF DispatcherTypes
  <2>5. /\ \A x \in Dispatchers \ {d} : candidates'[x] = candidates[x] /\ dpc'[x] = dpc[x]
        /\ dpc'[d] = IF first = {} THEN "idle" ELSE "claim"
    BY <1>t, <2>1 DEF DispatcherTypes
  <2> QED BY <2>2, <2>3, <2>4, <2>5 DEF BatchInv
<1>3. ASSUME NEW d \in Dispatchers, Claim(d) PROVE BatchInv'
  <2>1. PICK c \in Oldest(candidates[d]) :
          /\ candidates' = [candidates EXCEPT ![d] = @ \ {c}]
          /\ \/ claimed' = [claimed EXCEPT ![d] = @ \cup {[id |-> c.id, retry |-> retry[c.id]]}]
             \/ claimed' = [claimed EXCEPT ![d] = @]
          /\ dpc' = [dpc EXCEPT ![d] = IF candidates[d] # {c} THEN "claim"
                                       ELSE IF claimed'[d] = {} THEN "idle" ELSE "dispatch"]
    BY <1>3, <1>t DEF Claim, DispatcherTypes
  <2>2. c \in candidates[d]
    BY DEF Oldest
  <2>3. /\ \A x \in Dispatchers \ {d} :
             candidates'[x] = candidates[x] /\ claimed'[x] = claimed[x] /\ dpc'[x] = dpc[x]
        /\ candidates'[d] = candidates[d] \ {c}
        /\ \/ claimed'[d] = claimed[d] \cup {[id |-> c.id, retry |-> retry[c.id]]}
           \/ claimed'[d] = claimed[d]
        /\ \/ dpc'[d] = "claim"
           \/ candidates'[d] = {} /\ dpc'[d] = "dispatch"
           \/ candidates'[d] = {} /\ claimed'[d] = {} /\ dpc'[d] = "idle"
    BY <1>t, <2>1, <2>2 DEF DispatcherTypes
  <2>4. /\ \A c1, c2 \in candidates'[d] : c1.id = c2.id => c1 = c2
        /\ \A c1, c2 \in claimed'[d] : c1.id = c2.id => c1 = c2
        /\ \A c1 \in candidates'[d], c2 \in claimed'[d] : c1.id # c2.id
    BY <2>2, <2>3 DEF BatchInv
  <2> QED BY <2>3, <2>4 DEF BatchInv
<1>4. ASSUME NEW d \in Dispatchers,
             Dispatch(d) \/ DispatchThrows(d) \/ MarkingThrows(d)
      PROVE  BatchInv'
  <2>1. /\ UNCHANGED <<candidates, claimed>> /\ dpc[d] \in {"dispatch", "sent"}
        /\ dpc' = [dpc EXCEPT ![d] = dpc'[d]] /\ dpc'[d] \in {"sent", "fail"}
    BY <1>4, <1>t DEF Dispatch, DispatchThrows, MarkingThrows, DispatcherTypes
  <2> QED BY <1>t, <2>1 DEF BatchInv, DispatcherTypes
<1>5. ASSUME NEW d \in Dispatchers, NEW c \in Oldest(claimed[d]), Finish(d, c),
             dpc[d] \in {"sent", "fail"}, UNCHANGED candidates
      PROVE  BatchInv'
  <2>1. /\ \A x \in Dispatchers \ {d} : claimed'[x] = claimed[x] /\ dpc'[x] = dpc[x]
        /\ claimed'[d] = claimed[d] \ {c}
        /\ dpc'[d] = "dispatch" \/ (dpc'[d] = "idle" /\ claimed'[d] = {})
    BY <1>5, <1>t DEF Finish, DispatcherTypes
  <2> QED BY <1>5, <2>1 DEF BatchInv
<1>6. ASSUME NEW d \in Dispatchers, DispatcherMarksSent(d) \/ DispatcherMarksFailed(d)
      PROVE  BatchInv'
  BY <1>5, <1>6 DEF DispatcherMarksSent, DispatcherMarksFailed
<1>7. ASSUME NEW d \in Dispatchers, JobDies(d) PROVE BatchInv'
  BY <1>7, <1>t DEF JobDies, BatchInv, DispatcherTypes
<1>8. ASSUME NEW e \in Events,
             \/ SaveDomainEvent(e) \/ TakeJob(e) \/ ScheduleEmail(e) \/ SchedulingThrows(e)
             \/ LookUpEvent(e) \/ HandlerMarksFailed(e) \/ HandlerThrows(e) \/ JobCompletes(e) \/ JobStalls(e)
             \/ LeaseEnds(e) \/ BackoffEnds(e)
             \/ JobIsRemoved(e) \/ EmailJobEnds(e) \/ EmailJobIsRemoved(e)
      PROVE  BatchInv'
  <2>1. UNCHANGED <<dpc, candidates, claimed>>
    BY <1>8
       DEF SaveDomainEvent, TakeJob, ScheduleEmail, SchedulingThrows, LookUpEvent,
           HandlerMarksFailed, HandlerThrows, JobCompletes, JobStalls, LeaseEnds, BackoffEnds,
           JobIsRemoved, EmailJobEnds, EmailJobIsRemoved
  <2> QED BY <2>1 DEF BatchInv
<1>9. CASE UNCHANGED vars
  BY <1>9 DEF vars, BatchInv
<1> QED BY <1>1, <1>2, <1>3, <1>4, <1>6, <1>7, <1>8, <1>9 DEF Next, DispatcherStep, HandlerStep

-----------------------------------------------------------------------------
\* A claim whose lease lasts is exclusive.

LEMMA HoldKept == TypeOK /\ BatchInv /\ HoldInv /\ [Next]_vars => HoldInv'
<1> USE DEF jobs, outbox, SetStatus
<1> SUFFICES ASSUME TypeOK, BatchInv, HoldInv, [Next]_vars, ~WorkerHasMongo PROVE HoldInv'
  BY DEF HoldInv
<1>t. OutboxTypes /\ DispatcherTypes /\ JobTypes
  BY DEF TypeOK
\* Nothing happens to the claims, or some end.
<1>1. ASSUME \A e \in Events : job'[e] # "mark",
             overran \subseteq overran',
             \A d \in Dispatchers : \A e \in Events : Holds(d, e)' => Holds(d, e),
             \A e \in Events \ overran' : \A d \in Dispatchers :
               Holds(d, e)' => status'[e] \in {"processing", "sent"} /\ e \notin expired'
      PROVE  HoldInv'
  BY <1>1 DEF HoldInv
<1>2. ASSUME NEW d \in Dispatchers,
             ReleaseExpiredLocks(d) \/ FindCandidates(d) \/ Dispatch(d) \/ DispatchThrows(d)
      PROVE  HoldInv'
  <2>1. /\ UNCHANGED <<claimed, overran>>
        /\ \A e \in Events : job'[e] = "mark" => job[e] = "mark"
    BY <1>2, <1>t DEF ReleaseExpiredLocks, FindCandidates, Dispatch, DispatchThrows, AddJob,
                      JobTypes
  <2>2. \A e \in Events : e \notin expired => status'[e] = status[e] /\ e \notin expired'
    BY <1>2, <1>t DEF ReleaseExpiredLocks, FindCandidates, Dispatch, DispatchThrows, OutboxTypes
  <2> QED BY <1>1, <2>1, <2>2 DEF HoldInv, Holds
<1>3. ASSUME NEW d \in Dispatchers, Claim(d) PROVE HoldInv'
  <2>1. PICK c \in Oldest(candidates[d]) :
          \/ /\ status[c.id] = c.status
             /\ claimed' = [claimed EXCEPT ![d] = @ \cup {[id |-> c.id, retry |-> retry[c.id]]}]
             /\ status' = [status EXCEPT ![c.id] = "processing"]
             /\ expired' = expired \ {c.id}
          \/ claimed' = [claimed EXCEPT ![d] = @] /\ UNCHANGED <<status, expired>>
    BY <1>3 DEF Claim
  <2>2. UNCHANGED <<job, overran>>
    BY <1>3 DEF Claim
  <2>3. c.id \in Events /\ c.status \in {"pending", "failed"}
    BY <1>t, OldestIsFound
  <2>4. CASE claimed' = [claimed EXCEPT ![d] = @] /\ UNCHANGED <<status, expired>>
    <3>1. claimed' = claimed
      BY <1>t, <2>4 DEF DispatcherTypes
    <3> QED BY <1>1, <2>2, <2>4, <3>1 DEF HoldInv, Holds
  <2>5. CASE /\ status[c.id] = c.status
             /\ claimed' = [claimed EXCEPT ![d] = @ \cup {[id |-> c.id, retry |-> retry[c.id]]}]
             /\ status' = [status EXCEPT ![c.id] = "processing"]
             /\ expired' = expired \ {c.id}
    <3>1. c.id \notin overran => \A x \in Dispatchers : ~Holds(x, c.id)
      BY <2>3, <2>5 DEF HoldInv
    <3>2. \A x \in Dispatchers : \A e \in Events :
            Holds(x, e)' => Holds(x, e) \/ (x = d /\ e = c.id)
      BY <1>t, <2>5 DEF Holds, DispatcherTypes
    <3>3. \A e \in Events : e # c.id => status'[e] = status[e]
      BY <1>t, <2>5 DEF OutboxTypes
    <3>4. status'[c.id] = "processing"
      BY <1>t, <2>3, <2>5 DEF OutboxTypes
    <3> QED BY <2>2, <2>5, <3>1, <3>2, <3>3, <3>4 DEF HoldInv
  <2> QED BY <2>1, <2>4, <2>5
<1>4. ASSUME NEW d \in Dispatchers, DispatcherMarksSent(d) \/ DispatcherMarksFailed(d)
      PROVE  HoldInv'
  <2>1. PICK c \in Oldest(claimed[d]) :
          /\ status' = [status EXCEPT ![c.id] = status'[c.id]]
          /\ expired' = expired \ {c.id}
          /\ claimed' = [claimed EXCEPT ![d] = @ \ {c}]
    BY <1>4, <1>t, OldestIsHeld
       DEF DispatcherMarksSent, DispatcherMarksFailed, MarkAsSent, MarkAsFailed, Finish, OutboxTypes
  <2>2. UNCHANGED <<job, overran>>
    BY <1>4 DEF DispatcherMarksSent, DispatcherMarksFailed
  <2>3. c.id \in Events /\ Holds(d, c.id) /\ c \in claimed[d]
    BY <1>t, OldestIsHeld
  <2>4. \A x \in Dispatchers : \A e \in Events : Holds(x, e)' => Holds(x, e)
    BY <1>t, <2>1 DEF Holds, DispatcherTypes
  <2>5. ~Holds(d, c.id)'
    BY <1>t, <2>1, <2>3 DEF Holds, BatchInv, DispatcherTypes
  <2>6. c.id \notin overran => \A x \in Dispatchers : ~Holds(x, c.id)'
    BY <2>3, <2>4, <2>5 DEF HoldInv
  <2>7. \A e \in Events : e # c.id => status'[e] = status[e]
    BY <1>t, <2>1 DEF OutboxTypes
  <2> QED BY <1>1, <2>1, <2>2, <2>4, <2>6, <2>7 DEF HoldInv
<1>5. ASSUME NEW d \in Dispatchers, MarkingThrows(d) PROVE HoldInv'
  <2>1. /\ UNCHANGED <<claimed, job, overran>>
        /\ \A e \in Events : status'[e] \in {status[e], "sent"} /\ expired' \subseteq expired
    BY <1>5, <1>t DEF MarkingThrows, MarkAsSent, OutboxTypes
  <2> QED BY <1>1, <2>1 DEF HoldInv, Holds
<1>6. ASSUME NEW d \in Dispatchers, JobDies(d) PROVE HoldInv'
  <2>1. /\ UNCHANGED <<status, expired, job, overran>>
        /\ claimed' = [claimed EXCEPT ![d] = {}]
    BY <1>6 DEF JobDies
  <2>2. \A x \in Dispatchers : \A e \in Events : Holds(x, e)' => Holds(x, e)
    BY <1>t, <2>1 DEF Holds, DispatcherTypes
  <2> QED BY <1>1, <2>1, <2>2 DEF HoldInv
<1>7. ASSUME NEW e \in Events, LeaseEnds(e) PROVE HoldInv'
  <2>1. /\ UNCHANGED <<status, claimed, job>> /\ expired' = expired \cup {e}
        /\ overran' = IF \E d \in Dispatchers : Holds(d, e) THEN overran \cup {e} ELSE overran
    BY <1>7 DEF LeaseEnds
  <2> QED BY <1>1, <2>1 DEF HoldInv, Holds
<1>8. ASSUME NEW e \in Events, SaveDomainEvent(e) PROVE HoldInv'
  <2>1. /\ status[e] = "absent" /\ status' = [status EXCEPT ![e] = "pending"]
        /\ UNCHANGED <<expired, claimed, job, overran>>
    BY <1>8 DEF SaveDomainEvent
  <2>2. \A x \in Events : x # e => status'[x] = status[x]
    BY <1>t, <2>1 DEF OutboxTypes
  <2> QED BY <1>1, <2>1, <2>2 DEF HoldInv, Holds
<1>9. ASSUME NEW e \in Events, BackoffEnds(e) PROVE HoldInv'
  BY <1>1, <1>9 DEF BackoffEnds, HoldInv, Holds
<1>10. ASSUME NEW e \in Events, HandlerMarksFailed(e) PROVE HoldInv'
  BY <1>10 DEF HandlerMarksFailed, HoldInv
<1>11. ASSUME NEW e \in Events,
              \/ TakeJob(e) \/ ScheduleEmail(e) \/ SchedulingThrows(e) \/ LookUpEvent(e)
              \/ HandlerThrows(e) \/ JobCompletes(e) \/ JobStalls(e)
              \/ JobIsRemoved(e) \/ EmailJobEnds(e) \/ EmailJobIsRemoved(e)
       PROVE  HoldInv'
  <2>1. /\ UNCHANGED <<status, expired, claimed, overran>>
        /\ \A x \in Events : job'[x] = "mark" => job[x] = "mark"
    BY <1>11, <1>t
       DEF HoldInv, TakeJob, ScheduleEmail, SchedulingThrows, LookUpEvent, HandlerThrows,
           JobCompletes, JobStalls, JobIsRemoved, EmailJobEnds, EmailJobIsRemoved, JobTypes
  <2> QED BY <1>1, <2>1 DEF HoldInv, Holds
<1>12. CASE UNCHANGED vars
  BY <1>1, <1>12 DEF vars, HoldInv, Holds
<1> QED BY <1>2, <1>3, <1>4, <1>5, <1>6, <1>7, <1>8, <1>9, <1>10, <1>11, <1>12
        DEF Next, DispatcherStep, HandlerStep

-----------------------------------------------------------------------------
\* Email jobs are not made twice while they are retained.

LEMMA OnceKept == TypeOK /\ OnceInv /\ [Next]_vars => OnceInv'
<1> SUFFICES ASSUME TypeOK, OnceInv, [Next]_vars PROVE OnceInv'
  OBVIOUS
<1>t. JobTypes /\ HistoryTypes
  BY DEF TypeOK
<1>1. CASE UNCHANGED <<email, scheduled, repeated, forgotten>>
  BY <1>1 DEF OnceInv
<1>2. ASSUME NEW e \in Events, AddEmail(e), UNCHANGED forgotten PROVE OnceInv'
  <2>1. scheduled \subseteq Events /\ DOMAIN email = Events
    BY <1>t DEF JobTypes, HistoryTypes
  <2>2. CASE email[e] = "none"
    BY <1>2, <2>1, <2>2 DEF OnceInv, AddEmail
  <2>3. CASE email[e] # "none"
    BY <1>1, <1>2, <2>3 DEF AddEmail
  <2> QED BY <2>2, <2>3
<1>3. ASSUME NEW e \in Events, EmailJobEnds(e) PROVE OnceInv'
  BY <1>3, <1>t DEF OnceInv, EmailJobEnds, JobTypes
<1>4. ASSUME NEW e \in Events, EmailJobIsRemoved(e) PROVE OnceInv'
  BY <1>4, <1>t DEF OnceInv, EmailJobIsRemoved, JobTypes
<1>5. ASSUME NEW d \in Dispatchers, DispatcherStep(d) \/ JobDies(d) PROVE OnceInv'
  BY <1>1, <1>5
     DEF DispatcherStep, ReleaseExpiredLocks, FindCandidates, Claim, Dispatch, DispatchThrows,
         DispatcherMarksSent, MarkingThrows, DispatcherMarksFailed, JobDies, jobs
<1>6. ASSUME NEW e \in Events, HandlerStep(e) PROVE OnceInv'
  <2>1. CASE ScheduleEmail(e) \/ SchedulingThrows(e)
    BY <1>1, <1>2, <2>1 DEF ScheduleEmail, SchedulingThrows
  <2>2. CASE \/ TakeJob(e) \/ LookUpEvent(e) \/ HandlerMarksFailed(e) \/ HandlerThrows(e)
             \/ JobCompletes(e)
    BY <1>1, <2>2 DEF TakeJob, LookUpEvent, HandlerMarksFailed, HandlerThrows, JobCompletes
  <2> QED BY <1>6, <2>1, <2>2 DEF HandlerStep
<1>7. ASSUME NEW e \in Events,
             SaveDomainEvent(e) \/ JobStalls(e) \/ LeaseEnds(e) \/ BackoffEnds(e) \/ JobIsRemoved(e)
      PROVE  OnceInv'
  BY <1>1, <1>7 DEF SaveDomainEvent, JobStalls, LeaseEnds, BackoffEnds, JobIsRemoved, jobs
<1>8. CASE UNCHANGED vars
  BY <1>1, <1>8 DEF vars, jobs
<1> QED BY <1>3, <1>4, <1>5, <1>6, <1>7, <1>8 DEF Next

-----------------------------------------------------------------------------
\* Theorems.

\* The invariants hold in every behaviour of the outbox.
THEOREM Invariance == Spec => []IInv
<1>1. IInv /\ [Next]_vars => IInv'
  BY TypeKept, CoverKept, RetryKept, BatchKept, HoldKept, OnceKept DEF IInv
<1> QED BY InitHolds, <1>1, PTL DEF Spec

\* Every variable keeps its type.
THEOREM TypeCorrect == Spec => []TypeOK
<1>1. IInv => TypeOK
  BY DEF IInv
<1> QED BY Invariance, <1>1, PTL

\* No event is marked sent whose job has not been queued: it is still to be
\* handled, or was handled, or its failure has left a trace
\* (dispatcher.worker.ts, bullmq-domain-event-publisher.ts and the handlers).
THEOREM NothingSentIsUncovered == Spec => []SentIsCovered
<1>1. IInv => SentIsCovered
  BY DEF IInv, CoverInv, Covered, SentIsCovered
<1> QED BY Invariance, <1>1, PTL

\* Lost updates of retryCount and released locks never make an event die
\* before it has failed MAX_HANDLER_RETRIES times.
THEOREM NothingDiesTooSoon == Spec => []NotDeadTooSoon
<1>1. IInv => NotDeadTooSoon
  BY DEF IInv, RetryInv, NotDeadTooSoon
<1> QED BY Invariance, <1>1, PTL

\* Without an overrun lease, claimPendingBatch gives an event to one
\* dispatcher at a time.
THEOREM ClaimsAreExclusive == Spec => []OneDispatcherAtATime
<1>1. IInv => OneDispatcherAtATime
  BY DEF IInv, HoldInv, OneDispatcherAtATime
<1> QED BY Invariance, <1>1, PTL

\* An event's email job is made again only after BullMQ has forgotten the first,
\* however often the event is published and its job is retried (the handlers use
\* the id of the event as the id of the job).
THEOREM EmailsAreScheduledOnce == Spec => []EmailScheduledOnce
<1>1. IInv => EmailScheduledOnce
  BY DEF IInv, OnceInv, EmailScheduledOnce
<1> QED BY Invariance, <1>1, PTL

=============================================================================
