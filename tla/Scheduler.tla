------------------------------ MODULE Scheduler ------------------------------
(***************************************************************************)
(* RequestScheduler (pkg/daemon/scheduler.go): the requests of all         *)
(* clients, kept per resource under one RWMutex, and the search for a free *)
(* slot.  Each method is a critical section of its own, except             *)
(* GetNextAvailableSlot, which takes the lock anew for every candidate;    *)
(* and a client that has found a slot books it with one AddRequest per     *)
(* retry.  Other clients, the clock and the cleanup come in between.       *)
(*                                                                         *)
(* The slice of a resource is kept as a set: identifiers are unique, and   *)
(* the check sorts the times before it looks at them.                      *)
(***************************************************************************)
EXTENDS Diophantine, SequencesExt

CONSTANTS
  Clients, Resources, Ids,
  Lifetime,      \* ExpiresAt - ScheduledAt of the requests clients register
  MaxProbes,     \* 1440: candidates GetNextAvailableSlot tries
  MaxTime        \* bound: the clock and the preferred times

ASSUME SchedulerAssumption ==
  /\ RetryOffsets # <<>>
  /\ Lifetime \in Nat
  /\ MaxProbes \in Nat \ {0}
  /\ MaxTime \in Nat

VARIABLES
  now,           \* time.Now(), in minutes: the step between two candidates
  requests,      \* s.requests: ScheduledRequests, with their ResourceID
  client,        \* client[c]: the call c is in
  \* observations
  booked,        \* all requests ever registered
  orderly        \* orderly[r]: every booking of r was made on a fresh answer

schedulerVars == <<now, requests, client, booked, orderly>>

Times == 0 .. MaxTime

Request(id, r, t) == [id |-> id, res |-> r, at |-> t, exp |-> t + Lifetime]

(* pc: "idle", "search" (in GetNextAvailableSlot), "book" (has a slot and  *)
(* registers the requests next .. Len(RetryOffsets)).  fresh: the answer   *)
(* was a probe of a slot not in the past, and no request of another client *)
(* was added to the resource since.                                        *)
NotAsking == [pc |-> "idle"]

-----------------------------------------------------------------------------
(* Mutated Active: the resource is not looked at.                          *)
ActiveOfAll(rs, r) == {q \in rs : q.exp > now}

(* Requests of a resource that have not expired.                           *)
Active(rs, r) == {q \in rs : q.res = r /\ q.exp > now}

(* Their times, in some order.                                             *)
ScheduledTimes(rs) ==
  LET qs == SetToSeq(rs) IN [i \in 1 .. Cardinality(rs) |-> qs[i].at]

(* CanScheduleWithStrategy.                                                *)
CanSchedule(rs, r, t) == CanScheduleRequest(ScheduledTimes(Active(rs, r)), t)

-----------------------------------------------------------------------------
SchedulerInit ==
  /\ now = 0
  /\ requests = {}
  /\ client = [c \in Clients |-> NotAsking]
  /\ booked = {}
  /\ orderly = [r \in Resources |-> TRUE]

Tick ==
  /\ now < MaxTime
  /\ now' = now + 1
  /\ UNCHANGED <<requests, client, booked, orderly>>

(* A client calls GetNextAvailableSlot, with a time that is not past.      *)
Search(c, r, preferred) ==
  /\ client[c] = NotAsking
  /\ preferred >= now
  /\ client' = [client EXCEPT ![c] =
       [pc |-> "search", res |-> r, preferred |-> preferred, probe |-> 0]]
  /\ UNCHANGED <<now, requests, booked, orderly>>

Found(c, t, fresh) ==
  client' = [client EXCEPT ![c] =
    [pc |-> "book", res |-> client[c].res, slot |-> t, next |-> 1,
     fresh |-> fresh]]

(* One turn of the loop of GetNextAvailableSlot.                           *)
Probe(c) ==
  LET p == client[c]
      candidate == p.preferred + p.probe
  IN
  /\ p.pc = "search"
  /\ p.probe < MaxProbes
  /\ IF CanSchedule(requests, p.res, candidate)
     THEN Found(c, candidate, now <= candidate)
     ELSE client' = [client EXCEPT ![c].probe = @ + 1]
  /\ UNCHANGED <<now, requests, booked, orderly>>

(* The end of the loop: a time that was not checked.                       *)
GiveUp(c) ==
  /\ client[c].pc = "search"
  /\ client[c].probe = MaxProbes
  /\ Found(c, client[c].preferred + MaxProbes, FALSE)
  /\ UNCHANGED <<now, requests, booked, orderly>>

(* Answers for r that other clients hold are no longer fresh.              *)
Outdated(c, r) ==
  [d \in Clients |->
     IF d # c /\ client[d].pc = "book" /\ client[d].res = r
     THEN [client[d] EXCEPT !.fresh = FALSE] ELSE client[d]]

Booked(p) == IF p.next = Len(RetryOffsets) THEN NotAsking
             ELSE [p EXCEPT !.next = @ + 1]

(* Mutated Taken: identifiers are compared within the resource only.       *)
TakenInResource(id, r) == \E q \in requests : q.res = r /\ q.id = id

(* The identifier is in use, for whatever resource, expired or not.        *)
Taken(id, r) == \E q \in requests : q.id = id

(* AddRequest: an error if the identifier is taken (the client gives up),  *)
(* else the request is appended.                                           *)
AddRequest(c, id) ==
  LET p == client[c]
      q == Request(id, p.res, p.slot + RetryOffsets[p.next])
  IN
  /\ p.pc = "book"
  /\ \/ /\ Taken(id, p.res)
        /\ client' = [client EXCEPT ![c] = NotAsking]
        /\ UNCHANGED <<requests, booked, orderly>>
     \/ /\ ~Taken(id, p.res)
        /\ requests' = requests \cup {q}
        /\ booked' = booked \cup {q}
        /\ orderly' = [orderly EXCEPT ![p.res] = @ /\ p.fresh]
        /\ client' = [Outdated(c, p.res) EXCEPT ![c] = Booked(p)]
  /\ UNCHANGED now

(* Mutated CleanupExpiredRequests: drops requests whose time has come, not *)
(* those that have expired.                                                *)
CleanupStarted ==
  /\ requests' = {q \in requests : q.at > now}
  /\ UNCHANGED <<now, client, booked, orderly>>

(* CleanupExpiredRequests.                                                 *)
CleanupExpiredRequests ==
  /\ requests' = UNION {Active(requests, r) : r \in Resources}
  /\ UNCHANGED <<now, client, booked, orderly>>

-----------------------------------------------------------------------------
SchedulerNext ==
  \/ Tick
  \/ CleanupExpiredRequests
  \/ \E c \in Clients :
       \/ \E r \in Resources, t \in Times : Search(c, r, t)
       \/ Probe(c)
       \/ GiveUp(c)
       \/ \E id \in Ids : AddRequest(c, id)

SchedulerSpec == SchedulerInit /\ [][SchedulerNext]_schedulerVars

-----------------------------------------------------------------------------
Searching == [pc: {"search"}, res: Resources, preferred: Times,
              probe: 0 .. MaxProbes]

Booking == [pc: {"book"}, res: Resources, slot: 0 .. MaxTime + MaxProbes,
            next: 1 .. Len(RetryOffsets), fresh: BOOLEAN]

ClientStates == {NotAsking} \cup Searching \cup Booking

Requests == [id: Ids, res: Resources, at: Nat, exp: Nat]

SchedulerTypeOK ==
  /\ now \in Times
  /\ requests \subseteq Requests
  /\ client \in [Clients -> ClientStates]
  /\ booked \subseteq Requests
  /\ orderly \in [Resources -> BOOLEAN]

(* No two requests the scheduler keeps have the same identifier, also not  *)
(* for different resources or when several clients register at once.       *)
IdsUnique == \A p, q \in requests : p.id = q.id => p = q

(* A request that was registered is not forgotten before it has expired.   *)
LiveBookingsKept == \A q \in booked : q.exp > now => q \in requests

(* The requests of r, of all ever booked, due in [x, x + span).            *)
DueWithin(r, x, span) ==
  {q \in booked : q.res = r /\ x <= q.at /\ q.at < x + span}

(* Requests are forgotten Lifetime after they were due (one hour, whatever *)
(* --window says): the check vouches for spans of this length only.        *)
VouchedSpan == IF Lifetime < Window THEN Lifetime ELSE Window

(* When every client books on a fresh answer - it was not the fallback of  *)
(* GetNextAvailableSlot, the slot was not past when it was checked, nobody *)
(* else added a request to the resource in between - then no span of time, *)
(* as long as the window or as the lifetime of a request, whichever is     *)
(* shorter, holds more of the requests ever booked than the limit,         *)
(* although the check no longer sees those that have expired and a booking *)
(* takes several calls.  For a window longer than the lifetime this says   *)
(* less than BookingsKeepLimit, which then does not hold.                  *)
OrderlyBookingsKeepLimit ==
  \A r \in Resources : orderly[r] =>
    \A x \in {q.at : q \in booked} :
      Cardinality(DueWithin(r, x, VouchedSpan)) <= RateLimit

(* The strategy "prevents rate limit violations before they occur, with    *)
(* optional multi-instance coordination" (examples.md:7), with windows as  *)
(* long as 24h (examples.md:50): no window of the bookings, made on fresh  *)
(* answers, holds more than the limit.                                     *)
BookingsKeepLimit ==
  \A r \in Resources : orderly[r] =>
    \A x \in {q.at : q \in booked} :
      Cardinality(DueWithin(r, x, Window)) <= RateLimit

(* A free slot stays free until a request is added to its resource: time,  *)
(* expiry and cleanup never take it away, nor do requests of others.       *)
FreeStaysFree ==
  [][<<now, requests>>' # <<now, requests>> =>
       \A r \in Resources, t \in Times :
         CanSchedule(requests, r, t) =>
           \/ CanSchedule(requests, r, t)'
           \/ \E q \in requests' \ requests : q.res = r]_schedulerVars

(* CleanupExpiredRequests is invisible: it changes no answer about any     *)
(* slot of any resource.                                                   *)
CleanupInvisible ==
  [][CleanupExpiredRequests /\ requests' # requests =>
       \A r \in Resources, t \in Times :
         CanSchedule(requests, r, t)' = CanSchedule(requests, r, t)]_schedulerVars
=============================================================================
