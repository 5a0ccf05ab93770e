--------------------------- MODULE SchedulerProofs ---------------------------
(***************************************************************************)
(* The window check of CanScheduleRequest, and the book-keeping of         *)
(* RequestScheduler around it, for any number of clients, resources and    *)
(* requests.                                                               *)
(***************************************************************************)
EXTENDS Scheduler, FiniteSetTheorems, FunctionTheorems, SequenceTheorems,
        WellFoundedInduction, TLAPS

-----------------------------------------------------------------------------
(* The window check is complete: it looks only at windows that start with  *)
(* a request, and that decides every window.                               *)

Sorted(s) == \A i, j \in 1 .. Len(s) : i <= j => s[i] <= s[j]

(* Every window holds finitely many requests.                              *)
LEMMA WindowFinite ==
  ASSUME NEW s \in Seq(Int), NEW x \in Int
  PROVE  IsFiniteSet(InWindow(s, x)) /\ Cardinality(InWindow(s, x)) \in Nat
<1>1. IsFiniteSet(1 .. Len(s))
  BY FS_Interval
<1>2. InWindow(s, x) \in SUBSET (1 .. Len(s))
  BY DEF InWindow
<1> QED
  BY <1>1, <1>2, FS_Subset, FS_CardinalityType

(* The inner loop counts finitely many requests.                           *)
LEMMA CountFinite ==
  ASSUME NEW s \in Seq(Int), NEW i \in 1 .. Len(s)
  PROVE  /\ IsFiniteSet({j \in i .. Len(s) : s[j] < s[i] + Window})
         /\ CountFrom(s, i) \in Nat
<1>1. IsFiniteSet(i .. Len(s))
  BY FS_Interval
<1>2. {j \in i .. Len(s) : s[j] < s[i] + Window} \in SUBSET (i .. Len(s))
  OBVIOUS
<1> QED
  BY <1>1, <1>2, FS_Subset, FS_CardinalityType DEF CountFrom

(* A set of naturals that is not empty has a smallest element.             *)
LEMMA SmallestElement ==
  ASSUME NEW T \in SUBSET Nat, T # {}
  PROVE  \E m \in T : \A j \in T : m <= j
<1>1. PICK m \in T : \A j \in T : <<j, m>> \notin OpToRel(<, Nat)
  BY WFMin, NatLessThanWellFounded
<1>2. \A j \in T : ~(j < m)
  BY <1>1, Zenon DEF OpToRel
<1> QED
  BY <1>2

(* RateOK, the double loop of CanScheduleRequest over the sorted requests, *)
(* holds exactly when no window, wherever it starts, is over the limit.    *)
THEOREM WindowCheckIsComplete ==
  ASSUME NEW s \in Seq(Int), Sorted(s)
  PROVE  RateOK(s) <=> WithinLimit(s, Int)
<1> USE DiophantineAssumption
<1>1. ASSUME RateOK(s), NEW x \in Int
      PROVE  Cardinality(InWindow(s, x)) <= RateLimit
  <2> DEFINE A == InWindow(s, x)
  <2>1. CASE A = {}
    BY <2>1, FS_EmptySet
  <2>2. CASE A # {}
    <3>1. A \in SUBSET Nat
      BY DEF InWindow
    <3>2. PICK m \in A : \A j \in A : m <= j
      BY <2>2, <3>1, SmallestElement
    <3>3. m \in 1 .. Len(s) /\ x <= s[m]
      BY <3>2 DEF InWindow
    <3> DEFINE B == {j \in m .. Len(s) : s[j] < s[m] + Window}
    <3>4. A \in SUBSET B
      <4>1. SUFFICES ASSUME NEW j \in A PROVE j \in B
        OBVIOUS
      <4>2. j \in 1 .. Len(s) /\ s[j] \in Int /\ s[j] < x + Window
        BY DEF InWindow
      <4>3. m <= j
        BY <3>2
      <4>4. s[j] < s[m] + Window
        BY <3>3, <4>2
      <4> QED
        BY <3>3, <4>2, <4>3, <4>4
    <3>5. IsFiniteSet(B) /\ CountFrom(s, m) \in Nat
      BY <3>3, CountFinite
    <3>6. Cardinality(A) <= CountFrom(s, m)
      BY <3>4, <3>5, FS_Subset DEF CountFrom
    <3>7. CountFrom(s, m) <= RateLimit
      BY <1>1, <3>3 DEF RateOK
    <3>8. Cardinality(A) \in Nat
      BY WindowFinite
    <3> QED
      BY <3>5, <3>6, <3>7, <3>8
  <2> QED
    BY <2>1, <2>2
<1>2. ASSUME WithinLimit(s, Int), NEW i \in 1 .. Len(s)
      PROVE  CountFrom(s, i) <= RateLimit
  <2> DEFINE B == {j \in i .. Len(s) : s[j] < s[i] + Window}
  <2>1. B \in SUBSET InWindow(s, s[i])
    BY DEF InWindow, Sorted
  <2>2. s[i] \in Int
    OBVIOUS
  <2>3. Cardinality(InWindow(s, s[i])) <= RateLimit
    BY <1>2, <2>2 DEF WithinLimit
  <2>4. IsFiniteSet(InWindow(s, s[i])) /\ Cardinality(InWindow(s, s[i])) \in Nat
    BY <2>2, WindowFinite
  <2>5. CountFrom(s, i) <= Cardinality(InWindow(s, s[i]))
    BY <2>1, <2>4, FS_Subset DEF CountFrom
  <2>6. CountFrom(s, i) \in Nat
    BY CountFinite
  <2> QED
    BY <2>3, <2>4, <2>5, <2>6
<1> QED
  BY <1>1, <1>2 DEF RateOK, WithinLimit

(* small[i] = big[q[i]] for an injection q: every request of small is one  *)
(* of big, and no two are the same.                                        *)
Embeds(small, big, q) ==
  /\ q \in Injection(1 .. Len(small), 1 .. Len(big))
  /\ \A i \in 1 .. Len(small) : small[i] = big[q[i]]

(* A window of the smaller list holds no more requests.                    *)
LEMMA WindowMonotone ==
  ASSUME NEW small \in Seq(Int), NEW big \in Seq(Int), NEW q,
         Embeds(small, big, q), NEW x \in Int
  PROVE  Cardinality(InWindow(small, x)) <= Cardinality(InWindow(big, x))
<1> DEFINE A == InWindow(small, x)
           B == InWindow(big, x)
           f == [i \in A |-> q[i]]
<1>1. /\ q \in [1 .. Len(small) -> 1 .. Len(big)]
      /\ \A a, b \in 1 .. Len(small) : q[a] = q[b] => a = b
  BY DEF Embeds, Injection, IsInjective
<1>2. A \subseteq 1 .. Len(small)
  BY DEF InWindow
<1>3. \A i \in A : q[i] \in B
  BY <1>1 DEF InWindow, Embeds
<1>4. f \in Injection(A, B)
  BY <1>1, <1>2, <1>3 DEF Injection, IsInjective
<1> QED
  BY <1>4, WindowFinite, FS_Injection

(* The double loop over a sorted arrangement decides the requests in any   *)
(* order.  (p and q are the permutation the sort applied and its inverse.) *)
LEMMA ArrangementDecides ==
  ASSUME NEW all \in Seq(Int), NEW s \in Seq(Int), Sorted(s),
         NEW p, NEW q, Embeds(s, all, p), Embeds(all, s, q)
  PROVE  RateOK(s) <=> WithinLimit(all, Int)
<1> USE DiophantineAssumption
<1>1. ASSUME NEW x \in Int
      PROVE  Cardinality(InWindow(s, x)) = Cardinality(InWindow(all, x))
  <2>1. /\ Cardinality(InWindow(s, x)) <= Cardinality(InWindow(all, x))
        /\ Cardinality(InWindow(all, x)) <= Cardinality(InWindow(s, x))
    BY WindowMonotone
  <2> QED
    BY <2>1, WindowFinite
<1>2. WithinLimit(s, Int) <=> WithinLimit(all, Int)
  BY <1>1 DEF WithinLimit
<1> QED
  BY <1>2, WindowCheckIsComplete

(* Request k comes before request j, or is j.                              *)
Before(s, k, j) == s[k] < s[j] \/ (s[k] = s[j] /\ k <= j)

(* Ranks are the places 1 .. Len(s), and follow the order.                 *)
LEMMA RankOrder ==
  ASSUME NEW s \in Seq(Int), NEW i \in 1 .. Len(s)
  PROVE  /\ Rank(s, i) \in 1 .. Len(s)
         /\ \A j \in 1 .. Len(s) :
              i # j /\ Before(s, i, j) => Rank(s, i) < Rank(s, j)
<1> DEFINE N == 1 .. Len(s)
           B(j) == {k \in N : Before(s, k, j)}
<1>1. IsFiniteSet(N) /\ Cardinality(N) = Len(s)
  BY FS_Interval
<1>2. ASSUME NEW j \in N
      PROVE  /\ IsFiniteSet(B(j)) /\ Rank(s, j) = Cardinality(B(j))
             /\ Rank(s, j) \in Nat /\ Rank(s, j) <= Len(s) /\ j \in B(j)
  <2>1. B(j) \in SUBSET N
    OBVIOUS
  <2>2. IsFiniteSet(B(j)) /\ Cardinality(B(j)) <= Len(s) /\ Cardinality(B(j)) \in Nat
    BY <1>1, <2>1, FS_Subset, FS_CardinalityType
  <2>3. Rank(s, j) = Cardinality(B(j))
    BY DEF Rank, Before
  <2>4. j \in B(j)
    BY DEF Before
  <2> QED
    BY <2>2, <2>3, <2>4
<1>3. Rank(s, i) # 0
  <2>1. B(i) # {}
    BY <1>2
  <2> QED
    BY <1>2, <2>1, FS_EmptySet
<1>4. ASSUME NEW j \in N, i # j, Before(s, i, j)
      PROVE  Rank(s, i) < Rank(s, j)
  <2>1. \A k \in N : s[k] \in Int
    OBVIOUS
  <2>2. B(i) \in SUBSET B(j)
    BY <1>4, <2>1 DEF Before
  <2>3. j \notin B(i)
    BY <1>4, <2>1 DEF Before
  <2>4. B(i) # B(j)
    BY <1>2, <2>3
  <2>5. Cardinality(B(i)) <= Cardinality(B(j)) /\ Cardinality(B(i)) # Cardinality(B(j))
    BY <1>2, <2>2, <2>4, FS_Subset
  <2>6. /\ Rank(s, i) = Cardinality(B(i)) /\ Rank(s, j) = Cardinality(B(j))
        /\ Rank(s, i) \in Nat /\ Rank(s, j) \in Nat
    BY <1>2
  <2> HIDE DEF B
  <2> QED
    BY <2>5, <2>6
<1>5. Rank(s, i) \in Nat /\ Rank(s, i) <= Len(s)
  BY <1>2
<1>6. Rank(s, i) \in 1 .. Len(s)
  BY <1>3, <1>5
<1> QED
  BY <1>4, <1>6

(* No two requests have the same rank, and every rank is taken.            *)
LEMMA RankBijective ==
  ASSUME NEW s \in Seq(Int)
  PROVE  /\ \A i, j \in 1 .. Len(s) : Rank(s, i) = Rank(s, j) => i = j
         /\ \A n \in 1 .. Len(s) : \E j \in 1 .. Len(s) : Rank(s, j) = n
<1> DEFINE N == 1 .. Len(s)
           f == [j \in N |-> Rank(s, j)]
<1>1. ASSUME NEW i \in N, NEW j \in N, Rank(s, i) = Rank(s, j), i # j
      PROVE  FALSE
  <2>1. Before(s, i, j) \/ Before(s, j, i)
    <3>1. s[i] \in Int /\ s[j] \in Int
      OBVIOUS
    <3> QED
      BY <3>1 DEF Before
  <2>2. Rank(s, i) < Rank(s, j) \/ Rank(s, j) < Rank(s, i)
    BY <1>1, <2>1, RankOrder
  <2>3. Rank(s, i) \in Int /\ Rank(s, j) \in Int
    BY RankOrder
  <2> QED
    BY <1>1, <2>2, <2>3
<1>2. f \in Injection(N, N)
  BY <1>1, RankOrder DEF Injection, IsInjective
<1>3. IsFiniteSet(N)
  BY FS_Interval
<1>4. f \in Surjection(N, N)
  BY <1>2, <1>3, FS_Injection
<1> QED
  BY <1>1, <1>4 DEF Surjection

(* What the sort returns is sorted, and is a rearrangement of the list.    *)
LEMMA SortSorts ==
  ASSUME NEW s \in Seq(Int)
  PROVE  /\ SortTimes(s) \in Seq(Int) /\ Sorted(SortTimes(s))
         /\ \E p : Embeds(SortTimes(s), s, p)
         /\ \E q : Embeds(s, SortTimes(s), q)
<1> DEFINE N == 1 .. Len(s)
           At(i) == CHOOSE j \in N : Rank(s, j) = i
           p == [i \in N |-> At(i)]
           q == [j \in N |-> Rank(s, j)]
<1>1. ASSUME NEW i \in N
      PROVE  At(i) \in N /\ Rank(s, At(i)) = i
  BY RankBijective
<1>2. SortTimes(s) = [i \in N |-> s[At(i)]]
  BY DEF SortTimes
<1> HIDE DEF At
<1>3. SortTimes(s) \in Seq(Int) /\ Len(SortTimes(s)) = Len(s)
  <2>1. Len(s) \in Nat /\ \A i \in N : s[At(i)] \in Int
    BY <1>1
  <2> QED
    BY <1>2, <2>1
<1>4. Sorted(SortTimes(s))
  <2>1. SUFFICES ASSUME NEW i \in N, NEW j \in N, i <= j, s[At(j)] < s[At(i)]
                 PROVE  FALSE
    <3>1. \A i \in N : SortTimes(s)[i] = s[At(i)] /\ s[At(i)] \in Int
      BY <1>1, <1>2
    <3> QED
      BY <1>3, <3>1 DEF Sorted
  <2>2. At(i) \in N /\ At(j) \in N /\ Rank(s, At(i)) = i /\ Rank(s, At(j)) = j
    BY <1>1
  <2>3. At(j) # At(i) /\ Before(s, At(j), At(i))
    <3>1. s[At(i)] \in Int
      BY <2>2
    <3> QED
      BY <2>1, <3>1 DEF Before
  <2>4. j < i
    BY <2>2, <2>3, RankOrder
  <2> QED
    BY <2>1, <2>4
<1>5. Embeds(SortTimes(s), s, p)
  <2>1. p \in Injection(N, N)
    BY <1>1 DEF Injection, IsInjective
  <2> QED
    BY <1>2, <1>3, <2>1 DEF Embeds
<1>6. Embeds(s, SortTimes(s), q)
  <2>1. q \in Injection(N, N)
    BY RankBijective, RankOrder DEF Injection, IsInjective
  <2>2. ASSUME NEW j \in N
        PROVE  s[j] = SortTimes(s)[q[j]]
    <3>1. q[j] \in N /\ q[j] = Rank(s, j)
      BY RankOrder
    <3>2. At(q[j]) = j
      BY <1>1, <3>1, RankBijective
    <3> QED
      BY <1>2, <3>1, <3>2
  <2> QED
    BY <1>3, <2>1, <2>2 DEF Embeds
<1> QED
  BY <1>3, <1>4, <1>5, <1>6

(* The answer of CanScheduleRequest is exact: whatever the order in which  *)
(* the requests were registered, it is yes exactly when no window, where-  *)
(* ever it starts, of all requests together is over the limit.             *)
THEOREM CheckIsExact ==
  ASSUME NEW existing \in Seq(Int), NEW t \in Int
  PROVE  CanScheduleRequest(existing, t)
           <=> WithinLimit(existing \o NewRetries(t), Int)
<1>1. NewRetries(t) \in Seq(Int)
  BY DiophantineAssumption DEF NewRetries
<1>2. PICK all \in Seq(Int) : all = existing \o NewRetries(t)
  <2>1. existing \o NewRetries(t) \in Seq(Int)
    BY <1>1, ConcatProperties
  <2> QED
    BY <2>1
<1>3. RateOK(SortTimes(all)) <=> WithinLimit(all, Int)
  BY SortSorts, ArrangementDecides
<1> QED
  BY <1>2, <1>3 DEF CanScheduleRequest

(* Forgetting requests - CleanupExpiredRequests, or the filter on          *)
(* ExpiresAt - never turns a yes of the window check into a no.            *)
THEOREM RemovalKeepsLimit ==
  ASSUME NEW small \in Seq(Int), NEW big \in Seq(Int), Sorted(small),
         Sorted(big), NEW q, Embeds(small, big, q), RateOK(big)
  PROVE  RateOK(small)
<1> USE DiophantineAssumption
<1>1. WithinLimit(big, Int)
  BY WindowCheckIsComplete
<1>2. ASSUME NEW x \in Int
      PROVE  Cardinality(InWindow(small, x)) <= RateLimit
  <2>1. Cardinality(InWindow(small, x)) <= Cardinality(InWindow(big, x))
    BY WindowMonotone
  <2>2. Cardinality(InWindow(big, x)) <= RateLimit
    BY <1>1 DEF WithinLimit
  <2> QED
    BY <2>1, <2>2, WindowFinite
<1> QED
  BY <1>2, WindowCheckIsComplete DEF WithinLimit

-----------------------------------------------------------------------------
(* The scheduler.                                                          *)

(* The three parts are inductive only together: LiveBookingsKept needs the *)
(* types, so that cleanup reaches every resource.                          *)
IInv == SchedulerTypeOK /\ IdsUnique /\ LiveBookingsKept

(* An empty scheduler satisfies the invariant.                             *)
LEMMA InitIInv == SchedulerInit => IInv
<1> USE SchedulerAssumption, DiophantineAssumption
<1> SUFFICES ASSUME SchedulerInit PROVE IInv
  OBVIOUS
<1>1. SchedulerTypeOK
  BY DEF SchedulerInit, SchedulerTypeOK, Times, ClientStates
<1>2. IdsUnique /\ LiveBookingsKept
  BY DEF SchedulerInit, IdsUnique, LiveBookingsKept
<1> QED
  BY <1>1, <1>2 DEF IInv

(* The control state of a client tells which fields it has.                *)
LEMMA ClientCases ==
  ASSUME NEW p \in ClientStates
  PROVE  /\ p.pc = "search" => p \in Searching
         /\ p.pc = "book" => p \in Booking
BY DEF ClientStates, NotAsking, Searching, Booking

(* Counting a probe keeps a search well formed.                            *)
LEMMA ProbeUpdate ==
  ASSUME NEW p \in Searching, NEW n \in 0 .. MaxProbes
  PROVE  [p EXCEPT !.probe = n] \in Searching
BY DEF Searching

(* Going on to the next retry keeps a booking well formed.                 *)
LEMMA NextUpdate ==
  ASSUME NEW p \in Booking, NEW n \in 1 .. Len(RetryOffsets)
  PROVE  [p EXCEPT !.next = n] \in Booking
BY DEF Booking

(* Time only makes requests expire.                                        *)
LEMMA TickIInv == IInv /\ Tick => IInv'
<1> USE SchedulerAssumption, DiophantineAssumption
<1> SUFFICES ASSUME IInv, Tick PROVE IInv'
  OBVIOUS
<1>1. SchedulerTypeOK'
  BY DEF IInv, SchedulerTypeOK, Tick, Times
<1>2. IdsUnique'
  BY DEF IInv, IdsUnique, Tick
<1>3. LiveBookingsKept'
  <2>1. \A q \in booked : q.exp \in Nat
    BY DEF IInv, SchedulerTypeOK, Requests
  <2>2. now \in Nat
    BY DEF IInv, SchedulerTypeOK, Times
  <2> QED
    BY <2>1, <2>2 DEF IInv, LiveBookingsKept, Tick
<1> QED
  BY <1>1, <1>2, <1>3 DEF IInv

(* A search begins.                                                        *)
LEMMA SearchIInv ==
  ASSUME NEW c \in Clients, NEW r \in Resources, NEW t \in Times
  PROVE  IInv /\ Search(c, r, t) => IInv'
<1> USE SchedulerAssumption, DiophantineAssumption
<1> SUFFICES ASSUME IInv, Search(c, r, t) PROVE IInv'
  OBVIOUS
<1>1. [pc |-> "search", res |-> r, preferred |-> t, probe |-> 0] \in Searching
  BY DEF Searching
<1>2. SchedulerTypeOK'
  BY <1>1 DEF IInv, SchedulerTypeOK, Search, ClientStates
<1> QED
  BY <1>2 DEF IInv, IdsUnique, LiveBookingsKept, Search

(* A slot that was found is well formed.                                   *)
LEMMA FoundTyped ==
  ASSUME SchedulerTypeOK, NEW c \in Clients, NEW t \in 0 .. MaxTime + MaxProbes,
         NEW fresh \in BOOLEAN, client[c].res \in Resources, Found(c, t, fresh)
  PROVE  client' \in [Clients -> ClientStates]
<1> USE SchedulerAssumption, DiophantineAssumption
<1> DEFINE p == [pc |-> "book", res |-> client[c].res, slot |-> t, next |-> 1,
                 fresh |-> fresh]
<1>1. Len(RetryOffsets) \in Nat /\ Len(RetryOffsets) >= 1
  OBVIOUS
<1>2. p \in Booking
  BY <1>1 DEF Booking
<1>3. p \in ClientStates
  BY <1>2 DEF ClientStates
<1> QED
  BY <1>3 DEF SchedulerTypeOK, Found

(* A probe touches no request.                                             *)
LEMMA ProbeIInv ==
  ASSUME NEW c \in Clients
  PROVE  IInv /\ Probe(c) => IInv'
<1> USE SchedulerAssumption, DiophantineAssumption
<1> SUFFICES ASSUME IInv, Probe(c) PROVE IInv'
  OBVIOUS
<1> DEFINE p == client[c]
           candidate == p.preferred + p.probe
           ok == CanSchedule(requests, p.res, candidate)
<1>1. p \in Searching /\ p.probe < MaxProbes
  BY ClientCases DEF IInv, SchedulerTypeOK, Probe
<1>2. candidate \in 0 .. MaxTime + MaxProbes
  BY <1>1 DEF Searching, Times
<1>3. p.res \in Resources
  BY <1>1 DEF Searching
<1>4. client' \in [Clients -> ClientStates]
  <2>1. CASE ok
    <3>1. Found(c, candidate, now <= candidate)
      BY <2>1 DEF Probe
    <3>2. (now <= candidate) \in BOOLEAN
      OBVIOUS
    <3> QED
      BY <1>2, <1>3, <3>1, <3>2, FoundTyped DEF IInv
  <2>2. CASE ~ok
    <3>1. client' = [client EXCEPT ![c].probe = @ + 1]
      BY <2>2 DEF Probe
    <3>2. p.probe + 1 \in 0 .. MaxProbes
      BY <1>1 DEF Searching
    <3>3. [p EXCEPT !.probe = p.probe + 1] \in Searching
      BY <1>1, <3>2, ProbeUpdate
    <3> QED
      BY <3>1, <3>3 DEF IInv, SchedulerTypeOK, ClientStates
  <2> QED
    BY <2>1, <2>2
<1>5. UNCHANGED <<now, requests, booked, orderly>>
  BY DEF Probe
<1> QED
  BY <1>4, <1>5 DEF IInv, SchedulerTypeOK, IdsUnique, LiveBookingsKept

(* The fallback touches no request.                                        *)
LEMMA GiveUpIInv ==
  ASSUME NEW c \in Clients
  PROVE  IInv /\ GiveUp(c) => IInv'
<1> USE SchedulerAssumption, DiophantineAssumption
<1> SUFFICES ASSUME IInv, GiveUp(c) PROVE IInv'
  OBVIOUS
<1>1. client[c] \in Searching
  BY ClientCases DEF IInv, SchedulerTypeOK, GiveUp
<1>2. /\ client[c].preferred + MaxProbes \in 0 .. MaxTime + MaxProbes
      /\ client[c].res \in Resources
  BY <1>1 DEF Searching, Times
<1>3. client' \in [Clients -> ClientStates]
  BY <1>2, FoundTyped DEF IInv, GiveUp
<1> QED
  BY <1>3 DEF IInv, SchedulerTypeOK, IdsUnique, LiveBookingsKept, GiveUp

(* AddRequest refuses an identifier in use and keeps what it accepts.      *)
LEMMA AddRequestIInv ==
  ASSUME NEW c \in Clients, NEW id \in Ids
  PROVE  IInv /\ AddRequest(c, id) => IInv'
<1> USE SchedulerAssumption, DiophantineAssumption
<1> SUFFICES ASSUME IInv, AddRequest(c, id) PROVE IInv'
  OBVIOUS
<1> DEFINE p == client[c]
           q == Request(id, p.res, p.slot + RetryOffsets[p.next])
<1>1. p \in Booking
  BY ClientCases DEF IInv, SchedulerTypeOK, AddRequest
<1>2. CASE Taken(id, p.res)
  <2>1. client' = [client EXCEPT ![c] = NotAsking]
        /\ UNCHANGED <<now, requests, booked, orderly>>
    BY <1>2 DEF AddRequest
  <2> QED
    BY <2>1 DEF IInv, SchedulerTypeOK, ClientStates, IdsUnique, LiveBookingsKept
<1>3. CASE ~Taken(id, p.res)
  <2>1. /\ requests' = requests \cup {q}
        /\ booked' = booked \cup {q}
        /\ orderly' = [orderly EXCEPT ![p.res] = @ /\ p.fresh]
        /\ client' = [Outdated(c, p.res) EXCEPT ![c] = Booked(p)]
        /\ now' = now
    BY <1>3 DEF AddRequest
  <2>2. q \in Requests
    BY <1>1 DEF Booking, Request, Requests
  <2>3. \A d \in requests : d.id # id
    BY <1>3 DEF Taken
  <2>4. q.id = id
    BY DEF Request
  <2>5. Outdated(c, p.res) \in [Clients -> ClientStates]
    <3>1. SUFFICES ASSUME NEW d \in Clients
                   PROVE  Outdated(c, p.res)[d] \in ClientStates
      BY DEF Outdated
    <3>2. client[d] \in ClientStates
      BY DEF IInv, SchedulerTypeOK
    <3>3. CASE client[d].pc = "book"
      <4>1. client[d] \in Booking
        BY <3>2, <3>3, ClientCases
      <4>2. [client[d] EXCEPT !.fresh = FALSE] \in Booking
        BY <4>1 DEF Booking
      <4> QED
        BY <3>2, <4>2 DEF Outdated, ClientStates
    <3>4. CASE client[d].pc # "book"
      BY <3>2, <3>4 DEF Outdated
    <3> QED
      BY <3>3, <3>4
  <2>6. Booked(p) \in ClientStates
    <3>1. CASE p.next = Len(RetryOffsets)
      BY <3>1 DEF Booked, ClientStates
    <3>2. CASE p.next # Len(RetryOffsets)
      <4>1. p.next + 1 \in 1 .. Len(RetryOffsets)
        BY <1>1, <3>2 DEF Booking
      <4>2. [p EXCEPT !.next = p.next + 1] \in Booking
        BY <1>1, <4>1, NextUpdate
      <4> QED
        BY <3>2, <4>2 DEF Booked, ClientStates
    <3> QED
      BY <3>1, <3>2
  <2>7. orderly' \in [Resources -> BOOLEAN]
    BY <2>1 DEF IInv, SchedulerTypeOK
  <2>8. client' \in [Clients -> ClientStates]
    BY <2>1, <2>5, <2>6
  <2>9. SchedulerTypeOK'
    BY <2>1, <2>2, <2>7, <2>8 DEF IInv, SchedulerTypeOK
  <2>10. IdsUnique'
    BY <2>1, <2>3, <2>4 DEF IInv, IdsUnique
  <2>11. LiveBookingsKept'
    BY <2>1 DEF IInv, LiveBookingsKept
  <2> QED
    BY <2>9, <2>10, <2>11 DEF IInv
<1> QED
  BY <1>2, <1>3

(* Cleanup drops expired requests only, whatever their resource.           *)
LEMMA CleanupIInv == IInv /\ CleanupExpiredRequests => IInv'
<1> USE SchedulerAssumption, DiophantineAssumption
<1> SUFFICES ASSUME IInv, CleanupExpiredRequests PROVE IInv'
  OBVIOUS
<1>1. requests' = UNION {Active(requests, r) : r \in Resources}
      /\ UNCHANGED <<now, client, booked, orderly>>
  BY DEF CleanupExpiredRequests
<1>2. requests' \subseteq requests
  BY <1>1 DEF Active
<1>3. \A q \in requests : q.exp > now => q \in requests'
  <2>1. \A q \in requests : q.res \in Resources
    BY DEF IInv, SchedulerTypeOK, Requests
  <2> QED
    BY <1>1, <2>1 DEF Active
<1>4. SchedulerTypeOK'
  BY <1>1, <1>2 DEF IInv, SchedulerTypeOK
<1>5. IdsUnique'
  BY <1>2 DEF IInv, IdsUnique
<1>6. LiveBookingsKept'
  BY <1>1, <1>3 DEF IInv, LiveBookingsKept
<1> QED
  BY <1>4, <1>5, <1>6 DEF IInv

(* Whatever clients, clock and cleanup do, the parts of IInv stay true.    *)
THEOREM BookkeepingInvariant == SchedulerSpec => []IInv
<1>1. IInv /\ UNCHANGED schedulerVars => IInv'
  BY DEF IInv, SchedulerTypeOK, IdsUnique, LiveBookingsKept, schedulerVars
<1>2. IInv /\ SchedulerNext => IInv'
  BY TickIInv, SearchIInv, ProbeIInv, GiveUpIInv, AddRequestIInv, CleanupIInv
     DEF SchedulerNext
<1> QED
  BY InitIInv, <1>1, <1>2, PTL DEF SchedulerSpec

(* AddRequest never keeps two requests under one identifier.               *)
THEOREM IdentifiersUnique == SchedulerSpec => []IdsUnique
BY BookkeepingInvariant, PTL DEF IInv

(* CleanupExpiredRequests and AddRequest forget no request that is live.   *)
THEOREM NoLiveBookingLost == SchedulerSpec => []LiveBookingsKept
BY BookkeepingInvariant, PTL DEF IInv

(* Cleanup leaves the live requests of a resource as they are.             *)
LEMMA CleanupKeepsActive ==
  ASSUME CleanupExpiredRequests, NEW r \in Resources
  PROVE  Active(requests, r)' = Active(requests, r)
<1>1. requests' = UNION {Active(requests, s) : s \in Resources} /\ now' = now
  BY DEF CleanupExpiredRequests
<1> QED
  BY <1>1 DEF Active

(* CleanupExpiredRequests changes no answer of CanScheduleWithStrategy.    *)
THEOREM CleanupIsInvisible == SchedulerSpec => CleanupInvisible
<1>1. ASSUME CleanupExpiredRequests, NEW r \in Resources, NEW t \in Times
      PROVE  CanSchedule(requests, r, t)' = CanSchedule(requests, r, t)
  <2>1. Active(requests, r)' = Active(requests, r)
    BY <1>1, CleanupKeepsActive
  <2> QED
    BY <2>1 DEF CanSchedule
<1>2. CleanupExpiredRequests /\ requests' # requests =>
        \A r \in Resources, t \in Times :
          CanSchedule(requests, r, t)' = CanSchedule(requests, r, t)
  BY <1>1
<1> QED
  BY <1>2, PTL DEF CleanupInvisible

-----------------------------------------------------------------------------
(* The check, in terms of requests.                                        *)

(* The requests of S in the window of length w that starts at x, and the   *)
(* retries from the n-th on, of a command that starts at t, in that window. *)
Within(S, x, w) == {q \in S : x <= q.at /\ q.at < x + w}

Coming(t, n, x, w) ==
  {i \in n .. Len(RetryOffsets) :
     x <= t + RetryOffsets[i] /\ t + RetryOffsets[i] < x + w}

(* Whether S leaves room for the retries from the n-th on, in every window *)
(* of length w.                                                            *)
Room(S, t, n, w) ==
  \A x \in Int :
    Cardinality(Within(S, x, w)) + Cardinality(Coming(t, n, x, w)) <= RateLimit

LEMMA WithinFinite ==
  ASSUME NEW S, IsFiniteSet(S), NEW x, NEW w
  PROVE  IsFiniteSet(Within(S, x, w)) /\ Cardinality(Within(S, x, w)) \in Nat
<1>1. Within(S, x, w) \in SUBSET S
  BY DEF Within
<1> QED
  BY <1>1, FS_Subset, FS_CardinalityType

LEMMA ComingFinite ==
  ASSUME NEW n \in Nat, NEW t, NEW x, NEW w
  PROVE  IsFiniteSet(Coming(t, n, x, w)) /\ Cardinality(Coming(t, n, x, w)) \in Nat
<1>1. IsFiniteSet(n .. Len(RetryOffsets))
  BY FS_Interval, DiophantineAssumption
<1>2. Coming(t, n, x, w) \in SUBSET (n .. Len(RetryOffsets))
  BY DEF Coming
<1> QED
  BY <1>1, <1>2, FS_Subset, FS_CardinalityType

(* A set that is finite can be listed: every element has one place.        *)
LEMMA Listing ==
  ASSUME NEW S, IsFiniteSet(S)
  PROVE  /\ Cardinality(S) \in Nat
         /\ SetToSeq(S) \in [1 .. Cardinality(S) -> S]
         /\ \A i, j \in 1 .. Cardinality(S) :
              SetToSeq(S)[i] = SetToSeq(S)[j] => i = j
         /\ \A q \in S : \E i \in 1 .. Cardinality(S) : SetToSeq(S)[i] = q
<1>1. Cardinality(S) \in Nat /\ ExistsBijection(1 .. Cardinality(S), S)
  BY FS_CardinalityType
<1>2. PICK f : f \in Bijection(1 .. Cardinality(S), S)
  BY <1>1 DEF ExistsBijection
<1>3. f \in [1 .. Cardinality(S) -> S] /\ IsInjective(f)
  BY <1>2 DEF Bijection, Injection
<1>4. PICK g : g = SetToSeq(S)
  OBVIOUS
<1>5. g \in [1 .. Cardinality(S) -> S] /\ IsInjective(g)
  BY <1>3, <1>4 DEF SetToSeq
<1>6. g \in Injection(1 .. Cardinality(S), S)
  BY <1>5 DEF Injection
<1>7. Cardinality(1 .. Cardinality(S)) = Cardinality(S)
  BY <1>1, FS_Interval
<1>8. g \in Surjection(1 .. Cardinality(S), S)
  BY <1>6, <1>7, FS_Injection
<1> QED
  BY <1>1, <1>4, <1>5, <1>8 DEF IsInjective, Surjection

(* ScheduledTimes lists a time for every request.                          *)
LEMMA TimesListed ==
  ASSUME NEW S, IsFiniteSet(S), S \subseteq Requests
  PROVE  /\ ScheduledTimes(S) \in Seq(Int)
         /\ Len(ScheduledTimes(S)) = Cardinality(S)
         /\ \A i \in 1 .. Cardinality(S) :
              ScheduledTimes(S)[i] = SetToSeq(S)[i].at
<1>1. Cardinality(S) \in Nat /\ SetToSeq(S) \in [1 .. Cardinality(S) -> S]
  BY Listing
<1>2. \A i \in 1 .. Cardinality(S) : SetToSeq(S)[i].at \in Int
  BY <1>1 DEF Requests
<1> QED
  BY <1>1, <1>2 DEF ScheduledTimes

(* A window of all times together holds the requests and the retries that  *)
(* fall into it.                                                           *)
LEMMA WindowOfAll ==
  ASSUME NEW S, IsFiniteSet(S), S \subseteq Requests, NEW t \in Int, NEW x \in Int
  PROVE  Cardinality(InWindow(ScheduledTimes(S) \o NewRetries(t), x))
           = Cardinality(Within(S, x, Window)) + Cardinality(Coming(t, 1, x, Window))
<1> USE DiophantineAssumption
<1>1. PICK a \in Seq(Int) : a = ScheduledTimes(S)
  BY TimesListed
<1>2. PICK b \in Seq(Int) : b = NewRetries(t)
  <2>1. NewRetries(t) \in Seq(Int)
    BY DEF NewRetries
  <2> QED
    BY <2>1
<1>3. Len(b) = Len(RetryOffsets) /\ \A i \in 1 .. Len(b) : b[i] = t + RetryOffsets[i]
  BY <1>2 DEF NewRetries
<1>4. PICK m \in Nat : m = Cardinality(S)
  BY Listing
<1>5. Len(a) = m /\ \A i \in 1 .. m : a[i] = SetToSeq(S)[i].at
  BY <1>1, <1>4, TimesListed
<1> DEFINE A == {j \in 1 .. m : x <= a[j] /\ a[j] < x + Window}
           B == {j \in m + 1 .. m + Len(b) : x <= b[j - m] /\ b[j - m] < x + Window}
<1>6. InWindow(a \o b, x) = A \cup B
  <2>1. /\ Len(a \o b) = m + Len(b)
        /\ \A j \in 1 .. m + Len(b) :
             (a \o b)[j] = IF j <= m THEN a[j] ELSE b[j - m]
    BY <1>5, ConcatProperties
  <2>2. Len(b) \in Nat
    OBVIOUS
  <2>3. ASSUME NEW j \in 1 .. m + Len(b)
        PROVE  j \in InWindow(a \o b, x) <=> j \in A \cup B
    <3>1. j \in InWindow(a \o b, x) <=> x <= (a \o b)[j] /\ (a \o b)[j] < x + Window
      BY <2>1, <2>3 DEF InWindow
    <3>2. CASE j <= m
      <4>1. (a \o b)[j] = a[j] /\ j \in 1 .. m /\ j \notin B
        BY <2>1, <2>3, <3>2
      <4> QED
        BY <3>1, <4>1
    <3>3. CASE ~(j <= m)
      <4>1. (a \o b)[j] = b[j - m] /\ j \in m + 1 .. m + Len(b) /\ j \notin A
        BY <2>1, <2>2, <2>3, <3>3
      <4> QED
        BY <3>1, <4>1
    <3> QED
      BY <3>2, <3>3
  <2>4. InWindow(a \o b, x) \subseteq 1 .. m + Len(b)
    BY <2>1 DEF InWindow
  <2>5. A \cup B \subseteq 1 .. m + Len(b)
    BY <2>2
  <2> QED
    BY <2>3, <2>4, <2>5
<1>7. IsFiniteSet(A) /\ Cardinality(A) = Cardinality(Within(S, x, Window))
  <2> DEFINE f == [j \in A |-> SetToSeq(S)[j]]
  <2>1. IsFiniteSet(A)
    <3>1. IsFiniteSet(1 .. m) /\ A \in SUBSET (1 .. m)
      BY FS_Interval
    <3> QED
      BY <3>1, FS_Subset
  <2>2. /\ SetToSeq(S) \in [1 .. m -> S]
        /\ \A i, j \in 1 .. m : SetToSeq(S)[i] = SetToSeq(S)[j] => i = j
        /\ \A q \in S : \E i \in 1 .. m : SetToSeq(S)[i] = q
    BY <1>4, Listing
  <2>3. \A j \in A : j \in 1 .. m /\ SetToSeq(S)[j] \in Within(S, x, Window)
    BY <1>5, <2>2 DEF Within
  <2>4. ASSUME NEW q \in Within(S, x, Window)
        PROVE  \E j \in A : SetToSeq(S)[j] = q
    BY <1>5, <2>2 DEF Within
  <2> HIDE DEF A
  <2>5. f \in Injection(A, Within(S, x, Window))
    BY <2>2, <2>3 DEF Injection, IsInjective
  <2>6. f \in Surjection(A, Within(S, x, Window))
    BY <2>3, <2>4 DEF Surjection
  <2>7. ExistsBijection(A, Within(S, x, Window))
    BY <2>5, <2>6 DEF ExistsBijection, Bijection
  <2> QED
    BY <2>1, <2>7, FS_Bijection
<1>8. IsFiniteSet(B) /\ Cardinality(B) = Cardinality(Coming(t, 1, x, Window))
  <2> DEFINE g == [j \in B |-> j - m]
  <2>1. IsFiniteSet(B)
    <3>1. IsFiniteSet(m + 1 .. m + Len(b)) /\ B \in SUBSET (m + 1 .. m + Len(b))
      BY FS_Interval
    <3> QED
      BY <3>1, FS_Subset
  <2>2. ASSUME NEW j \in B
        PROVE  j - m \in Coming(t, 1, x, Window)
    <3>1. /\ j - m \in 1 .. Len(b)
          /\ x <= b[j - m] /\ b[j - m] < x + Window
      OBVIOUS
    <3> QED
      BY <1>3, <3>1 DEF Coming
  <2>3. ASSUME NEW i \in Coming(t, 1, x, Window)
        PROVE  i + m \in B /\ (i + m) - m = i
    <3>1. /\ i \in 1 .. Len(b)
          /\ x <= t + RetryOffsets[i] /\ t + RetryOffsets[i] < x + Window
      BY <1>3, <2>3 DEF Coming
    <3>2. i + m \in m + 1 .. m + Len(b) /\ (i + m) - m = i
      BY <3>1
    <3>3. b[i] = t + RetryOffsets[i]
      BY <1>3, <3>1
    <3>4. b[(i + m) - m] = b[i]
      BY <3>2
    <3> QED
      BY <3>1, <3>2, <3>3, <3>4
  <2>4. g \in Injection(B, Coming(t, 1, x, Window))
    <3>1. \A i, j \in B : i - m = j - m => i = j
      OBVIOUS
    <3> HIDE DEF B
    <3>2. g \in [B -> Coming(t, 1, x, Window)]
      BY <2>2
    <3> QED
      BY <3>1, <3>2 DEF Injection, IsInjective
  <2>5. g \in Surjection(B, Coming(t, 1, x, Window))
    BY <2>2, <2>3 DEF Surjection
  <2>6. ExistsBijection(B, Coming(t, 1, x, Window))
    BY <2>4, <2>5 DEF ExistsBijection, Bijection
  <2> QED
    BY <2>1, <2>6, FS_Bijection
<1>9. A \cap B = {}
  OBVIOUS
<1>10. Cardinality(A \cup B) = Cardinality(A) + Cardinality(B) - Cardinality(A \cap B)
  BY <1>7, <1>8, FS_Union
<1>11. Cardinality(A \cap B) = 0
  BY <1>9, FS_EmptySet
<1>12. /\ Cardinality(Within(S, x, Window)) \in Nat
       /\ Cardinality(Coming(t, 1, x, Window)) \in Nat
  BY WithinFinite, ComingFinite
<1> QED
  BY <1>1, <1>2, <1>6, <1>7, <1>8, <1>10, <1>11, <1>12

(* The answer of CanScheduleWithStrategy about a slot: the live requests   *)
(* of the resource leave room for the command and its retries.             *)
LEMMA AnswerMeansRoom ==
  ASSUME NEW rs, IsFiniteSet(rs), rs \subseteq Requests, NEW r, NEW t \in Int
  PROVE  CanSchedule(rs, r, t) <=> Room(Active(rs, r), t, 1, Window)
<1>1. PICK S : S = Active(rs, r)
  OBVIOUS
<1>2. IsFiniteSet(S) /\ S \subseteq Requests
  <2>1. S \in SUBSET rs
    BY <1>1 DEF Active
  <2> QED
    BY <2>1, FS_Subset
<1>3. ScheduledTimes(S) \in Seq(Int)
  BY <1>2, TimesListed
<1>4. CanSchedule(rs, r, t) <=> WithinLimit(ScheduledTimes(S) \o NewRetries(t), Int)
  BY <1>1, <1>3, CheckIsExact DEF CanSchedule
<1>5. \A x \in Int : Cardinality(InWindow(ScheduledTimes(S) \o NewRetries(t), x))
                       = Cardinality(Within(S, x, Window)) + Cardinality(Coming(t, 1, x, Window))
  BY <1>2, WindowOfAll
<1> QED
  BY <1>1, <1>4, <1>5 DEF WithinLimit, Room

-----------------------------------------------------------------------------
(* The bookings of clients that act on fresh answers.                      *)

BookedOf(bs, r) == {q \in bs : q.res = r}

FiniteInv == IsFiniteSet(requests) /\ IsFiniteSet(booked)

ExpiryInv == \A q \in booked : q.exp = q.at + Lifetime

(* What is booked keeps the limit, in every span the check vouches for.    *)
KeptInv ==
  \A r \in Resources : orderly[r] =>
    \A x \in Int : Cardinality(Within(BookedOf(booked, r), x, VouchedSpan)) <= RateLimit

(* What is booked leaves room for the bookings to come of every client     *)
(* whose answer is fresh.                                                  *)
FreshInv ==
  \A c \in Clients :
    client[c].pc = "book" /\ client[c].fresh = TRUE /\ orderly[client[c].res] =>
      Room(BookedOf(booked, client[c].res), client[c].slot, client[c].next, VouchedSpan)

LimitInv == FiniteInv /\ ExpiryInv /\ KeptInv /\ FreshInv

(* Fewer requests leave as much room.                                      *)
LEMMA RoomShrinks ==
  ASSUME NEW S, IsFiniteSet(S), NEW T \in SUBSET S, NEW t, NEW n \in Nat, NEW w,
         Room(S, t, n, w)
  PROVE  Room(T, t, n, w)
<1> USE DiophantineAssumption
<1>1. SUFFICES ASSUME NEW x \in Int
               PROVE  Cardinality(Within(T, x, w)) + Cardinality(Coming(t, n, x, w))
                        <= RateLimit
  BY DEF Room
<1>2. Within(T, x, w) \in SUBSET Within(S, x, w)
  BY DEF Within
<1>3. IsFiniteSet(T)
  BY FS_Subset
<1>4. /\ Cardinality(Within(T, x, w)) <= Cardinality(Within(S, x, w))
      /\ Cardinality(Within(T, x, w)) \in Nat /\ Cardinality(Within(S, x, w)) \in Nat
  BY <1>2, <1>3, WithinFinite, FS_Subset
<1>5. Cardinality(Coming(t, n, x, w)) \in Nat
  BY ComingFinite
<1>6. Cardinality(Within(S, x, w)) + Cardinality(Coming(t, n, x, w)) <= RateLimit
  BY <1>1 DEF Room
<1> QED
  BY <1>4, <1>5, <1>6

(* A booking takes the place that was left for it.                         *)
LEMMA RoomTaken ==
  ASSUME NEW S, IsFiniteSet(S), NEW t \in Int, NEW n \in 1 .. Len(RetryOffsets),
         NEW w \in Nat, Room(S, t, n, w), NEW q, q.at = t + RetryOffsets[n], NEW x \in Int
  PROVE  Cardinality(Within(S \cup {q}, x, w)) + Cardinality(Coming(t, n + 1, x, w))
           <= RateLimit
<1> USE DiophantineAssumption
<1> DEFINE W == Within(S, x, w)
           C == Coming(t, n + 1, x, w)
<1>1. IsFiniteSet(W) /\ Cardinality(W) \in Nat
  BY WithinFinite
<1>2. IsFiniteSet(C) /\ Cardinality(C) \in Nat
  BY ComingFinite
<1>3. Cardinality(W) + Cardinality(Coming(t, n, x, w)) <= RateLimit
  BY DEF Room
<1>4. RetryOffsets[n] \in Nat /\ Len(RetryOffsets) \in Nat
  OBVIOUS
<1>5. CASE x <= q.at /\ q.at < x + w
  <2>1. Within(S \cup {q}, x, w) = W \cup {q}
    BY <1>5 DEF Within
  <2>2. Cardinality(W \cup {q}) = IF q \in W THEN Cardinality(W) ELSE Cardinality(W) + 1
    BY <1>1, FS_AddElement
  <2>3. Coming(t, n, x, w) = C \cup {n} /\ n \notin C
    BY <1>4, <1>5 DEF Coming
  <2>4. Cardinality(C \cup {n}) = Cardinality(C) + 1
    BY <1>2, <2>3, FS_AddElement
  <2>5. Cardinality(Coming(t, n, x, w)) = Cardinality(C) + 1
    BY <2>3, <2>4
  <2>6. /\ Cardinality(Within(S \cup {q}, x, w)) \in Nat
        /\ Cardinality(Within(S \cup {q}, x, w)) <= Cardinality(W) + 1
    <3>1. PICK k \in Nat : k = Cardinality(W)
      BY <1>1
    <3>2. Cardinality(W \cup {q}) = k \/ Cardinality(W \cup {q}) = k + 1
      BY <2>2, <3>1
    <3>3. Cardinality(W \cup {q}) \in Nat /\ Cardinality(W \cup {q}) <= k + 1
      BY <3>2
    <3> QED
      BY <2>1, <3>1, <3>3
  <2> HIDE DEF W, C
  <2> QED
    BY <1>1, <1>2, <1>3, <2>5, <2>6 DEF C
<1>6. CASE ~(x <= q.at /\ q.at < x + w)
  <2>1. Within(S \cup {q}, x, w) = W
    BY <1>6 DEF Within
  <2>2. Coming(t, n, x, w) = C
    BY <1>4, <1>6 DEF Coming
  <2> QED
    BY <1>3, <2>1, <2>2
<1> QED
  BY <1>5, <1>6

(* The span the check vouches for is a natural number, no longer than the  *)
(* window and no longer than requests live.                                *)
LEMMA SpanFacts ==
  VouchedSpan \in Nat /\ VouchedSpan <= Window /\ VouchedSpan <= Lifetime
  BY DiophantineAssumption, SchedulerAssumption DEF VouchedSpan

(* Room in the windows is room in shorter spans.                           *)
LEMMA RoomNarrower ==
  ASSUME NEW S, IsFiniteSet(S), S \subseteq Requests, NEW t \in Int,
         Room(S, t, 1, Window)
  PROVE  Room(S, t, 1, VouchedSpan)
<1> USE DiophantineAssumption
<1>1. SUFFICES ASSUME NEW x \in Int
               PROVE  Cardinality(Within(S, x, VouchedSpan))
                        + Cardinality(Coming(t, 1, x, VouchedSpan)) <= RateLimit
  BY DEF Room
<1>2. Within(S, x, VouchedSpan) \in SUBSET Within(S, x, Window)
  BY SpanFacts DEF Within, Requests
<1>3. Coming(t, 1, x, VouchedSpan) \in SUBSET Coming(t, 1, x, Window)
  BY SpanFacts DEF Coming
<1>4. /\ IsFiniteSet(Within(S, x, Window)) /\ Cardinality(Within(S, x, Window)) \in Nat
      /\ Cardinality(Within(S, x, VouchedSpan)) \in Nat
  BY WithinFinite
<1>5. /\ IsFiniteSet(Coming(t, 1, x, Window)) /\ Cardinality(Coming(t, 1, x, Window)) \in Nat
      /\ Cardinality(Coming(t, 1, x, VouchedSpan)) \in Nat
  BY ComingFinite
<1>6. /\ Cardinality(Within(S, x, VouchedSpan)) <= Cardinality(Within(S, x, Window))
      /\ Cardinality(Coming(t, 1, x, VouchedSpan)) <= Cardinality(Coming(t, 1, x, Window))
  BY <1>2, <1>3, <1>4, <1>5, FS_Subset
<1>7. Cardinality(Within(S, x, Window)) + Cardinality(Coming(t, 1, x, Window)) <= RateLimit
  BY DEF Room
<1> QED
  BY <1>4, <1>5, <1>6, <1>7

(* The heart of the matter: a yes about a slot that is not past covers the *)
(* requests that have expired too.  One that is in such a span together    *)
(* with a request to come would have lived for less than its lifetime.     *)
LEMMA AnswerCoversExpired ==
  ASSUME IInv, LimitInv,
         NEW r \in Resources, orderly[r],
         NEW t \in Nat, now <= t, CanSchedule(requests, r, t)
  PROVE  Room(BookedOf(booked, r), t, 1, VouchedSpan)
<1> USE DiophantineAssumption, SchedulerAssumption, SpanFacts
<1>1. /\ requests \subseteq Requests /\ booked \subseteq Requests /\ now \in Nat
      /\ IsFiniteSet(requests) /\ IsFiniteSet(booked)
  BY DEF IInv, SchedulerTypeOK, Times, LimitInv, FiniteInv
<1>2. Room(Active(requests, r), t, 1, VouchedSpan)
  <2>1. Room(Active(requests, r), t, 1, Window)
    BY <1>1, AnswerMeansRoom
  <2>2. Active(requests, r) \in SUBSET requests
    BY DEF Active
  <2>3. IsFiniteSet(Active(requests, r)) /\ Active(requests, r) \subseteq Requests
    BY <1>1, <2>2, FS_Subset
  <2> QED
    BY <2>1, <2>3, RoomNarrower
<1>3. SUFFICES ASSUME NEW x \in Int
               PROVE  Cardinality(Within(BookedOf(booked, r), x, VouchedSpan))
                        + Cardinality(Coming(t, 1, x, VouchedSpan)) <= RateLimit
  BY DEF Room
<1>4. IsFiniteSet(BookedOf(booked, r)) /\ IsFiniteSet(Active(requests, r))
  <2>1. BookedOf(booked, r) \in SUBSET booked /\ Active(requests, r) \in SUBSET requests
    BY DEF BookedOf, Active
  <2> QED
    BY <1>1, <2>1, FS_Subset
<1>5. CASE Coming(t, 1, x, VouchedSpan) = {}
  <2>1. Cardinality(Coming(t, 1, x, VouchedSpan)) = 0
    BY <1>5, FS_EmptySet
  <2>2. Cardinality(Within(BookedOf(booked, r), x, VouchedSpan)) <= RateLimit
    BY DEF LimitInv, KeptInv
  <2>3. Cardinality(Within(BookedOf(booked, r), x, VouchedSpan)) \in Nat
    BY <1>4, WithinFinite
  <2> QED
    BY <2>1, <2>2, <2>3
<1>6. CASE Coming(t, 1, x, VouchedSpan) # {}
  <2>1. PICK i \in Coming(t, 1, x, VouchedSpan) : TRUE
    BY <1>6
  <2>2. t < x + VouchedSpan
    <3>1. i \in 1 .. Len(RetryOffsets) /\ t + RetryOffsets[i] < x + VouchedSpan
      BY DEF Coming
    <3>2. RetryOffsets[i] \in Nat
      BY <3>1
    <3> QED
      BY <3>1, <3>2
  <2>3. Within(BookedOf(booked, r), x, VouchedSpan) \in SUBSET Within(Active(requests, r), x, VouchedSpan)
    <3>1. SUFFICES ASSUME NEW q \in booked, q.res = r, x <= q.at, q.at < x + VouchedSpan
                   PROVE  q \in requests /\ q.exp > now
      BY DEF Within, BookedOf, Active
    <3>2. q.exp = q.at + Lifetime /\ q.at \in Nat
      BY <1>1 DEF LimitInv, ExpiryInv, Requests
    <3>3. q.exp > now
      BY <1>1, <2>2, <3>1, <3>2
    <3> QED
      BY <3>3 DEF IInv, LiveBookingsKept
  <2>4. /\ Cardinality(Within(BookedOf(booked, r), x, VouchedSpan)) <= Cardinality(Within(Active(requests, r), x, VouchedSpan))
        /\ Cardinality(Within(BookedOf(booked, r), x, VouchedSpan)) \in Nat
        /\ Cardinality(Within(Active(requests, r), x, VouchedSpan)) \in Nat
    BY <1>4, <2>3, WithinFinite, FS_Subset
  <2>5. Cardinality(Coming(t, 1, x, VouchedSpan)) \in Nat
    BY ComingFinite
  <2>6. Cardinality(Within(Active(requests, r), x, VouchedSpan)) + Cardinality(Coming(t, 1, x, VouchedSpan))
          <= RateLimit
    BY <1>2 DEF Room
  <2> QED
    BY <2>4, <2>5, <2>6
<1> QED
  BY <1>5, <1>6

(* A step that books nothing leaves only the answers to be looked at.      *)
LEMMA NothingBooked ==
  ASSUME LimitInv, requests' \subseteq requests, UNCHANGED <<booked, orderly>>,
         FreshInv'
  PROVE  LimitInv'
<1>1. FiniteInv'
  <2>1. IsFiniteSet(requests) /\ IsFiniteSet(booked)
    BY DEF LimitInv, FiniteInv
  <2>2. IsFiniteSet(requests')
    BY <2>1, FS_Subset
  <2> QED
    BY <2>1, <2>2 DEF FiniteInv
<1>2. ExpiryInv'
  BY DEF LimitInv, ExpiryInv
<1>3. KeptInv'
  BY DEF LimitInv, KeptInv, BookedOf
<1> QED
  BY <1>1, <1>2, <1>3 DEF LimitInv

(* Answers stay good while nothing is booked: those that clients hold are  *)
(* the old ones, or not fresh.                                             *)
LEMMA AnswersFade ==
  ASSUME LimitInv, UNCHANGED <<booked, orderly>>,
         \A d \in Clients : \/ client'[d] = client[d]
                            \/ client'[d].pc # "book"
                            \/ client'[d].fresh = FALSE
  PROVE  FreshInv'
<1>1. FreshInv
  BY DEF LimitInv
<1>2. SUFFICES ASSUME NEW d \in Clients, client'[d].pc = "book",
                      client'[d].fresh = TRUE, orderly[client'[d].res]
               PROVE  Room(BookedOf(booked, client'[d].res), client'[d].slot,
                           client'[d].next, VouchedSpan)
  BY DEF FreshInv, BookedOf
<1>3. client'[d] = client[d]
  BY <1>2
<1> QED
  BY <1>1, <1>2, <1>3 DEF FreshInv

(* Nothing is booked at first, and no retry is more than the limit.        *)
LEMMA InitLimit == SchedulerInit => LimitInv
<1> USE SchedulerAssumption, DiophantineAssumption
<1> SUFFICES ASSUME SchedulerInit PROVE LimitInv
  OBVIOUS
<1>1. requests = {} /\ booked = {}
  BY DEF SchedulerInit
<1>2. FiniteInv /\ ExpiryInv
  BY <1>1, FS_EmptySet DEF FiniteInv, ExpiryInv
<1>3. KeptInv
  <2>1. SUFFICES ASSUME NEW r \in Resources, NEW x \in Int
                 PROVE  Cardinality(Within(BookedOf(booked, r), x, VouchedSpan)) <= RateLimit
    BY DEF KeptInv
  <2>2. Within(BookedOf(booked, r), x, VouchedSpan) = {}
    BY <1>1 DEF Within, BookedOf
  <2>3. Cardinality(Within(BookedOf(booked, r), x, VouchedSpan)) = 0
    BY <2>2, FS_EmptySet
  <2> QED
    BY <2>3
<1>4. FreshInv
  BY DEF SchedulerInit, FreshInv, NotAsking
<1> QED
  BY <1>2, <1>3, <1>4 DEF LimitInv

(* A slot found by a probe is free of what was ever booked.                *)
LEMMA ProbeLimit ==
  ASSUME NEW c \in Clients, IInv, LimitInv, Probe(c)
  PROVE  LimitInv'
<1> USE SchedulerAssumption, DiophantineAssumption
<1>1. UNCHANGED <<now, requests, booked, orderly>>
  BY DEF Probe
<1>2. client \in [Clients -> ClientStates] /\ now \in Nat
  BY DEF IInv, SchedulerTypeOK, Times
<1>3. client[c] \in Searching
  BY <1>2, ClientCases DEF Probe
<1>4. PICK t \in Nat : t = client[c].preferred + client[c].probe
  BY <1>3 DEF Searching, Times
<1>5. PICK r \in Resources : r = client[c].res
  BY <1>3 DEF Searching
<1>6. FreshInv'
  <2>1. CASE CanSchedule(requests, r, t)
    <3>1. client' = [client EXCEPT ![c] =
                       [pc |-> "book", res |-> r, slot |-> t, next |-> 1,
                        fresh |-> now <= t]]
      BY <1>4, <1>5, <2>1 DEF Probe, Found
    <3>2. now <= t /\ orderly[r] => Room(BookedOf(booked, r), t, 1, VouchedSpan)
      BY <2>1, AnswerCoversExpired
    <3>3. SUFFICES ASSUME NEW d \in Clients, client'[d].pc = "book",
                          client'[d].fresh = TRUE, orderly[client'[d].res]
                   PROVE  Room(BookedOf(booked, client'[d].res), client'[d].slot,
                               client'[d].next, VouchedSpan)
      BY <1>1 DEF FreshInv, BookedOf
    <3>4. CASE d = c
      <4>1. /\ client'[d].res = r /\ client'[d].slot = t /\ client'[d].next = 1
            /\ client'[d].fresh = (now <= t)
        BY <1>2, <3>1, <3>4
      <4> QED
        BY <3>2, <3>3, <4>1
    <3>5. CASE d # c
      <4>1. client'[d] = client[d]
        BY <1>2, <3>1, <3>5
      <4> QED
        BY <3>3, <4>1 DEF LimitInv, FreshInv
    <3> QED
      BY <3>4, <3>5
  <2>2. CASE ~CanSchedule(requests, r, t)
    <3>1. client' = [client EXCEPT ![c].probe = @ + 1]
      BY <1>4, <1>5, <2>2 DEF Probe
    <3>2. client'[c].pc = "search"
      BY <1>2, <1>3, <3>1 DEF Searching
    <3>3. \A d \in Clients : d # c => client'[d] = client[d]
      BY <1>2, <3>1
    <3> QED
      BY <1>1, <3>2, <3>3, AnswersFade
  <2> QED
    BY <2>1, <2>2
<1> QED
  BY <1>1, <1>6, NothingBooked

(* The other steps that book nothing: no answer becomes fresh.             *)
LEMMA QuietLimit ==
  ASSUME IInv, LimitInv,
         \/ Tick \/ CleanupExpiredRequests \/ UNCHANGED schedulerVars
         \/ \E c \in Clients, r \in Resources, t \in Times : Search(c, r, t)
         \/ \E c \in Clients : GiveUp(c)
  PROVE  LimitInv'
<1>1. client \in [Clients -> ClientStates]
  BY DEF IInv, SchedulerTypeOK
<1>2. CASE Tick \/ CleanupExpiredRequests \/ UNCHANGED schedulerVars
  <2>1. requests' \subseteq requests /\ UNCHANGED <<client, booked, orderly>>
    BY <1>2 DEF Tick, CleanupExpiredRequests, Active, schedulerVars
  <2>2. FreshInv'
    BY <2>1, AnswersFade
  <2> QED
    BY <2>1, <2>2, NothingBooked
<1>3. ASSUME NEW c \in Clients, NEW r \in Resources, NEW t \in Times, Search(c, r, t)
      PROVE  LimitInv'
  <2>1. /\ UNCHANGED <<requests, booked, orderly>>
        /\ client' = [client EXCEPT ![c] =
             [pc |-> "search", res |-> r, preferred |-> t, probe |-> 0]]
    BY <1>3 DEF Search
  <2>2. client'[c].pc = "search" /\ \A d \in Clients : d # c => client'[d] = client[d]
    BY <1>1, <2>1
  <2>3. FreshInv'
    BY <2>1, <2>2, AnswersFade
  <2> QED
    BY <2>1, <2>3, NothingBooked
<1>4. ASSUME NEW c \in Clients, GiveUp(c)
      PROVE  LimitInv'
  <2>1. /\ UNCHANGED <<requests, booked, orderly>>
        /\ client' = [client EXCEPT ![c] =
             [pc |-> "book", res |-> client[c].res,
              slot |-> client[c].preferred + MaxProbes, next |-> 1,
              fresh |-> FALSE]]
    BY <1>4 DEF GiveUp, Found
  <2>2. client'[c].fresh = FALSE /\ \A d \in Clients : d # c => client'[d] = client[d]
    BY <1>1, <2>1
  <2>3. FreshInv'
    BY <2>1, <2>2, AnswersFade
  <2> QED
    BY <2>1, <2>3, NothingBooked
<1> QED
  BY <1>2, <1>3, <1>4

(* A booking takes its own place, and outdates the other answers for its   *)
(* resource.                                                               *)
LEMMA AddRequestLimit ==
  ASSUME NEW c \in Clients, NEW id \in Ids, IInv, LimitInv, AddRequest(c, id)
  PROVE  LimitInv'
<1> USE SchedulerAssumption, DiophantineAssumption
<1>1. client \in [Clients -> ClientStates] /\ orderly \in [Resources -> BOOLEAN]
  BY DEF IInv, SchedulerTypeOK
<1>2. PICK p \in Booking : p = client[c]
  BY <1>1, ClientCases DEF AddRequest
<1>3. /\ p.pc = "book" /\ p.res \in Resources /\ p.slot \in Nat
      /\ p.next \in 1 .. Len(RetryOffsets) /\ p.fresh \in BOOLEAN
      /\ p.next \in Nat /\ RetryOffsets[p.next] \in Nat /\ Len(RetryOffsets) \in Nat
  BY DEF Booking
<1>4. CASE Taken(id, p.res)
  <2>1. client' = [client EXCEPT ![c] = NotAsking] /\ UNCHANGED <<requests, booked, orderly>>
    BY <1>2, <1>4 DEF AddRequest
  <2>2. client'[c].pc = "idle" /\ \A d \in Clients : d # c => client'[d] = client[d]
    BY <1>1, <2>1 DEF NotAsking
  <2>3. FreshInv'
    BY <2>1, <2>2, AnswersFade
  <2> QED
    BY <2>1, <2>3, NothingBooked
<1>5. CASE ~Taken(id, p.res)
  <2>1. PICK q : q = Request(id, p.res, p.slot + RetryOffsets[p.next])
    OBVIOUS
  <2>2. /\ q.res = p.res /\ q.at = p.slot + RetryOffsets[p.next]
        /\ q.exp = q.at + Lifetime
    BY <2>1 DEF Request
  <2>3. /\ requests' = requests \cup {q}
        /\ booked' = booked \cup {q}
        /\ orderly' = [orderly EXCEPT ![p.res] = @ /\ p.fresh]
        /\ client' = [Outdated(c, p.res) EXCEPT ![c] = Booked(p)]
    BY <1>2, <1>5, <2>1 DEF AddRequest
  <2>4. FiniteInv'
    BY <2>3, FS_AddElement DEF LimitInv, FiniteInv
  <2>5. ExpiryInv'
    BY <2>2, <2>3 DEF LimitInv, ExpiryInv
  <2>6. \A r \in Resources : r # p.res =>
          BookedOf(booked', r) = BookedOf(booked, r) /\ orderly'[r] = orderly[r]
    BY <1>1, <2>2, <2>3 DEF BookedOf
  <2>7. PICK S : S = BookedOf(booked, p.res)
    OBVIOUS
  <2>8. BookedOf(booked', p.res) = S \cup {q}
    BY <2>2, <2>3, <2>7 DEF BookedOf
  <2>9. IsFiniteSet(S)
    <3>1. S \in SUBSET booked
      BY <2>7 DEF BookedOf
    <3> QED
      BY <3>1, FS_Subset DEF LimitInv, FiniteInv
  <2>10. orderly'[p.res] => p.fresh = TRUE /\ orderly[p.res]
    BY <1>1, <1>3, <2>3
  <2>11. ASSUME orderly'[p.res], NEW x \in Int
         PROVE  /\ Cardinality(Within(S \cup {q}, x, VouchedSpan))
                     + Cardinality(Coming(p.slot, p.next + 1, x, VouchedSpan)) <= RateLimit
                /\ Cardinality(Within(S \cup {q}, x, VouchedSpan)) <= RateLimit
    <3>1. Room(S, p.slot, p.next, VouchedSpan)
      BY <1>2, <1>3, <2>7, <2>10, <2>11 DEF LimitInv, FreshInv
    <3>2. Cardinality(Within(S \cup {q}, x, VouchedSpan))
            + Cardinality(Coming(p.slot, p.next + 1, x, VouchedSpan)) <= RateLimit
      <4>1. PICK t \in Int, n \in 1 .. Len(RetryOffsets) : t = p.slot /\ n = p.next
        BY <1>3
      <4>2. Room(S, t, n, VouchedSpan) /\ q.at = t + RetryOffsets[n]
        BY <2>2, <3>1, <4>1
      <4>3. Cardinality(Within(S \cup {q}, x, VouchedSpan)) + Cardinality(Coming(t, n + 1, x, VouchedSpan))
              <= RateLimit
        BY <2>9, <4>2, RoomTaken, SpanFacts
      <4> QED
        BY <4>1, <4>3
    <3>3. IsFiniteSet(S \cup {q})
      BY <2>9, FS_AddElement
    <3>4. Cardinality(Within(S \cup {q}, x, VouchedSpan)) \in Nat
      BY <3>3, WithinFinite
    <3>5. p.next + 1 \in Nat
      BY <1>3
    <3>6. Cardinality(Coming(p.slot, p.next + 1, x, VouchedSpan)) \in Nat
      BY <3>5, ComingFinite
    <3> QED
      BY <3>2, <3>4, <3>6
  <2>12. KeptInv'
    <3>1. SUFFICES ASSUME NEW r \in Resources, orderly'[r], NEW x \in Int
                   PROVE  Cardinality(Within(BookedOf(booked', r), x, VouchedSpan)) <= RateLimit
      BY DEF KeptInv
    <3>2. CASE r = p.res
      BY <2>8, <2>11, <3>1, <3>2
    <3>3. CASE r # p.res
      BY <2>6, <3>1, <3>3 DEF LimitInv, KeptInv
    <3> QED
      BY <3>2, <3>3
  <2>13. FreshInv'
    <3>1. SUFFICES ASSUME NEW d \in Clients, client'[d].pc = "book",
                          client'[d].fresh = TRUE, orderly'[client'[d].res]
                   PROVE  Room(BookedOf(booked', client'[d].res), client'[d].slot,
                               client'[d].next, VouchedSpan)
      BY DEF FreshInv
    <3>2. CASE d = c
      <4>1. client'[d] = Booked(p)
        BY <1>1, <2>3, <3>2 DEF Outdated
      <4>2. p.next # Len(RetryOffsets)
        BY <3>1, <4>1 DEF Booked, NotAsking
      <4>3. client'[d] = [p EXCEPT !.next = p.next + 1]
        BY <4>1, <4>2 DEF Booked
      <4>4. /\ client'[d].res = p.res /\ client'[d].slot = p.slot
            /\ client'[d].next = p.next + 1
        BY <4>3 DEF Booking
      <4>5. Room(S \cup {q}, p.slot, p.next + 1, VouchedSpan)
        BY <2>11, <3>1, <4>4 DEF Room
      <4> QED
        BY <2>8, <4>4, <4>5
    <3>3. CASE d # c
      <4>1. client'[d] = IF client[d].pc = "book" /\ client[d].res = p.res
                         THEN [client[d] EXCEPT !.fresh = FALSE] ELSE client[d]
        BY <1>1, <2>3, <3>3 DEF Outdated
      <4>2. CASE client[d].pc = "book" /\ client[d].res = p.res
        <5>1. client[d] \in Booking
          BY <1>1, <4>2, ClientCases
        <5>2. client'[d] = [client[d] EXCEPT !.fresh = FALSE]
          BY <4>1, <4>2
        <5>3. client'[d].fresh = FALSE
          BY <5>1, <5>2 DEF Booking
        <5> QED
          BY <3>1, <5>3
      <4>3. CASE ~(client[d].pc = "book" /\ client[d].res = p.res)
        <5>1. client'[d] = client[d]
          BY <4>1, <4>3
        <5>2. client[d].pc = "book" /\ client[d].res # p.res
          BY <3>1, <4>3, <5>1
        <5>3. client[d].res \in Resources
          BY <1>1, <5>2, ClientCases DEF Booking
        <5>4. BookedOf(booked', client[d].res) = BookedOf(booked, client[d].res)
              /\ orderly'[client[d].res] = orderly[client[d].res]
          BY <2>6, <5>2, <5>3, <5>1
        <5> QED
          BY <3>1, <5>1, <5>2, <5>4 DEF LimitInv, FreshInv
      <4> QED
        BY <4>2, <4>3
    <3> QED
      BY <3>2, <3>3
  <2> QED
    BY <2>4, <2>5, <2>12, <2>13 DEF LimitInv
<1> QED
  BY <1>4, <1>5

(* The bookings of clients that act on fresh answers never exceed the      *)
(* limit in a span as long as the window or as requests live, whichever is *)
(* shorter: expired requests, which the check no longer sees, cannot share *)
(* such a span with those to come.  patience registers requests that live  *)
(* for an hour: with --window up to 1h the span is the window; with longer *)
(* ones TLC refutes BookingsKeepLimit.                                     *)
THEOREM OrderlyBookingsFit == SchedulerSpec => []OrderlyBookingsKeepLimit
<1>1. SchedulerInit => LimitInv
  BY InitLimit
<1>2. IInv /\ LimitInv /\ [SchedulerNext]_schedulerVars => LimitInv'
  <2> SUFFICES ASSUME IInv, LimitInv, [SchedulerNext]_schedulerVars PROVE LimitInv'
    OBVIOUS
  <2>1. CASE \/ Tick \/ CleanupExpiredRequests \/ UNCHANGED schedulerVars
             \/ \E c \in Clients, r \in Resources, t \in Times : Search(c, r, t)
             \/ \E c \in Clients : GiveUp(c)
    BY <2>1, QuietLimit
  <2>2. CASE \E c \in Clients : Probe(c)
    BY <2>2, ProbeLimit
  <2>3. CASE \E c \in Clients, id \in Ids : AddRequest(c, id)
    BY <2>3, AddRequestLimit
  <2> QED
    BY <2>1, <2>2, <2>3 DEF SchedulerNext
<1>3. IInv /\ LimitInv => OrderlyBookingsKeepLimit
  <2> SUFFICES ASSUME IInv, LimitInv,
                      NEW r \in Resources, orderly[r],
                      NEW x \in {q.at : q \in booked}
               PROVE  Cardinality(DueWithin(r, x, VouchedSpan)) <= RateLimit
    BY DEF OrderlyBookingsKeepLimit
  <2>1. x \in Int
    BY DEF IInv, SchedulerTypeOK, Requests
  <2>2. DueWithin(r, x, VouchedSpan) = Within(BookedOf(booked, r), x, VouchedSpan)
    BY DEF DueWithin, Within, BookedOf
  <2> QED
    BY <2>1, <2>2 DEF LimitInv, KeptInv
<1> QED
  BY <1>1, <1>2, <1>3, BookkeepingInvariant, PTL DEF SchedulerSpec

-----------------------------------------------------------------------------
(* What an answer means, in the state of the scheduler.                    *)
Finite == IsFiniteSet(requests)

AnswersExact ==
  \A r \in Resources, t \in Times :
    CanSchedule(requests, r, t) <=> Room(Active(requests, r), t, 1, Window)

(* The requests stay finitely many, whatever clients do.                   *)
LEMMA RequestsFinite == SchedulerSpec => []Finite
<1>1. SchedulerInit => Finite
  BY FS_EmptySet DEF SchedulerInit, Finite
<1>2. Finite /\ [SchedulerNext]_schedulerVars => Finite'
  <2> SUFFICES ASSUME IsFiniteSet(requests), [SchedulerNext]_schedulerVars
               PROVE  IsFiniteSet(requests')
    BY DEF Finite
  <2>1. CASE requests' \subseteq requests
    BY <2>1, FS_Subset
  <2>2. CASE \E q : requests' = requests \cup {q}
    BY <2>2, FS_AddElement
  <2>3. requests' \subseteq requests \/ \E q : requests' = requests \cup {q}
    <3>1. CASE CleanupExpiredRequests
      BY <3>1 DEF CleanupExpiredRequests, Active
    <3>2. CASE Tick \/ UNCHANGED schedulerVars
      BY <3>2 DEF Tick, schedulerVars
    <3>3. ASSUME NEW c \in Clients, NEW r \in Resources, NEW t \in Times,
                 Search(c, r, t)
          PROVE  requests' = requests
      BY <3>3 DEF Search
    <3>4. ASSUME NEW c \in Clients, Probe(c) \/ GiveUp(c)
          PROVE  requests' = requests
      BY <3>4 DEF Probe, GiveUp
    <3>5. ASSUME NEW c \in Clients, NEW id \in Ids, AddRequest(c, id)
          PROVE  requests' = requests \/ \E q : requests' = requests \cup {q}
      BY <3>5 DEF AddRequest
    <3> QED
      BY <3>1, <3>2, <3>3, <3>4, <3>5 DEF SchedulerNext
  <2> QED
    BY <2>1, <2>2, <2>3
<1> QED
  BY <1>1, <1>2, PTL DEF SchedulerSpec

(* So every answer the scheduler gives is exact about its live requests.   *)
LEMMA AnswersStayExact == SchedulerSpec => []AnswersExact
<1>1. IInv /\ Finite => AnswersExact
  <2> SUFFICES ASSUME IInv, Finite, NEW r \in Resources, NEW t \in Times
               PROVE  CanSchedule(requests, r, t) <=> Room(Active(requests, r), t, 1, Window)
    BY DEF AnswersExact
  <2>1. requests \subseteq Requests /\ IsFiniteSet(requests)
    BY DEF IInv, SchedulerTypeOK, Finite
  <2>2. t \in Int
    BY DEF Times
  <2> QED
    BY <2>1, <2>2, AnswerMeansRoom
<1> QED
  BY <1>1, BookkeepingInvariant, RequestsFinite, PTL

(* Time only goes forward.                                                 *)
LEMMA TimeForward ==
  ASSUME IInv, [SchedulerNext]_schedulerVars
  PROVE  now \in Nat /\ now' \in Nat /\ now <= now'
<1>1. now \in Nat
  BY DEF IInv, SchedulerTypeOK, Times
<1>2. now' = now \/ now' = now + 1
  BY DEF SchedulerNext, Tick, CleanupExpiredRequests, Search, Probe, GiveUp,
         AddRequest, schedulerVars
<1> QED
  BY <1>1, <1>2

(* A slot CanScheduleWithStrategy calls free stays free until somebody     *)
(* adds a request to the resource.                                         *)
THEOREM FreeSlotsStayFree == SchedulerSpec => FreeStaysFree
<1>1. ASSUME IInv, IInv', Finite, AnswersExact, AnswersExact', [SchedulerNext]_schedulerVars,
             NEW r \in Resources, NEW t \in Times,
             CanSchedule(requests, r, t),
             ~ \E q \in requests' \ requests : q.res = r
      PROVE  CanSchedule(requests, r, t)'
  <2>1. requests \subseteq Requests /\ requests' \subseteq Requests /\ t \in Nat
    BY <1>1 DEF IInv, SchedulerTypeOK, Times
  <2>2. Room(Active(requests, r), t, 1, Window)
    BY <1>1 DEF AnswersExact
  <2>3. Active(requests, r)' \in SUBSET Active(requests, r)
    <3>1. now \in Nat /\ now' \in Nat /\ now <= now'
      BY <1>1, TimeForward
    <3>2. \A q \in requests' : q.exp \in Nat
      BY <2>1 DEF Requests
    <3>3. \A q \in requests' : q.res = r => q \in requests
      BY <1>1
    <3> QED
      BY <3>1, <3>2, <3>3 DEF Active
  <2>4. IsFiniteSet(Active(requests, r))
    <3>1. Active(requests, r) \in SUBSET requests
      BY DEF Active
    <3> QED
      BY <1>1, <3>1, FS_Subset DEF Finite
  <2>5. Room(Active(requests, r)', t, 1, Window)
    BY <2>2, <2>3, <2>4, RoomShrinks
  <2> QED
    BY <1>1, <2>5 DEF AnswersExact
<1>2. IInv /\ IInv' /\ Finite /\ AnswersExact /\ AnswersExact' /\ [SchedulerNext]_schedulerVars =>
        [<<now, requests>>' # <<now, requests>> =>
           \A r \in Resources, t \in Times :
             CanSchedule(requests, r, t) =>
               \/ CanSchedule(requests, r, t)'
               \/ \E q \in requests' \ requests : q.res = r]_schedulerVars
  BY <1>1
<1> QED
  BY <1>2, BookkeepingInvariant, RequestsFinite, AnswersStayExact, PTL
     DEF SchedulerSpec, FreeStaysFree
=============================================================================
