---------------------------- MODULE DaemonProofs ----------------------------
(* Proofs about the life of patienced processes, for any number of them.   *)
EXTENDS Daemon, TLAPS

-----------------------------------------------------------------------------
(* The inductive invariant.                                                *)

(* Two instances in their start have overlapped; and who made a socket     *)
(* between another's cleanup and its Listen was in its start then.         *)
StartsKnown ==
  /\ \A i, j \in Instances :
       main[i] \in Starting /\ main[j] \in Starting /\ i # j => {i, j} \in overlapped
  /\ \A i \in Instances :
       main[i] = "clean" /\ socket # NoFile =>
         socket # i /\ {i, socket} \in overlapped

(* If all of them are patienced and no starts overlapped, one instance at  *)
(* a time is alive: the PID file, from the moment it is written, keeps the *)
(* others out.                                                             *)
Alone ==
  \A i \in Instances :
    /\ Alive(i) => main[i] \in Starting \cup {"serving"}
    /\ \A j \in Instances : Alive(i) /\ Alive(j) => i = j
    /\ main[i] \in {"pid", "clean", "serving"} => pidFile = i
    /\ main[i] = "serving" => socket = i

IInv ==
  /\ TypeOK
  /\ StartsKnown
  /\ library = {} /\ overlapped = {} => Alone

-----------------------------------------------------------------------------
(* Nobody has started.                                                     *)
LEMMA InitIInv == Init => IInv
<1> SUFFICES ASSUME Init PROVE IInv
  OBVIOUS
<1>1. TypeOK
  BY DEF Init, TypeOK, MainStates
<1>2. StartsKnown /\ Alone
  BY DEF Init, StartsKnown, Alone, Starting, Alive
<1> QED
  BY <1>1, <1>2 DEF Init, IInv

(* No step breaks the types.                                               *)
LEMMA TypeStep ==
  ASSUME TypeOK, [Next]_vars
  PROVE  TypeOK'
<1> USE DaemonAssumption DEF TypeOK, MainStates, goroutines, files, others, Goto
<1>1. ASSUME NEW i \in Instances, Check(i) \/ WritePidFile(i) \/ CleanupSocket(i)
      PROVE  TypeOK'
  BY <1>1 DEF Check, BeginStart, WritePidFile, CleanupSocket
<1>2. ASSUME NEW i \in Instances, NEW enableHTTP \in BOOLEAN, Listen(i, enableHTTP)
      PROVE  TypeOK'
  BY <1>2 DEF Listen
<1>3. ASSUME NEW i \in Instances, Signal(i)
      PROVE  TypeOK'
  BY <1>3 DEF Signal, SignalEffect
<1>4. ASSUME NEW i \in Instances, Kill(i) \/ ReusePid(i) \/ Goroutines(i) \/ MainReturns(i)
      PROVE  TypeOK'
  <2>1. CASE Kill(i) \/ ReusePid(i) \/ MainReturns(i)
    BY <2>1 DEF Kill, ReusePid, MainReturns
  <2>2. CASE SignalReturns(i) \/ AcceptReturns(i)
    BY <2>2 DEF SignalReturns, AcceptReturns
  <2>3. CASE HTTPRequest(i) \/ HTTPRequestEnds(i)
    BY <2>3 DEF HTTPRequest, HTTPRequestEnds
  <2>4. CASE HTTPShutdown(i) \/ HTTPReturns(i) \/ HTTPFails(i)
    BY <2>4 DEF HTTPShutdown, HTTPReturns, HTTPFails
  <2> QED
    BY <1>4, <2>1, <2>2, <2>3, <2>4 DEF Goroutines
<1>5. ASSUME NEW i \in Instances, StopCancel(i) \/ Stop(i)
      PROVE  TypeOK'
  BY <1>5 DEF StopCancel, Stop, StopListener, StopPool, StopHTTP, StopWait,
              StopCleanupSocket, StopRemovePidFile
<1>6. ASSUME NEW i \in Instances, CloseCancel(i) \/ CloseListener(i) \/ CloseWait(i)
      PROVE  TypeOK'
  BY <1>6 DEF CloseCancel, CloseListener, CloseWait
<1>7. CASE StopCmdCheck \/ StopCmdSignal
  BY <1>7 DEF StopCmdCheck, StopCmdSignal, SignalEffect, IsRunning
<1>8. CASE UNCHANGED vars
  BY <1>8 DEF vars
<1> QED
  BY <1>1, <1>2, <1>3, <1>4, <1>5, <1>6, <1>7, <1>8 DEF Next, StartSteps

-----------------------------------------------------------------------------
(* A process that ends, by itself or by a signal, makes room and takes     *)
(* nothing from the others: it leaves its files behind.                    *)
LEMMA EndKeeps ==
  ASSUME IInv, TypeOK', UNCHANGED <<pidFile, socket, library, overlapped>>,
         \A i \in Instances : main'[i] = main[i] \/ main'[i] \in Ended
  PROVE  IInv'
<1>1. \A i \in Instances : Alive(i)' => Alive(i) /\ main'[i] = main[i]
  BY DEF Alive, Ended
<1>2. \A i \in Instances : main'[i] \in Starting \cup {"serving"} => main'[i] = main[i]
  BY DEF Starting, Ended
<1>3. StartsKnown'
  BY <1>2 DEF IInv, StartsKnown, Starting
<1>4. Alone => Alone'
  BY <1>1, <1>2 DEF Alone, Starting
<1> QED
  BY <1>3, <1>4 DEF IInv

(* Which steps those are.                                                  *)
LEMMA EndSteps ==
  ASSUME IInv, [Next]_vars,
         \/ \E i \in Instances : \/ Signal(i) \/ Kill(i) \/ ReusePid(i)
                                 \/ Goroutines(i) \/ MainReturns(i)
         \/ StopCmdCheck \/ StopCmdSignal \/ UNCHANGED vars
  PROVE  IInv'
<1> USE DEF IInv, TypeOK, goroutines, files, others, Goto, Ended
<1>1. UNCHANGED <<pidFile, socket, library, overlapped>>
  BY DEF Signal, Kill, ReusePid, Goroutines, SignalReturns, AcceptReturns, HTTPRequest,
         HTTPRequestEnds, HTTPShutdown, HTTPReturns, HTTPFails, MainReturns,
         StopCmdCheck, StopCmdSignal, vars
<1>2. ASSUME NEW i \in Instances, SignalEffect(i)
      PROVE  \A j \in Instances : main'[j] = main[j] \/ main'[j] \in Ended
  BY <1>2 DEF SignalEffect
<1>3. \A j \in Instances : main'[j] = main[j] \/ main'[j] \in Ended
  <2>1. CASE \E i \in Instances : Signal(i)
    BY <1>2, <2>1 DEF Signal
  <2>2. CASE StopCmdSignal
    BY <1>2, <2>2 DEF StopCmdSignal
  <2>3. CASE \E i \in Instances : Kill(i) \/ ReusePid(i) \/ Goroutines(i) \/ MainReturns(i)
    BY <2>3 DEF Kill, ReusePid, Goroutines, MainReturns, SignalReturns, AcceptReturns,
                HTTPRequest, HTTPRequestEnds, HTTPShutdown, HTTPReturns, HTTPFails
  <2>4. CASE StopCmdCheck \/ UNCHANGED vars
    BY <2>4 DEF StopCmdCheck, vars
  <2> QED
    BY <2>1, <2>2, <2>3, <2>4
<1>4. TypeOK'
  BY TypeStep
<1> HIDE DEF IInv, TypeOK, Ended
<1> QED
  BY <1>1, <1>3, <1>4, EndKeeps

(* The check for a running daemon: who passes it beside another instance   *)
(* either overlaps with its start, or is a program that does not ask.      *)
LEMMA CheckKeeps ==
  ASSUME IInv, [Next]_vars, NEW i \in Instances, Check(i)
  PROVE  IInv'
<1> USE DEF goroutines, files, others, Goto
<1>1. TypeOK /\ TypeOK' /\ UNCHANGED <<pidFile, socket, library>>
  BY TypeStep DEF IInv, Check
<1>2. CASE main' = [main EXCEPT ![i] = "refused"] /\ UNCHANGED overlapped
  <2>1. \A j \in Instances : main'[j] = main[j] \/ main'[j] \in Ended
    BY <1>1, <1>2 DEF TypeOK, Ended
  <2> QED
    BY <1>1, <1>2, <2>1, EndKeeps
<1>3. CASE (i \in library \/ ~IsRunning) /\ BeginStart(i)
  <2>1. /\ main' = [main EXCEPT ![i] = "checked"]
        /\ \A j \in Instances : main[j] \in Starting => {i, j} \in overlapped'
        /\ overlapped \subseteq overlapped'
    BY <1>3 DEF BeginStart
  <2>2. overlapped' = {} => overlapped = {} /\ \A j \in Instances : main[j] \notin Starting
    BY <2>1
  <2>3. main'[i] = "checked" /\ \A j \in Instances : j # i => main'[j] = main[j]
    BY <1>1, <2>1 DEF TypeOK
  <2>4. StartsKnown'
    <3>1. ASSUME NEW j \in Instances, NEW k \in Instances, j # k,
                 main'[j] \in Starting, main'[k] \in Starting
          PROVE  {j, k} \in overlapped'
      <4>1. CASE j = i
        BY <2>1, <2>3, <3>1, <4>1
      <4>2. CASE k = i
        <5>1. {j, k} = {i, j}
          BY <4>2
        <5> QED
          BY <2>1, <2>3, <3>1, <4>2, <5>1
      <4>3. CASE j # i /\ k # i
        BY <2>1, <2>3, <3>1, <4>3 DEF IInv, StartsKnown
      <4> QED
        BY <4>1, <4>2, <4>3
    <3>2. ASSUME NEW j \in Instances, main'[j] = "clean"
          PROVE  socket' # NoFile => socket' # j /\ {j, socket'} \in overlapped'
      BY <1>1, <2>1, <2>3, <3>2 DEF IInv, StartsKnown
    <3> QED
      BY <3>1, <3>2 DEF StartsKnown
  <2>5. ASSUME library' = {}, overlapped' = {}
        PROVE  Alone'
    <3>1. Alone /\ ~IsRunning
      BY <1>1, <1>3, <2>2, <2>5 DEF IInv
    <3>2. \A j \in Instances : ~Alive(j)
      <4> SUFFICES ASSUME NEW j \in Instances, Alive(j) PROVE FALSE
        OBVIOUS
      <4>1. main[j] = "serving" /\ pidFile = j
        BY <2>2, <2>5, <3>1 DEF Alone
      <4> QED
        BY <3>1, <4>1, DaemonAssumption DEF IsRunning
    <3>3. \A j \in Instances : Alive(j)' => j = i
      BY <2>3, <3>2 DEF Alive
    <3> QED
      BY <2>3, <3>2, <3>3 DEF Alone, Alive, Starting, Ended
  <2> QED
    BY <1>1, <2>4, <2>5 DEF IInv
<1> QED
  BY <1>2, <1>3 DEF Check

(* Start, its steps: PID file, cleanup, Listen.                            *)
LEMMA StartKeeps ==
  ASSUME IInv, [Next]_vars, NEW i \in Instances, StartSteps(i)
  PROVE  IInv'
<1> USE DEF goroutines, files, others, Goto
<1>1. TypeOK /\ TypeOK' /\ UNCHANGED <<library, overlapped>>
  BY TypeStep DEF IInv, StartSteps, WritePidFile, CleanupSocket, Listen
<1>2. \A j \in Instances : j # i => main'[j] = main[j]
  BY <1>1 DEF TypeOK, StartSteps, WritePidFile, CleanupSocket, Listen
<1>3. main[i] \in Starting /\ Alive(i)
  BY DEF StartSteps, WritePidFile, CleanupSocket, Listen, Starting, Alive, Ended
<1>4. ASSUME Alone
      PROVE  \A j \in Instances : Alive(j)' => j = i
  <2>1. \A j \in Instances : Alive(j) => j = i
    BY <1>3, <1>4 DEF Alone
  <2> QED
    BY <1>2, <2>1 DEF Alive
<1>5. CASE WritePidFile(i)
  <2>1. main[i] = "checked" /\ main'[i] = "pid" /\ pidFile' = i /\ socket' = socket
    BY <1>1, <1>5 DEF WritePidFile, TypeOK
  <2>2. StartsKnown'
    BY <1>1, <1>2, <2>1 DEF IInv, StartsKnown, Starting
  <2>3. Alone => Alone'
    BY <1>2, <1>4, <2>1 DEF Alone, Alive, Starting, Ended
  <2> QED
    BY <1>1, <2>2, <2>3 DEF IInv
<1>6. CASE CleanupSocket(i)
  <2>1. main[i] = "pid" /\ main'[i] = "clean" /\ pidFile' = pidFile /\ socket' = NoFile
    BY <1>1, <1>6 DEF CleanupSocket, TypeOK
  <2>2. StartsKnown'
    BY <1>1, <1>2, <2>1 DEF IInv, StartsKnown, Starting
  <2>3. Alone => Alone'
    BY <1>2, <1>4, <2>1 DEF Alone, Alive, Starting, Ended
  <2> QED
    BY <1>1, <2>2, <2>3 DEF IInv
<1>7. ASSUME NEW enableHTTP \in BOOLEAN, Listen(i, enableHTTP)
      PROVE  IInv'
  <2>1. CASE main' = [main EXCEPT ![i] = "failed"] /\ UNCHANGED <<pidFile, socket>>
    <3>1. \A j \in Instances : main'[j] = main[j] \/ main'[j] \in Ended
      BY <1>1, <2>1 DEF TypeOK, Ended
    <3> QED
      BY <1>1, <2>1, <3>1, EndKeeps
  <2>2. CASE main' = [main EXCEPT ![i] = "serving"] /\ socket' = i
    <3>1. main[i] = "clean" /\ main'[i] = "serving" /\ pidFile' = pidFile
      BY <1>1, <1>7, <2>2 DEF Listen, TypeOK
    <3>2. StartsKnown'
      <4>1. \A j, k \in Instances :
              main'[j] \in Starting /\ main'[k] \in Starting /\ j # k => {j, k} \in overlapped'
        BY <1>1, <1>2, <3>1 DEF IInv, StartsKnown, Starting
      <4>2. ASSUME NEW j \in Instances, main'[j] = "clean"
            PROVE  socket' # j /\ {j, socket'} \in overlapped'
        <5>1. j # i /\ main[j] = "clean"
          BY <1>2, <3>1, <4>2
        <5> QED
          BY <1>1, <1>3, <2>2, <5>1 DEF IInv, StartsKnown, Starting
      <4> QED
        BY <4>1, <4>2 DEF StartsKnown
    <3>3. Alone => Alone'
      BY <1>2, <1>4, <2>2, <3>1 DEF Alone, Alive, Starting, Ended
    <3> QED
      BY <1>1, <3>2, <3>3 DEF IInv
  <2> QED
    BY <1>7, <2>1, <2>2 DEF Listen
<1> QED
  BY <1>5, <1>6, <1>7 DEF StartSteps

(* Stop and Close: only programs that use the package call them, and they  *)
(* leave the instances that start alone, except that they may remove a     *)
(* socket.                                                                 *)
LEMMA ShutdownKeeps ==
  ASSUME IInv, [Next]_vars, NEW i \in Instances,
         \/ StopCancel(i) \/ Stop(i)
         \/ CloseCancel(i) \/ CloseListener(i) \/ CloseWait(i)
  PROVE  IInv'
<1> USE DEF goroutines, files, others, Goto
<1>1. TypeOK /\ TypeOK' /\ UNCHANGED <<library, overlapped>>
  BY TypeStep DEF IInv, StopCancel, Stop, CloseCancel, CloseListener, CloseWait, StopListener,
     StopPool, StopHTTP, StopWait, StopCleanupSocket, StopRemovePidFile
<1>2. /\ i \in library \/ main[i] \notin Starting \cup {"serving"}
      /\ main[i] \notin Starting /\ main'[i] \notin Starting
      /\ Alive(i)
      /\ \A j \in Instances : j # i => main'[j] = main[j]
      /\ socket' = socket \/ socket' = NoFile
  BY <1>1 DEF TypeOK, Starting, Alive, Ended, StopCancel, Stop, CloseCancel, CloseListener,
     CloseWait, StopListener, StopPool, StopHTTP, StopWait, StopCleanupSocket, StopRemovePidFile
<1>3. StartsKnown'
  BY <1>1, <1>2 DEF IInv, StartsKnown, Starting
<1>4. library = {} => ~Alone
  BY <1>2 DEF Alone
<1> QED
  BY <1>1, <1>3, <1>4 DEF IInv

(* The inductive invariant holds in every state.                           *)
THEOREM InductiveInvariant == Spec => []IInv
<1>1. IInv /\ [Next]_vars => IInv'
  BY CheckKeeps, StartKeeps, EndSteps, ShutdownKeeps DEF Next
<1> QED
  BY <1>1, InitIInv, PTL DEF Spec

-----------------------------------------------------------------------------
(* Any number of patienced processes, started one after another and ended  *)
(* in any way, crashes included: who serves owns the PID file and the      *)
(* socket and is alone (IsRunning, Start).                                 *)
THEOREM SerialStartsExclude == Spec => []SerialStartsAreExclusive
<1>1. IInv => SerialStartsAreExclusive
  <2> SUFFICES ASSUME IInv, library = {}, overlapped = {},
                      NEW i \in Instances, main[i] = "serving"
               PROVE  pidFile = i /\ socket = i /\ \A j \in Instances : Alive(j) => j = i
    BY DEF SerialStartsAreExclusive, IInv
  <2>1. Alone /\ Alive(i)
    BY DEF IInv, Alive, Ended
  <2> QED
    BY <2>1 DEF Alone
<1> QED
  BY <1>1, InductiveInvariant, PTL

(* Whatever crashes and shutdowns left behind, Start fails only because of *)
(* a socket made by an instance, dead or alive, whose own start overlapped *)
(* with it (cleanupSocket, net.Listen) - programs that use the package     *)
(* included.                                                               *)
THEOREM StartFailsOnlyInRaces == Spec => OnlyRacesFailStart
<1> DEFINE Raced == \A i \in Instances :
                      main[i] # "failed" /\ main'[i] = "failed" =>
                        socket # i /\ {i, socket} \in overlapped
<1>1. ASSUME IInv, [Next]_vars, NEW i \in Instances,
             main[i] # "failed", main'[i] = "failed"
      PROVE  socket # i /\ {i, socket} \in overlapped
  <2> USE DEF goroutines, files, others, Goto
  <2>1. main \in [Instances -> MainStates]
    BY <1>1 DEF IInv, TypeOK
  <2>2. \E enableHTTP \in BOOLEAN : Listen(i, enableHTTP)
    <3>1. ASSUME NEW j \in Instances, SignalEffect(j) PROVE main'[i] # "failed"
      BY <1>1, <2>1, <3>1 DEF SignalEffect
    <3>2. ~StopCmdCheck /\ ~StopCmdSignal /\ ~UNCHANGED vars
      BY <1>1, <2>1, <3>1 DEF StopCmdCheck, StopCmdSignal, vars, IInv, TypeOK
    <3>3. ASSUME NEW j \in Instances
          PROVE  /\ ~Check(j) /\ ~WritePidFile(j) /\ ~CleanupSocket(j)
                 /\ ~Signal(j) /\ ~Kill(j) /\ ~ReusePid(j) /\ ~Goroutines(j)
                 /\ ~MainReturns(j)
      BY <1>1, <2>1, <3>1
      DEF Check, BeginStart, WritePidFile, CleanupSocket, Signal, Kill, ReusePid, Goroutines,
          MainReturns, SignalReturns, AcceptReturns, HTTPRequest, HTTPRequestEnds,
          HTTPShutdown, HTTPReturns, HTTPFails
    <3>4. ASSUME NEW j \in Instances
          PROVE  /\ ~StopCancel(j) /\ ~Stop(j)
                 /\ ~CloseCancel(j) /\ ~CloseListener(j) /\ ~CloseWait(j)
      BY <1>1, <2>1
      DEF StopCancel, Stop, CloseCancel, CloseListener, CloseWait, StopListener, StopPool,
          StopHTTP, StopWait, StopCleanupSocket, StopRemovePidFile
    <3>5. PICK j \in Instances : \E enableHTTP \in BOOLEAN : Listen(j, enableHTTP)
      BY <1>1, <3>2, <3>3, <3>4 DEF Next, StartSteps
    <3>6. j = i
      BY <1>1, <2>1, <3>5 DEF Listen
    <3> QED
      BY <3>5, <3>6
  <2>3. main[i] = "clean" /\ socket # NoFile
    BY <1>1, <2>1, <2>2 DEF Listen
  <2> QED
    BY <1>1, <2>3 DEF IInv, StartsKnown
<1>2. IInv /\ [Next]_vars => [Raced]_vars
  BY <1>1
<1> QED
  BY <1>2, InductiveInvariant, PTL DEF Spec, OnlyRacesFailStart
=============================================================================
