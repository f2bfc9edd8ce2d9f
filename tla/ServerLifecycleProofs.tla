--------------------------- MODULE ServerLifecycleProofs ---------------------------
(****************************************************************************)
(* The safety of ServerLifecycle, for any number of loops and requests.     *)
(* InOrder says how far the process is: what may be there before main       *)
(* serves, what is there while it serves, and what is left once it stops.   *)
(****************************************************************************)
EXTENDS ServerLifecycle, TLAPS

Before == {"open", "migrate", "recover", "start"}
Serving == {"serve", "shutdown", "shutdown_error"}
Ending == {"stop", "stop_late", "close", "close_late"}

(* Nothing runs beside main.                                                *)
Alone == (\A l \in Loops : loop[l] = "none") /\ (\A r \in Requests : ~InFlight(r))

(* The store goes from closed to open to migrated, and is closed last.      *)
StoreInOrder ==
  /\ store = "closed" => main \in {"open", "close", "close_late", "exited"}
  /\ main \in {"recover", "start", "stop", "stop_late"} \cup Serving => store = "migrated"

(* The listener is there while main serves, and closed when it stops.       *)
ListenerInOrder ==
  /\ main \in Before => listener = "none"
  /\ main \in Ending => listener = "closed"
  /\ main = "exited" => listener \in {"none", "closed"}

(* The loops leave when their context is done; main stops on a signal.      *)
LoopsInOrder ==
  /\ main \in Serving \cup Ending => \A l \in Loops : loop[l] # "none"
  /\ main \in {"close", "close_late"} => \A l \in Loops : loop[l] = "gone"
  /\ \A l \in Loops : loop[l] = "gone" => signalled
  /\ main \in {"shutdown"} \cup Ending => signalled
  /\ cancelled => signalled

InOrder ==
  /\ TypeOK
  /\ main \in Before \cup {"exited"} => Alone
  /\ main \in {"stop", "close"} => \A r \in Requests : ~InFlight(r)
  /\ StoreInOrder /\ ListenerInOrder /\ LoopsInOrder

--------------------------------------------------------------------------------
(* The first state is in order.                                             *)
LEMMA InitInOrder == Init => InOrder
<1> SUFFICES ASSUME Init PROVE InOrder
  OBVIOUS
<1>1. /\ main = "open" /\ store = "closed" /\ listener = "none"
      /\ signalled = FALSE /\ started = FALSE /\ cancelled = FALSE /\ recovers \in BOOLEAN
  BY DEF Init
<1>2. Gone \in [pc : {"none"}, ok : BOOLEAN] /\ Gone.pc = "none"
  BY DEF Gone
<1>3. request \in [Requests -> [pc : {"none"}, ok : BOOLEAN]]
  BY <1>2 DEF Init
<1>4. Alone
  BY <1>3 DEF Init, Alone, InFlight
<1>5. TypeOK
  BY <1>1, <1>3 DEF Init, TypeOK
<1>6. StoreInOrder /\ ListenerInOrder
  BY <1>1 DEF StoreInOrder, ListenerInOrder, Before, Serving, Ending
<1>7. LoopsInOrder
  <2>1. ~signalled /\ ~cancelled
    BY <1>1
  <2>2. \A l \in Loops : loop[l] # "gone"
    BY <1>4 DEF Alone
  <2> QED BY <1>1, <2>1, <2>2 DEF LoopsInOrder, Serving, Ending
<1> QED BY <1>1, <1>4, <1>5, <1>6, <1>7 DEF InOrder

(* A death of the process leaves nothing behind (main.go:90-94).            *)
LEMMA FatalInOrder ==
  ASSUME InOrder, Fatal, listener \in {"none", "closed"}
  PROVE  InOrder'
BY DEF Fatal, InOrder, TypeOK, Alone, InFlight, Gone, Before, Serving, Ending,
       StoreInOrder, ListenerInOrder, LoopsInOrder

(* What main does keeps the order.                                          *)
LEMMA MainInOrder == ASSUME InOrder, Main PROVE InOrder'
<1> USE DEF InOrder, TypeOK, Alone, Before, Serving, Ending, StoreInOrder,
            ListenerInOrder, LoopsInOrder
<1>1. CASE Fatal /\ listener \in {"none", "closed"}
  BY <1>1, FatalInOrder
<1>2. CASE New BY <1>1, <1>2 DEF New, InFlight
<1>3. CASE Migrate BY <1>1, <1>3 DEF Migrate, InFlight
<1>4. CASE Recover BY <1>4 DEF Recover, InFlight
<1>5. CASE Start BY <1>5 DEF Start, InFlight
<1>6. CASE Run BY <1>6 DEF Run, InFlight
<1>7. CASE Shutdown BY <1>7 DEF Shutdown, Shutting, InFlight
<1>8. CASE ShutdownReturns BY <1>1, <1>8 DEF ShutdownReturns, Shutting, InFlight
<1>9. CASE Stop BY <1>9 DEF Stop, InFlight
<1>10. CASE Drained BY <1>10 DEF Drained, InFlight
<1>11. CASE Exit BY <1>1, <1>11 DEF Exit
<1> QED BY <1>2, <1>3, <1>4, <1>5, <1>6, <1>7, <1>8, <1>9, <1>10, <1>11 DEF Main

(* What the listener and the signal do keeps it.                            *)
LEMMA OutsideInOrder == ASSUME InOrder, Listen \/ ListenerFails \/ Signal PROVE InOrder'
<1> USE DEF InOrder, TypeOK, Alone, InFlight, Before, Serving, Ending, StoreInOrder,
            ListenerInOrder, LoopsInOrder
<1>1. CASE Listen BY <1>1 DEF Listen
<1>2. CASE ListenerFails BY <1>2 DEF ListenerFails
<1>3. CASE Signal BY <1>3 DEF Signal
<1> QED BY <1>1, <1>2, <1>3

(* What a loop does keeps it.                                               *)
LEMMA LoopInOrder ==
  ASSUME InOrder, NEW l \in Loops, Tick(l) \/ TickEnds(l) \/ LoopStops(l)
  PROVE  InOrder'
<1> USE DEF InOrder, TypeOK, Alone, InFlight, Before, Serving, Ending, StoreInOrder,
            ListenerInOrder, LoopsInOrder
<1>1. CASE Tick(l) BY <1>1 DEF Tick
<1>2. CASE TickEnds(l) BY <1>2 DEF TickEnds
<1>3. CASE LoopStops(l) BY <1>3 DEF LoopStops, Cancelled
<1> QED BY <1>1, <1>2, <1>3

(* A request in flight that goes on changes nothing but itself.             *)
LEMMA RequestInOrder ==
  ASSUME InOrder, NEW r \in Requests,
         Accept(r) \/ HandlerEnds(r) \/ DBPing(r) \/ Ready(r) \/ SchemaVersion(r)
  PROVE  InOrder'
<1>1. /\ TypeOK'
      /\ main \notin Before \cup {"exited", "stop", "close"}
  <2> USE DEF InOrder, TypeOK, Alone, InFlight, Before, Serving, Ending, ListenerInOrder
  <2>1. CASE Accept(r) BY <2>1 DEF Accept
  <2>2. CASE HandlerEnds(r) BY <2>2 DEF HandlerEnds, To
  <2>3. CASE DBPing(r) BY <2>3 DEF DBPing, Check, Statement
  <2>4. CASE Ready(r) BY <2>4 DEF Ready, Check
  <2>5. CASE SchemaVersion(r) BY <2>5 DEF SchemaVersion, To
  <2> QED BY <2>1, <2>2, <2>3, <2>4, <2>5
<1>2. UNCHANGED <<main, recovers, signalled, store, loop, started, cancelled, listener>>
  BY DEF Accept, HandlerEnds, DBPing, Ready, SchemaVersion
<1> QED BY <1>1, <1>2 DEF InOrder, Alone, StoreInOrder, ListenerInOrder, LoopsInOrder,
                          Before, Serving, Ending

(* A step of nobody keeps it.                                               *)
LEMMA IdleInOrder == ASSUME InOrder, UNCHANGED vars PROVE InOrder'
BY DEF vars, InOrder, TypeOK, Alone, InFlight, StoreInOrder, ListenerInOrder, LoopsInOrder

(* No step leaves the order.                                                *)
LEMMA StepInOrder == ASSUME InOrder, [Next]_vars PROVE InOrder'
BY MainInOrder, OutsideInOrder, LoopInOrder, RequestInOrder, IdleInOrder DEF Next

(* The process is always in order.                                          *)
THEOREM AlwaysInOrder == Spec => []InOrder
<1>1. InOrder /\ [Next]_vars => InOrder'
  BY StepInOrder
<1> QED BY InitInOrder, <1>1, PTL DEF Spec

--------------------------------------------------------------------------------
(* The parts of the process keep their types.                               *)
THEOREM TypeCorrect == Spec => []TypeOK
<1>1. InOrder => TypeOK
  BY DEF InOrder
<1> QED BY AlwaysInOrder, <1>1, PTL

(* Nobody else works on the rows while the recovery does (main.go:65-72).   *)
THEOREM RecoversAlone == Spec => []RecoveryIsAlone
<1>1. InOrder => RecoveryIsAlone
  BY DEF InOrder, Alone, Before, RecoveryIsAlone
<1> QED BY AlwaysInOrder, <1>1, PTL

(* The store is closed after its last user (main.go:47-89).                 *)
THEOREM StoreClosedLast == Spec => []StoreOutlivesUsers
<1>1. InOrder => StoreOutlivesUsers
  BY DEF InOrder, Alone, Before, Serving, Ending, StoreInOrder, LoopsInOrder,
         StoreOutlivesUsers
<1> QED BY AlwaysInOrder, <1>1, PTL

(* readyz says ready only while the loops run over a migrated store, though *)
(* Scheduler.Ready outlasts them (health.go:17-45, scheduler.go:99-103).    *)
THEOREM ReadyIsTrue == Spec => ReadyMeansRunning
<1>1. ASSUME InOrder, [Next]_vars, NEW r \in Requests,
             request'[r].pc = "ready", request[r].pc # "ready"
      PROVE  store = "migrated" /\ ~signalled /\ \A l \in Loops : loop[l] \in {"idle", "tick"}
  <2>1. SchemaVersion(r) /\ Statement /\ store = "migrated"
    <3>1. ~Main /\ request' # request
      <4>1. Fatal => request'[r].pc = "none"
        BY DEF Fatal, Gone
      <4> QED BY <1>1, <4>1 DEF Main, New, Migrate, Recover, Start, Run, Shutdown,
                 ShutdownReturns, Stop, Drained, Exit
    <3>2. PICK q \in Requests :
            Accept(q) \/ HandlerEnds(q) \/ DBPing(q) \/ Ready(q) \/ SchemaVersion(q)
      BY <1>1, <3>1 DEF Next, vars, Listen, ListenerFails, Signal, Tick, TickEnds, LoopStops
    <3>3. request \in [Requests -> [pc : {"none", "work", "ping", "scheduler", "schema",
                                           "ready", "not_ready"}, ok : BOOLEAN]]
      BY <1>1 DEF InOrder, TypeOK
    <3>4. q = r
      BY <1>1, <3>2, <3>3 DEF Accept, HandlerEnds, DBPing, Ready, SchemaVersion, Check, To
    <3>5. SchemaVersion(r)
      BY <1>1, <3>2, <3>3, <3>4 DEF Accept, HandlerEnds, DBPing, Ready, Check, To
    <3> QED BY <1>1, <3>3, <3>5 DEF SchemaVersion, To
  <2>2. ~signalled /\ InFlight(r)
    BY <2>1 DEF Statement, SchemaVersion, InFlight
  <2>3. main \in Serving
    BY <1>1, <2>2 DEF InOrder, TypeOK, Alone, Before, Serving, Ending, LoopsInOrder
  <2> QED BY <1>1, <2>1, <2>2, <2>3 DEF InOrder, TypeOK, LoopsInOrder, Serving, Ending
<1>2. InOrder /\ [Next]_vars =>
        [\A r \in Requests :
           request'[r].pc = "ready" /\ request[r].pc # "ready" =>
             /\ store = "migrated" /\ ~signalled
             /\ \A l \in Loops : loop[l] \in {"idle", "tick"}]_vars
  BY <1>1
<1> QED BY AlwaysInOrder, <1>2, PTL DEF Spec, ReadyMeansRunning
================================================================================
