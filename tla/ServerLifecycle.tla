------------------------------ MODULE ServerLifecycle ------------------------------
(****************************************************************************)
(* One run of the server process: main opens the store, recovers, starts    *)
(* the two scheduler loops and serves requests until a signal cancels the   *)
(* root context or the listener fails, and then takes it all down in the    *)
(* reverse order.  The loops and the handlers run beside it; statements of  *)
(* a cancelled context fail.  What a tick, the recovery or a handler does   *)
(* to the rows is the business of the other modules.                        *)
(****************************************************************************)
EXTENDS Naturals

CONSTANTS
  Loops,     \* the scheduler's loops: the poller and the escalator
  Requests   \* requests that may be in flight at the same time

VARIABLES
  main,        \* where main is
  recovers,    \* configuration: RecoveryOnStart
  signalled,   \* the root context is cancelled
  store,       \* the database handle, and whether its schema is applied
  loop,        \* what each loop is doing
  started,     \* Scheduler.started
  cancelled,   \* Scheduler.cancel was called
  listener,    \* the HTTP listener
  request      \* what each request is doing, and whether it is well so far

vars == <<main, recovers, signalled, store, loop, started, cancelled, listener, request>>

Gone == [pc |-> "none", ok |-> TRUE]
InFlight(r) == request[r].pc \in {"work", "ping", "scheduler", "schema"}
Cancelled == signalled \/ cancelled

Init ==
  /\ main = "open"
  /\ recovers \in BOOLEAN
  /\ signalled = FALSE
  /\ store = "closed"
  /\ loop = [l \in Loops |-> "none"]
  /\ started = FALSE /\ cancelled = FALSE
  /\ listener = "none"
  /\ request = [r \in Requests |-> Gone]

--------------------------------------------------------------------------------
(* main.                                                                    *)

(* os.Exit: deferred calls are skipped, and everything else dies with main. *)
Fatal ==
  /\ main' = "exited"
  /\ loop' = [l \in Loops |-> "none"]
  /\ request' = [r \in Requests |-> Gone]
  /\ UNCHANGED <<recovers, signalled, store, started, cancelled, listener>>

New ==
  /\ main = "open"
  /\ \/ main' = "migrate" /\ store' = "open"
        /\ UNCHANGED <<recovers, signalled, loop, started, cancelled, listener, request>>
     \/ Fatal

(* With the root context cancelled the statements fail.                     *)
Migrate ==
  /\ main = "migrate"
  /\ \/ /\ ~signalled
        /\ main' = IF recovers THEN "recover" ELSE "start"
        /\ store' = "migrated"
        /\ UNCHANGED <<recovers, signalled, loop, started, cancelled, listener, request>>
     \/ Fatal

(* The pass over batches and orders ends, with errors or without.           *)
Recover ==
  /\ main = "recover"
  /\ main' = "start"
  /\ UNCHANGED <<recovers, signalled, store, loop, started, cancelled, listener, request>>

(* Mutant: the loops are started before the recovery.                       *)
StartFirst ==
  /\ main \in {"recover", "start"}
  /\ main' = IF main = "recover" THEN "recover" ELSE "serve"
  /\ started' = TRUE
  /\ loop' = IF started THEN loop ELSE [l \in Loops |-> "idle"]
  /\ listener' = IF main = "recover" THEN listener ELSE "starting"
  /\ UNCHANGED <<recovers, signalled, store, cancelled, request>>

Start ==
  /\ main = "start"
  /\ main' = "serve"
  /\ started' = TRUE
  /\ loop' = [l \in Loops |-> "idle"]
  /\ listener' = "starting"
  /\ UNCHANGED <<recovers, signalled, store, cancelled, request>>

(* Mutant: the listener's error goes unheard.                               *)
RunUntilDone ==
  /\ main = "serve"
  /\ signalled
  /\ main' = "shutdown"
  /\ UNCHANGED <<recovers, signalled, store, loop, started, cancelled, listener, request>>

(* Run returns when the context is done, or the listener has failed.  With  *)
(* both either may be noticed; main keeps the error for later.              *)
Run ==
  /\ main = "serve"
  /\ \/ signalled /\ main' = "shutdown"
     \/ listener = "failed" /\ main' = "shutdown_error"
  /\ UNCHANGED <<recovers, signalled, store, loop, started, cancelled, listener, request>>

Shutting == main \in {"shutdown", "shutdown_error"} /\ listener = "closed"

(* The listener is closed, and no request comes in any more.                *)
Shutdown ==
  /\ main \in {"shutdown", "shutdown_error"} /\ ~Shutting
  /\ listener' = "closed"
  /\ UNCHANGED <<main, recovers, signalled, store, loop, started, cancelled, request>>

(* The requests are done, or the timeout is over.  An error of Run is fatal *)
(* only now.                                                                *)
ShutdownReturns ==
  /\ Shutting
  /\ IF main = "shutdown_error" THEN Fatal
     ELSE /\ main' = IF \E r \in Requests : InFlight(r) THEN "stop_late" ELSE "stop"
          /\ UNCHANGED <<recovers, signalled, store, loop, started, cancelled, listener, request>>

(* Mutant: the deferred calls in the order they were written.               *)
CloseFirst ==
  /\ main \in {"stop", "stop_late"} /\ ~cancelled
  /\ started' = FALSE /\ cancelled' = TRUE /\ store' = "closed"
  /\ UNCHANGED <<main, recovers, signalled, loop, listener, request>>

(* The deferred Scheduler.Stop, and the wait for the loops.                 *)
Stop ==
  /\ main \in {"stop", "stop_late"} /\ ~cancelled
  /\ started' = FALSE /\ cancelled' = TRUE
  /\ UNCHANGED <<main, recovers, signalled, store, loop, listener, request>>

(* The loops are drained: the store is closed after them, and the process   *)
(* ends.                                                                    *)
Drained ==
  /\ main \in {"stop", "stop_late"} /\ cancelled
  /\ \A l \in Loops : loop[l] = "gone"
  /\ main' = IF main = "stop" THEN "close" ELSE "close_late"
  /\ store' = "closed"
  /\ UNCHANGED <<recovers, signalled, loop, started, cancelled, listener, request>>

Exit ==
  /\ main \in {"close", "close_late"}
  /\ Fatal

Main ==
  \/ New \/ Migrate \/ Recover \/ Start \/ Run \/ Shutdown \/ ShutdownReturns
  \/ Stop \/ Drained \/ Exit

--------------------------------------------------------------------------------
(* Beside main.                                                             *)

(* ListenAndServe, in a goroutine of its own; after Shutdown it gives up.   *)
Listen ==
  /\ listener = "starting" /\ main # "exited"
  /\ listener' \in {"listening", "failed"}
  /\ UNCHANGED <<main, recovers, signalled, store, loop, started, cancelled, request>>

(* Accepting fails later on.                                                *)
ListenerFails ==
  /\ listener = "listening" /\ main = "serve"
  /\ listener' = "failed"
  /\ UNCHANGED <<main, recovers, signalled, store, loop, started, cancelled, request>>

(* The ticker fires.                                                        *)
Tick(l) ==
  /\ loop[l] = "idle"
  /\ loop' = [loop EXCEPT ![l] = "tick"]
  /\ UNCHANGED <<main, recovers, signalled, store, started, cancelled, listener, request>>

TickEnds(l) ==
  /\ loop[l] = "tick"
  /\ loop' = [loop EXCEPT ![l] = "idle"]
  /\ UNCHANGED <<main, recovers, signalled, store, started, cancelled, listener, request>>

LoopStops(l) ==
  /\ loop[l] = "idle" /\ Cancelled
  /\ loop' = [loop EXCEPT ![l] = "gone"]
  /\ UNCHANGED <<main, recovers, signalled, store, started, cancelled, listener, request>>

(* A signal cancels the root context, and with it every request's.          *)
Signal ==
  /\ ~signalled /\ main # "exited"
  /\ signalled' = TRUE
  /\ UNCHANGED <<main, recovers, store, loop, started, cancelled, listener, request>>

--------------------------------------------------------------------------------
(* Requests.                                                                *)

To(r, pc) == request' = [request EXCEPT ![r].pc = pc]

Accept(r) ==
  /\ listener = "listening" /\ ~InFlight(r)
  /\ \E pc \in {"work", "ping"} : request' = [request EXCEPT ![r] = [pc |-> pc, ok |-> TRUE]]
  /\ UNCHANGED <<main, recovers, signalled, store, loop, started, cancelled, listener>>

(* Any other handler ends when it ends.                                     *)
HandlerEnds(r) ==
  /\ request[r].pc = "work"
  /\ To(r, "none")
  /\ UNCHANGED <<main, recovers, signalled, store, loop, started, cancelled, listener>>

(* A statement with the request's context.                                  *)
Statement == ~signalled /\ store # "closed"

Check(r, ok, pc) ==
  request' = [request EXCEPT ![r] = [pc |-> pc, ok |-> request[r].ok /\ ok]]

(* readyz: the database and the data directory ...                          *)
DBPing(r) ==
  /\ request[r].pc = "ping"
  /\ \E ok \in {Statement, FALSE} : Check(r, ok, "scheduler")
  /\ UNCHANGED <<main, recovers, signalled, store, loop, started, cancelled, listener>>

(* ... then Scheduler.Ready ...                                             *)
Ready(r) ==
  /\ request[r].pc = "scheduler"
  /\ Check(r, started, "schema")
  /\ UNCHANGED <<main, recovers, signalled, store, loop, started, cancelled, listener>>

(* Mutant: the version is kept from the start.                              *)
SchemaVersionKept(r) ==
  /\ request[r].pc = "schema"
  /\ To(r, IF request[r].ok THEN "ready" ELSE "not_ready")
  /\ UNCHANGED <<main, recovers, signalled, store, loop, started, cancelled, listener>>

(* ... and last the schema, which settles the answer; that it is written    *)
(* later is left out, as nothing it says is looked at again.                *)
SchemaVersion(r) ==
  /\ request[r].pc = "schema"
  /\ \E ok \in {Statement /\ store = "migrated", FALSE} :
       To(r, IF request[r].ok /\ ok THEN "ready" ELSE "not_ready")
  /\ UNCHANGED <<main, recovers, signalled, store, loop, started, cancelled, listener>>

Next ==
  \/ Main \/ Listen \/ ListenerFails \/ Signal
  \/ \E l \in Loops : Tick(l) \/ TickEnds(l) \/ LoopStops(l)
  \/ \E r \in Requests : Accept(r) \/ HandlerEnds(r) \/ DBPing(r) \/ Ready(r) \/ SchemaVersion(r)

Spec == Init /\ [][Next]_vars

(* main goes on, ticks end, and a loop that finds its context done again    *)
(* and again leaves, as select picks among its ready cases at random.       *)
(* Shutdown's timeout is ShutdownReturns with requests in flight.           *)
Fairness ==
  /\ WF_vars(Main) /\ WF_vars(Listen)
  /\ \A l \in Loops : WF_vars(TickEnds(l)) /\ SF_vars(LoopStops(l))

FairSpec == Spec /\ Fairness

--------------------------------------------------------------------------------
(* Types of the process's parts.                                            *)
TypeOK ==
  /\ main \in {"open", "migrate", "recover", "start", "serve", "shutdown", "shutdown_error",
               "stop", "stop_late", "close", "close_late", "exited"}
  /\ recovers \in BOOLEAN /\ signalled \in BOOLEAN /\ started \in BOOLEAN /\ cancelled \in BOOLEAN
  /\ store \in {"closed", "open", "migrated"}
  /\ loop \in [Loops -> {"none", "idle", "tick", "gone"}]
  /\ listener \in {"none", "starting", "listening", "failed", "closed"}
  /\ request \in [Requests -> [pc : {"none", "work", "ping", "scheduler", "schema", "ready",
                                     "not_ready"}, ok : BOOLEAN]]

(* Nobody else works on the rows while the recovery does (main.go:65-72).   *)
RecoveryIsAlone ==
  main \in {"migrate", "recover"} =>
    /\ \A l \in Loops : loop[l] = "none"
    /\ \A r \in Requests : ~InFlight(r)

(* The store is closed after its last user, except requests that have       *)
(* outlasted the shutdown timeout, whose context is done (main.go:47-89).   *)
StoreOutlivesUsers ==
  store = "closed" =>
    /\ \A l \in Loops : loop[l] # "tick"
    /\ \A r \in Requests : InFlight(r) => main = "close_late" /\ signalled

(* Ready is answered only while the loops run over an open, migrated store: *)
(* Scheduler.Ready alone stays true after the signal that ends the loops    *)
(* (health.go:17-45, scheduler.go:99-103).                                  *)
ReadyMeansRunning ==
  [][\A r \in Requests :
       request'[r].pc = "ready" /\ request[r].pc # "ready" =>
         /\ store = "migrated" /\ ~signalled
         /\ \A l \in Loops : loop[l] \in {"idle", "tick"}]_vars

(* After a signal, or when the listener fails, the process ends, whatever   *)
(* handlers hang (main.go:84-94, scheduler.go:84-96).                       *)
ProcessEnds == (signalled \/ listener = "failed") ~> (main = "exited")
================================================================================
