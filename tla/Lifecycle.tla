------------------------------ MODULE Lifecycle ------------------------------
(***************************************************************************)
(* run() of cmd/main.go: the main goroutine brings up what the service needs, *)
(* serves, and on its way out runs the deferred calls; a second goroutine     *)
(* waits for the context to be done, shuts the server down and closes the     *)
(* publisher; handlers run in goroutines of the server.                       *)
(*                                                                         *)
(* Two contexts have the name ctx: the one of signal.NotifyContext, and the   *)
(* one of context.WithCancel(context.Background()) that takes its name before *)
(* the second goroutine is started.                                           *)
(*                                                                         *)
(* The build tag gcloud exchanges the publisher, the providers and            *)
(* PubSub.Validate; both builds are here.                                     *)
(***************************************************************************)
EXTENDS Naturals, Sequences

CONSTANT MaxInFlight    \* bound: requests being handled at a time

ASSUME MaxInFlightAssumption == MaxInFlight \in Nat \ {0}

VARIABLES
    pc,          \* the call the main goroutine is about to make
    deferred,    \* its deferred calls, the last one first
    status,      \* what run() returns: 0 for nil, 1 for an error
    signalled,   \* the context of signal.NotifyContext is done
    cancelled,   \* the context of context.WithCancel is done
    watcher,     \* the second goroutine
    server,      \* "none", "listening", "failed", or "shutdown"
    inFlight,    \* handlers running
    tracer, meter,        \* the two providers: "none", "open" or "closed"
    db,                   \* the same
    conn,                 \* the same: the connection the NATS publisher is set up with
    publisher,            \* the same, or "nil" for no publisher
    closeOnce,   \* closePublisherOnce has run its function
    closes,      \* how often publisher.Close was called
    gcloud,      \* the build has the tag gcloud
    failedAt     \* history: the step of the start-up that failed

vars == <<pc, deferred, status, signalled, cancelled, watcher, server, inFlight,
          tracer, meter, db, conn, publisher, closeOnce, closes, gcloud, failedAt>>

heldVars == <<tracer, meter, db, conn, gcloud>>
closeVars == <<publisher, closeOnce, closes>>

Startup == {"NotifyContext", "tracing.NewProvider", "metrics.NewProvider", "config.Load",
            "PubSub.Validate", "gorm.Open", "db.Use", "db.DB", "initPublisher",
            "CreateOrUpdateStream"}

Over == {"exited", "killed"}

-----------------------------------------------------------------------------

Init ==
    /\ pc = "NotifyContext"
    /\ deferred = <<>>
    /\ status = 0
    /\ signalled = FALSE
    /\ cancelled = FALSE
    /\ watcher = "none"
    /\ server = "none"
    /\ inFlight = 0
    /\ tracer = "none" /\ meter = "none" /\ db = "none"
    /\ conn = "none" /\ publisher = "none"
    /\ closeOnce = FALSE
    /\ closes = 0
    /\ gcloud \in BOOLEAN
    /\ failedAt = "nowhere"

\* The step at `here` succeeds: what it defers is what run() defers after it.
Continue(here, next, defers) ==
    /\ pc = here
    /\ pc' = next
    /\ deferred' = defers \o deferred
    /\ UNCHANGED <<status, signalled, cancelled, inFlight, closeOnce, closes, failedAt>>

NotifyContext ==
    /\ Continue("NotifyContext", "tracing.NewProvider", <<"stop">>)
    /\ UNCHANGED <<watcher, server, heldVars, publisher>>

\* observability.Init: the tracer provider, then the meter provider.
NewTracerProvider ==
    /\ Continue("tracing.NewProvider", "metrics.NewProvider", <<>>)
    /\ tracer' = "open"
    /\ UNCHANGED <<watcher, server, meter, db, conn, gcloud, publisher>>

NewMeterProvider ==
    /\ Continue("metrics.NewProvider", "config.Load", <<"obs.Shutdown">>)
    /\ meter' = "open"
    /\ UNCHANGED <<watcher, server, tracer, db, conn, gcloud, publisher>>

LoadConfig ==
    /\ Continue("config.Load", "PubSub.Validate", <<>>)
    /\ UNCHANGED <<watcher, server, heldVars, publisher>>

\* Then context.WithCancel.
ValidatePubSub ==
    /\ Continue("PubSub.Validate", "gorm.Open", <<"cancel">>)
    /\ UNCHANGED <<watcher, server, heldVars, publisher>>

\* initDatabase: the pool is open, and then given its plugin and its limits.
OpenDatabase ==
    /\ Continue("gorm.Open", "db.Use", <<>>)
    /\ db' = "open"
    /\ UNCHANGED <<watcher, server, tracer, meter, conn, gcloud, publisher>>

ConfigureDatabase ==
    /\ Continue("db.Use", "db.DB", <<>>)
    /\ UNCHANGED <<watcher, server, heldVars, publisher>>

GetSQLDB ==
    /\ Continue("db.DB", "initPublisher", <<"sqlDB.Close">>)
    /\ UNCHANGED <<watcher, server, heldVars, publisher>>

\* run() goes on with this publisher: the second goroutine is started and the
\* server begins to listen.
ServeWith(here, pub) ==
    /\ Continue(here, "ListenAndServe", <<"closePublisher">>)
    /\ publisher' = pub
    /\ watcher' = "waiting"
    /\ server' = "listening"
    /\ UNCHANGED <<tracer, meter, db, gcloud>>

\* Mutant: a nil *NATSPublisher comes back in a Publisher that is not nil.
NoPublisherTyped == ~gcloud /\ ServeWith("initPublisher", "nil pointer") /\ UNCHANGED conn

\* With no address of NATS configured there is no publisher.
NoPublisher == ~gcloud /\ ServeWith("initPublisher", "nil") /\ UNCHANGED conn

NewGCloudPublisher == gcloud /\ ServeWith("initPublisher", "open") /\ UNCHANGED conn

\* NewNATSPublisherWithStream makes the stream over a connection of its own,
\* closed on its way out.
ConnectNATS ==
    /\ ~gcloud
    /\ Continue("initPublisher", "CreateOrUpdateStream", <<>>)
    /\ conn' = "open"
    /\ UNCHANGED <<watcher, server, tracer, meter, db, gcloud, publisher>>

NewNATSPublisher == ServeWith("CreateOrUpdateStream", "open") /\ conn' = "closed"

InitPublisher == NoPublisher \/ NewGCloudPublisher \/ ConnectNATS \/ NewNATSPublisher

\* PubSub.Validate of the build without gcloud returns nil.
MayFail(step) ==
    /\ step \in Startup \ {"NotifyContext"}
    /\ step = "PubSub.Validate" => gcloud

\* A step of the start-up fails, and run() returns its error.
StartupFails ==
    /\ MayFail(pc)
    /\ failedAt' = pc
    /\ pc' = "return"
    /\ status' = 1
    /\ conn' = IF conn = "open" THEN "closed" ELSE conn
    /\ UNCHANGED <<deferred, signalled, cancelled, watcher, server, inFlight,
                   tracer, meter, db, gcloud, closeVars>>

\* Mutant: an error of the listener is retried for ever.
ReturnedOnShutdown(srv) == srv = "shutdown"

\* ListenAndServe returns when the listener fails or Shutdown is called.
Returned(srv) == srv \in {"failed", "shutdown"}

ServeReturns ==
    /\ pc = "ListenAndServe"
    /\ Returned(server)
    /\ pc' = "return"
    /\ status' = IF server = "failed" THEN 1 ELSE 0
    /\ UNCHANGED <<deferred, signalled, cancelled, watcher, server, inFlight,
                   heldVars, failedAt, closeVars>>

\* Mutant: without closePublisherOnce.
ClosePublisherEachTime ==
    /\ closeOnce' = TRUE
    /\ IF publisher # "nil"
       THEN publisher' = "closed" /\ closes' = closes + 1
       ELSE UNCHANGED <<publisher, closes>>

\* closePublisherOnce.Do(...)
ClosePublisher ==
    /\ closeOnce' = TRUE
    /\ IF publisher # "nil" /\ ~closeOnce
       THEN publisher' = "closed" /\ closes' = closes + 1
       ELSE UNCHANGED <<publisher, closes>>

\* Mutant: obs.Shutdown returns the first error at once.
ShutdownUntilError == meter' = "closed" /\ tracer' \in {tracer, "closed"}

\* obs.Shutdown shuts down the one provider although the other's fails.
ShutdownObservability == meter' = "closed" /\ tracer' = "closed"

\* One deferred call.
RunDeferred ==
    /\ pc = "return" /\ deferred # <<>>
    /\ deferred' = Tail(deferred)
    /\ IF Head(deferred) = "obs.Shutdown"
       THEN ShutdownObservability ELSE UNCHANGED <<tracer, meter>>
    /\ db' = IF Head(deferred) = "sqlDB.Close" THEN "closed" ELSE db
    /\ cancelled' = (cancelled \/ Head(deferred) = "cancel")
    /\ IF Head(deferred) = "closePublisher" THEN ClosePublisher ELSE UNCHANGED closeVars
    /\ UNCHANGED <<pc, status, signalled, watcher, server, inFlight, conn, gcloud, failedAt>>

Exit ==
    /\ pc = "return" /\ deferred = <<>>
    /\ pc' = "exited"
    /\ UNCHANGED <<deferred, status, signalled, cancelled, watcher, server, inFlight,
                   heldVars, failedAt, closeVars>>

Main ==
    \/ NotifyContext \/ NewTracerProvider \/ NewMeterProvider
    \/ LoadConfig \/ ValidatePubSub \/ OpenDatabase \/ ConfigureDatabase \/ GetSQLDB
    \/ InitPublisher \/ StartupFails \/ ServeReturns \/ RunDeferred \/ Exit

-----------------------------------------------------------------------------
(* The second goroutine; it ends with the process. *)

Running == pc \notin Over

\* Mutant: the second context is made from the first, as a repair of the ignored
\* signal would have it, and nothing makes run() wait for server.Shutdown.
ContextDoneOnSignal == cancelled \/ signalled

\* The context the goroutine waits for.
ContextDone == cancelled

WatcherWakes ==
    /\ Running /\ watcher = "waiting" /\ ContextDone
    /\ watcher' = "Shutdown"
    /\ server' = IF server = "listening" THEN "shutdown" ELSE server
    /\ UNCHANGED <<pc, deferred, status, signalled, cancelled, inFlight, heldVars, failedAt, closeVars>>

\* server.Shutdown returns when no handler runs, or after 15 seconds.
WatcherCloses ==
    /\ Running /\ watcher = "Shutdown"
    /\ watcher' = "done"
    /\ ClosePublisher
    /\ UNCHANGED <<pc, deferred, status, signalled, cancelled, server, inFlight,
                   heldVars, failedAt>>

Watcher == WatcherWakes \/ WatcherCloses

-----------------------------------------------------------------------------
(* The surroundings. *)

\* SIGINT or SIGTERM: caught between NotifyContext and stop(), deadly otherwise.
Signal ==
    /\ Running
    /\ IF "stop" \in {deferred[k] : k \in 1..Len(deferred)}
       THEN signalled' = TRUE /\ UNCHANGED pc
       ELSE pc' = "killed" /\ UNCHANGED signalled
    /\ UNCHANGED <<deferred, status, cancelled, watcher, server, inFlight, heldVars, failedAt, closeVars>>

HandlerStarts ==
    /\ Running /\ server = "listening" /\ inFlight < MaxInFlight
    /\ inFlight' = inFlight + 1
    /\ UNCHANGED <<pc, deferred, status, signalled, cancelled, watcher, server,
                   heldVars, failedAt, closeVars>>

HandlerEnds ==
    /\ Running /\ inFlight > 0
    /\ inFlight' = inFlight - 1
    /\ UNCHANGED <<pc, deferred, status, signalled, cancelled, watcher, server,
                   heldVars, failedAt, closeVars>>

\* The address is taken, or accepting connections fails.
ServerFails ==
    /\ Running /\ server = "listening"
    /\ server' = "failed"
    /\ UNCHANGED <<pc, deferred, status, signalled, cancelled, watcher, inFlight,
                   heldVars, failedAt, closeVars>>

Finished == ~Running /\ UNCHANGED vars

Next ==
    Main \/ Watcher \/ Signal \/ HandlerStarts \/ HandlerEnds \/ ServerFails \/ Finished

Spec == Init /\ [][Next]_vars

\* The Go scheduler runs every goroutine that can run.
FairSpec == Spec /\ WF_vars(Main) /\ WF_vars(Watcher)

-----------------------------------------------------------------------------
(* Properties. *)

Resource == {"none", "open", "closed"}

\* The type invariant: every variable has its type.
TypeOK ==
    /\ pc \in Startup \cup {"ListenAndServe", "return"} \cup Over
    /\ deferred \in Seq({"stop", "obs.Shutdown", "cancel", "sqlDB.Close", "closePublisher"})
    /\ status \in {0, 1}
    /\ signalled \in BOOLEAN /\ cancelled \in BOOLEAN /\ closeOnce \in BOOLEAN
    /\ watcher \in {"none", "waiting", "Shutdown", "done"}
    /\ server \in {"none", "listening", "failed", "shutdown"}
    /\ inFlight \in 0..MaxInFlight
    /\ tracer \in Resource /\ meter \in Resource /\ db \in Resource /\ conn \in Resource
    /\ publisher \in Resource \cup {"nil"}
    /\ closes \in Nat
    /\ gcloud \in BOOLEAN /\ failedAt \in Startup \cup {"nowhere"}

\* The main goroutine's deferred call and the second goroutine both close the
\* publisher; it is closed once.
PublisherClosedOnce == closes <= 1

\* When run() has returned, whatever step of the start-up failed and whatever
\* the deferred calls met, nothing it acquired is still open: except the tracer
\* provider, with the spans it holds, when the meter provider could not be made,
\* and the pool of an initDatabase that failed half way.
ReleasedAtExit ==
    pc = "exited" =>
        /\ meter # "open" /\ conn # "open" /\ publisher # "open"
        /\ tracer = "open" => failedAt = "metrics.NewProvider"
        /\ db = "open" => failedAt \in {"db.Use", "db.DB"}

\* A handler finds the database closed only if the server failed, not because
\* the server was asked to stop.
DatabaseOutlivesHandlers == db = "closed" /\ inFlight > 0 => server = "failed"

\* A server that failed takes the process down: it does not stay up deaf.
FailedServerExits == server = "failed" ~> pc \in Over

\* SIGINT or SIGTERM stops the server and ends the process, as the log line
\* "shutdown signal received" of the goroutine that is to do it says.
SignalStopsServer == signalled ~> pc \in Over

=============================================================================
