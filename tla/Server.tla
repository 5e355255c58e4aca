------------------------------- MODULE Server -------------------------------
(***************************************************************************)
(* The life of the process after start-up (cmd/api/main.go): the server    *)
(* with its requests, the background jobs that handlers leave behind, the  *)
(* cleanup worker, and the graceful shutdown that a signal starts.         *)
(*                                                                         *)
(* srv.Shutdown closes the listener and waits until no connection is       *)
(* active, but not longer than its timeout; then the database pool and the *)
(* Redis client are closed.                                                *)
(***************************************************************************)
EXTENDS Gateway

CONSTANT MaxJobs    \* bound on background jobs under way

ASSUME JobsAssumption == MaxJobs \in Nat

VARIABLES
    phase,          \* where run() is: "running", "draining" in srv.Shutdown,
                    \* "closing" the pool, "closed", "exited"
    code,           \* exit code
    pool,           \* the database pool: "open", "closing", "closed"
    redis,          \* the Redis client: "open", "closed"
    cleaner,        \* the cleanup worker: "waiting", "cleaning", "stopped"
    jobs,           \* number of background jobs under way
    lost            \* history: a background job lost its command at the closed client

svars == <<phase, code, pool, redis, cleaner, jobs, lost>>
allvars == <<rvars, gvars, svars>>

SInit ==
    /\ GInit
    /\ phase = "running"
    /\ code = None
    /\ pool = "open"
    /\ redis = "open"
    /\ cleaner = "waiting"
    /\ jobs = 0
    /\ lost = FALSE

Active == {q \in Slots : requests[q].pc # "idle"}

----------------------------------------------------------------------------
(* Requests.  While Shutdown waits no connection is accepted any more, but *)
(* one that was may still send its request.                                *)

Exchange ==
    /\ \E q \in Slots :
          \/ phase = "running" /\ Connect(q)
          \/ Disconnect(q) \/ Arrive(q) \/ Allow(q)
    /\ UNCHANGED svars

\* A handler may leave a cache job behind (go func, context.WithoutCancel).
HandleRequest ==
    /\ \E q \in Slots : Handle(q)
    /\ jobs' \in {jobs, jobs + 1}
    /\ jobs' <= MaxJobs
    /\ UNCHANGED <<phase, code, pool, redis, cleaner, lost>>

\* A job needs Redis; nobody looks at its error.
FinishJob ==
    /\ jobs > 0
    /\ jobs' = jobs - 1
    /\ lost' = (lost \/ redis = "closed")
    /\ UNCHANGED <<rvars, gvars, phase, code, pool, redis, cleaner>>

----------------------------------------------------------------------------
(* StartCleanupWorker.                                                     *)

\* The ticker fires; Cleanup has a context of its own.  A closing pool gives no
\* connection, and the error is logged.
StartCleanup ==
    /\ cleaner = "waiting"
    /\ pool = "open"
    /\ cleaner' = "cleaning"
    /\ UNCHANGED <<rvars, gvars, phase, code, pool, redis, jobs, lost>>

\* Cleanup returns, after 30 seconds at the latest.
EndCleanup ==
    /\ cleaner = "cleaning"
    /\ cleaner' = "waiting"
    /\ UNCHANGED <<rvars, gvars, phase, code, pool, redis, jobs, lost>>

\* ctx.Done().
StopWorker ==
    /\ cleaner = "waiting"
    /\ phase # "running"
    /\ cleaner' = "stopped"
    /\ UNCHANGED <<rvars, gvars, phase, code, pool, redis, jobs, lost>>

----------------------------------------------------------------------------
(* run().                                                                  *)

\* os.Exit(1) in main: whatever is still running is cut off, and run() has closed
\* neither the pool nor Redis.
Abort ==
    /\ phase' = "exited"
    /\ code' = 1
    /\ lost' = (lost \/ jobs > 0)
    /\ requests' = [q \in Slots |-> NoRequest]
    /\ cleaner' = "stopped" /\ jobs' = 0
    /\ UNCHANGED <<rvars, arrived, pool, redis>>

\* ListenAndServe returned an error.
ListenFails == phase = "running" /\ Abort

\* SIGINT or SIGTERM ends ctx, and srv.Shutdown closes the listener.
Signal ==
    /\ phase = "running"
    /\ phase' = "draining"
    /\ UNCHANGED <<rvars, gvars, code, pool, redis, cleaner, jobs, lost>>

\* A plausible slip: srv.Close instead of srv.Shutdown.
ShutdownClosesAll ==
    /\ phase = "draining"
    /\ phase' = "closing"
    /\ pool' = "closing"
    /\ UNCHANGED <<rvars, gvars, code, redis, cleaner, jobs, lost>>

\* srv.Shutdown found every connection idle; pool.Close begins.
ShutdownReturns ==
    /\ phase = "draining"
    /\ Active = {}
    /\ phase' = "closing"
    /\ pool' = "closing"
    /\ UNCHANGED <<rvars, gvars, code, redis, cleaner, jobs, lost>>

\* A plausible slip: Shutdown gets a context without a deadline.
ShutdownWaits == FALSE /\ Abort

\* The 5 seconds of shutdownCtx are over.
ShutdownTimesOut ==
    /\ phase = "draining"
    /\ Active # {}
    /\ Abort

\* pool.Close waits for the connections that are in use.
ClosePool ==
    /\ phase = "closing"
    /\ cleaner # "cleaning"
    /\ pool' = "closed"
    /\ phase' = "closed"
    /\ redis' = "closed"
    /\ UNCHANGED <<rvars, gvars, code, cleaner, jobs, lost>>

\* run() and main() return.
Return ==
    /\ phase = "closed"
    /\ phase' = "exited"
    /\ code' = 0
    /\ lost' = (lost \/ jobs > 0)
    /\ UNCHANGED <<rvars, gvars, pool, redis, cleaner, jobs>>

----------------------------------------------------------------------------
SNext ==
    /\ phase # "exited"
    /\ \/ Exchange \/ HandleRequest \/ FinishJob
       \/ StartCleanup \/ EndCleanup \/ StopWorker
       \/ ListenFails \/ Signal \/ ShutdownReturns \/ ShutdownTimesOut \/ ClosePool \/ Return
       \/ RTick /\ UNCHANGED <<gvars, svars>>

\* Shutdown returns or runs into its deadline, a cleanup into that of its own
\* context, and main goes on.  Nothing is assumed of clients and handlers.
Fairness ==
    /\ WF_allvars(phase # "exited" /\ (ShutdownReturns \/ ShutdownTimesOut))
    /\ WF_allvars(phase # "exited" /\ EndCleanup)
    /\ WF_allvars(ClosePool) /\ WF_allvars(Return)

SSpec == SInit /\ [][SNext]_allvars /\ Fairness

----------------------------------------------------------------------------
\* Every variable keeps its type.
STypeOK ==
    /\ RTypeOK
    /\ requests \in [Slots -> Request]
    /\ arrived \in 0 .. MaxRequests
    /\ phase \in {"running", "draining", "closing", "closed", "exited"}
    /\ pool \in {"open", "closing", "closed"} /\ redis \in {"open", "closed"}
    /\ cleaner \in {"waiting", "cleaning", "stopped"} /\ lost \in BOOLEAN
    /\ jobs \in 0 .. MaxJobs
    /\ code \in {0, 1, None}

\* run() closes the pool only when every accepted request has been answered, and
\* Redis only when no cleanup is under way either: no handler meets a closed
\* client.  Where Shutdown fails nothing is closed, and os.Exit cuts off the rest.
GracefulExit ==
    /\ pool # "open" => Active = {}
    /\ redis = "closed" => Active = {} /\ cleaner # "cleaning" /\ pool = "closed"

\* A signal ends the process, even if a handler hangs or clients keep their
\* connections.
SignalEndsProcess == phase = "draining" ~> phase = "exited"

----------------------------------------------------------------------------
\* "Handles OS signals to close DB and Redis connections cleanly without dropping
\* active requests or losing background cache writes": Shutdown waits for handlers
\* and not for the goroutines they started.
NoLostWrites == code = 0 => ~lost

=============================================================================
