----------------------------- MODULE Lifecycle -----------------------------
(***************************************************************************)
(* How the server ends: Server.run and the goroutines that serve and shut  *)
(* down HTTP and gRPC, the handlers of the requests, and Provider.Close    *)
(* with the writer, the runners and the goroutines that appends leave      *)
(* behind.  The Go runtime and the two server libraries are modelled from  *)
(* how the code uses them.                                                 *)
(***************************************************************************)
EXTENDS Integers, Sequences, FiniteSets

CONSTANTS
  HttpRequests, GrpcRequests,
  Runners,        \* background goroutines that Close cancels
  Followers,      \* goroutines that appends and moves start
  Nobody,
  QueueCap        \* capacity of writeCh

ASSUME WorkerAssumption ==
  /\ HttpRequests \cap GrpcRequests = {}
  /\ (HttpRequests \cup GrpcRequests) \cap (Runners \cup Followers) = {}
  /\ Runners \cap Followers = {}
  /\ Nobody \notin HttpRequests \cup GrpcRequests \cup Runners \cup Followers
  /\ QueueCap \in Nat

VARIABLES
  main,       \* Server.run and its caller
  transport,  \* the goroutine that serves a transport
  shutdown,   \* the goroutine that shuts it down
  errCh,      \* errors in the channel of run
  signalled, expired,
  worker,     \* handlers, runners and followers
  queue, closed, writing, writerEnded,   \* writeCh and the writer goroutine
  dropped,    \* observation: requests that were accepted and got no answer
  process

serverVars == <<main, transport, shutdown, errCh, signalled, expired>>
providerVars == <<queue, closed, writing, writerEnded>>
lifeVars == <<serverVars, worker, providerVars, dropped, process>>

Transports == {"http", "grpc"}
Requests == HttpRequests \cup GrpcRequests
RequestsOf(t) == IF t = "http" THEN HttpRequests ELSE GrpcRequests
Workers == Requests \cup Runners \cup Followers

(* make(chan error, 2)                                                     *)
OneErrorFits == 1
ErrChCap == 2

LifeTypeOK ==
  /\ main \in {"select", "shutdown", "wait", "close", "drain", "over"}
  /\ transport \in [Transports -> {"starting", "serving", "failing", "returned"}]
  /\ shutdown \in [Transports -> {"none", "called", "waiting", "done"}]
  /\ errCh \in 0..ErrChCap
  /\ signalled \in BOOLEAN /\ expired \in BOOLEAN
  /\ worker \in [Workers -> {"absent", "working", "queued", "done", "cut"}]
  /\ queue \in Seq(Workers)
  /\ closed \in BOOLEAN /\ writerEnded \in BOOLEAN
  /\ writing \in Workers \cup {Nobody}
  /\ dropped \subseteq Requests
  /\ process \in {"running", "exited", "panicked", "killed"}

LifeInit ==
  /\ main = "select"
  /\ transport = [t \in Transports |-> "starting"]
  /\ shutdown = [t \in Transports |-> "none"]
  /\ errCh = 0
  /\ signalled = FALSE /\ expired = FALSE
  /\ worker = [w \in Workers |-> IF w \in Runners THEN "working" ELSE "absent"]
  /\ queue = << >>
  /\ closed = FALSE /\ writerEnded = FALSE
  /\ writing = Nobody
  /\ dropped = {}
  /\ process = "running"

Running == process = "running"

Busy(w) == worker[w] \in {"working", "queued"}
-----------------------------------------------------------------------------
(* The goroutines that serve.                                              *)

Listen(t) ==
  /\ Running /\ transport[t] = "starting"
  /\ \/ transport' = [transport EXCEPT ![t] = "serving"] /\ shutdown[t] \in {"none", "called"}
     \/ transport' = [transport EXCEPT ![t] = "failing"]
  /\ UNCHANGED <<main, shutdown, errCh, signalled, expired, worker, providerVars, dropped, process>>

(* A server that was shut down before it served: Serve of HTTP returns     *)
(* ErrServerClosed, which is no error here, that of gRPC ErrServerStopped. *)
ServeAfterShutdown(t) ==
  /\ Running /\ transport[t] = "starting"
  /\ shutdown[t] \in {"waiting", "done"}
  /\ transport' = [transport EXCEPT ![t] = IF t = "http" THEN "returned" ELSE "failing"]
  /\ UNCHANGED <<main, shutdown, errCh, signalled, expired, worker, providerVars, dropped, process>>

ServeFails(t) ==
  /\ Running /\ transport[t] = "serving" /\ shutdown[t] \in {"none", "called"}
  /\ transport' = [transport EXCEPT ![t] = "failing"]
  /\ UNCHANGED <<main, shutdown, errCh, signalled, expired, worker, providerVars, dropped, process>>

(* errCh <- err, which waits while the channel is full.                    *)
ReportError(t) ==
  /\ Running /\ transport[t] = "failing"
  /\ errCh < ErrChCap
  /\ errCh' = errCh + 1
  /\ transport' = [transport EXCEPT ![t] = "returned"]
  /\ UNCHANGED <<main, shutdown, signalled, expired, worker, providerVars, dropped, process>>
-----------------------------------------------------------------------------
(* Server.run, and what its caller does when it returns.                   *)

(* SIGINT or SIGTERM.                                                      *)
Signal ==
  /\ Running /\ ~ signalled
  /\ signalled' = TRUE
  /\ UNCHANGED <<main, transport, shutdown, errCh, expired, worker, providerVars, dropped, process>>

BeginShutdown ==
  /\ Running /\ main = "select"
  /\ \/ signalled /\ UNCHANGED errCh
     \/ errCh > 0 /\ errCh' = errCh - 1
  /\ main' = "shutdown"
  /\ shutdown' = [t \in Transports |-> "called"]
  /\ UNCHANGED <<transport, signalled, expired, worker, providerVars, dropped, process>>

(* ShutdownTimeout.                                                        *)
Expire ==
  /\ Running /\ main = "shutdown" /\ ~ expired
  /\ expired' = TRUE
  /\ UNCHANGED <<main, transport, shutdown, errCh, signalled, worker, providerVars, dropped, process>>

(* Shutdown and GracefulStop close the listener, and Serve returns nil.    *)
CloseListener(t) ==
  /\ Running /\ shutdown[t] = "called"
  /\ shutdown' = [shutdown EXCEPT ![t] = "waiting"]
  /\ transport' = [transport EXCEPT ![t] = IF @ = "serving" THEN "returned" ELSE @]
  /\ UNCHANGED <<main, errCh, signalled, expired, worker, providerVars, dropped, process>>

Drained(t) == \A r \in RequestsOf(t) : ~ Busy(r)

ShutdownCompletes(t) ==
  /\ Running /\ shutdown[t] = "waiting" /\ Drained(t)
  /\ shutdown' = [shutdown EXCEPT ![t] = "done"]
  /\ UNCHANGED <<main, transport, errCh, signalled, expired, worker, providerVars, dropped, process>>

(* At the deadline http.Server.Shutdown gives up and leaves the handlers   *)
(* to run; grpc.Server.Stop closes their connections.                      *)
ShutdownExpires(t) ==
  /\ Running /\ shutdown[t] = "waiting" /\ expired
  /\ shutdown' = [shutdown EXCEPT ![t] = "done"]
  /\ dropped' = IF t = "grpc" THEN dropped \cup {r \in GrpcRequests : Busy(r)} ELSE dropped
  /\ UNCHANGED <<main, transport, errCh, signalled, expired, worker, providerVars, process>>

(* Faulty variant: nobody waits for the two shutdowns.                     *)
ShutdownsCalled ==
  /\ Running /\ main = "shutdown"
  /\ \A t \in Transports : shutdown[t] # "none"
  /\ main' = "wait"
  /\ UNCHANGED <<transport, shutdown, errCh, signalled, expired, worker, providerVars, dropped, process>>

(* initiateShutdown returns.                                               *)
ShutdownsDone ==
  /\ Running /\ main = "shutdown"
  /\ \A t \in Transports : shutdown[t] = "done"
  /\ main' = "wait"
  /\ UNCHANGED <<transport, shutdown, errCh, signalled, expired, worker, providerVars, dropped, process>>

(* wg.Wait; run drains the errors and returns.                             *)
RunReturns ==
  /\ Running /\ main = "wait"
  /\ \A t \in Transports : transport[t] = "returned"
  /\ main' = "close"
  /\ errCh' = 0
  /\ UNCHANGED <<transport, shutdown, signalled, expired, worker, providerVars, dropped, process>>

(* Provider.Close cancels the runners and closes writeCh.                  *)
CloseProvider ==
  /\ Running /\ main = "close"
  /\ main' = "drain"
  /\ closed' = TRUE
  /\ UNCHANGED <<transport, shutdown, errCh, signalled, expired, worker, queue, writing, writerEnded, dropped, process>>

(* The writer has ended, the database is closed and the process exits with *)
(* whatever still runs.                                                    *)
Exit ==
  /\ Running /\ main = "drain" /\ writerEnded
  /\ main' = "over"
  /\ process' = "exited"
  /\ dropped' = dropped \cup {r \in Requests : Busy(r)}
  /\ UNCHANGED <<transport, shutdown, errCh, signalled, expired, worker, providerVars>>

(* The stop command kills a server that lives ten seconds after its signal.*)
Kill ==
  /\ Running /\ signalled
  /\ process' = "killed"
  /\ dropped' = dropped \cup {r \in Requests : Busy(r)}
  /\ UNCHANGED <<serverVars, worker, providerVars>>
-----------------------------------------------------------------------------
(* Handlers, runners and followers, all of which write through writeCh.    *)

Arrive(r) ==
  /\ Running /\ worker[r] = "absent"
  /\ \E t \in Transports : r \in RequestsOf(t) /\ transport[t] = "serving"
  /\ worker' = [worker EXCEPT ![r] = "working"]
  /\ UNCHANGED <<serverVars, providerVars, dropped, process>>

(* A handler answers; a follower is done.                                  *)
Finish(w) ==
  /\ Running /\ w \notin Runners /\ worker[w] = "working"
  /\ worker' = [worker EXCEPT ![w] = "done"]
  /\ UNCHANGED <<serverVars, providerVars, dropped, process>>

(* A runner sees its cancelled context at its next tick or query.          *)
RunnerEnds(w) ==
  /\ Running /\ w \in Runners /\ worker[w] = "working" /\ closed
  /\ worker' = [worker EXCEPT ![w] = "done"]
  /\ UNCHANGED <<serverVars, providerVars, dropped, process>>

Send(w) ==
  /\ Running /\ worker[w] = "working" /\ ~ closed
  /\ Len(queue) < QueueCap
  /\ queue' = Append(queue, w)
  /\ worker' = [worker EXCEPT ![w] = "queued"]
  /\ UNCHANGED <<serverVars, closed, writing, writerEnded, dropped, process>>

(* A send on the closed channel panics: the servers recover in a handler,  *)
(* the request of which gets no proper answer, and in no other goroutine.  *)
SendPanics(w) ==
  /\ Running /\ worker[w] = "working" /\ closed
  /\ worker' = [worker EXCEPT ![w] = "cut"]
  /\ IF w \in Requests
     THEN dropped' = dropped \cup {w} /\ UNCHANGED process
     ELSE dropped' = dropped \cup {r \in Requests : Busy(r)} /\ process' = "panicked"
  /\ UNCHANGED <<serverVars, providerVars>>

Take ==
  /\ Running /\ writing = Nobody /\ queue # << >>
  /\ writing' = Head(queue)
  /\ queue' = Tail(queue)
  /\ UNCHANGED <<serverVars, worker, closed, writerEnded, dropped, process>>

(* The closure has run and its sender goes on; an append or a move also    *)
(* starts a goroutine that nothing waits for.                              *)
Execute ==
  /\ Running /\ writing # Nobody
  /\ \/ worker' = [worker EXCEPT ![writing] = "working"]
     \/ /\ writing \in Requests
        /\ \E f \in Followers :
             /\ worker[f] = "absent"
             /\ worker' = [worker EXCEPT ![writing] = "working", ![f] = "working"]
  /\ writing' = Nobody
  /\ UNCHANGED <<serverVars, queue, closed, writerEnded, dropped, process>>

WriterEnds ==
  /\ Running /\ closed /\ queue = << >> /\ writing = Nobody /\ ~ writerEnded
  /\ writerEnded' = TRUE
  /\ UNCHANGED <<serverVars, worker, queue, closed, writing, dropped, process>>

Serving(t) == Listen(t) \/ ServeAfterShutdown(t) \/ ReportError(t)

Stopping ==
  \/ BeginShutdown \/ Expire \/ ShutdownsDone \/ RunReturns \/ CloseProvider \/ Exit
  \/ \E t \in Transports : CloseListener(t) \/ ShutdownCompletes(t) \/ ShutdownExpires(t)

WriterLoop == Take \/ Execute \/ WriterEnds

Working == \E w \in Workers : Finish(w) \/ RunnerEnds(w) \/ Send(w) \/ SendPanics(w)

LifeNext ==
  \/ \E t \in Transports : Serving(t) \/ ServeFails(t)
  \/ Stopping \/ WriterLoop \/ Working
  \/ Signal \/ Kill
  \/ \E r \in Requests : Arrive(r)

LifeSpec == LifeInit /\ [][LifeNext]_lifeVars

(* The goroutines of the server and the writer go on, and the timer of the *)
(* shutdown fires; handlers, runners and followers may never return.       *)
LifeFairSpec ==
  /\ LifeSpec
  /\ WF_lifeVars(\E t \in Transports : Serving(t))
  /\ WF_lifeVars(Stopping)
  /\ WF_lifeVars(WriterLoop)
-----------------------------------------------------------------------------
(* No request in flight is dropped as long as it completes within          *)
(* ShutdownTimeout, unless the stop command kills the server before        *)
(* (docs/SERVER.md:429).                                                   *)
NoRequestIsDropped == dropped # {} => expired \/ process = "killed"

(* A server that was told to end does, whatever its transports, handlers   *)
(* and goroutines are doing: nobody waits for a full error channel, and no *)
(* handler holds the shutdown beyond its deadline.                         *)
ServerEnds == signalled ~> ~ Running
=============================================================================
