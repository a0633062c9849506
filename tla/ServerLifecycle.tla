--------------------------- MODULE ServerLifecycle ---------------------------
(***************************************************************************)
(* start() and stop() of SimpleWeb::ServerBase and the chain of            *)
(* async_accept calls (Server::accept).  With config.thread_pool_size of   *)
(* at least 1 the threads of the pool run handlers while the owner's       *)
(* thread is inside start(), and another thread calls stop().  With        *)
(* thread_pool_size 0 the io_service is the user's: the user's threads are *)
(* in its run(), and start() and stop() return at once.                    *)
(*                                                                         *)
(* The handler of an accept is two steps, taken from the queue and run,    *)
(* because stop() may fall between them; start() is three until it runs,   *)
(* for the same reason.  A connection is only the work it gives to the     *)
(* io_service (ServerConnection models what it does).                      *)
(*                                                                         *)
(* The owner is assumed not to call stop() before the first start() has    *)
(* made the acceptor (it would be a null pointer), nor start() before      *)
(* stop() has returned.                                                    *)
(***************************************************************************)
EXTENDS Naturals, FiniteSets

CONSTANTS
  Pool,        \* the threads of the pool, or the user's
  Main,        \* the thread that calls start() with a pool, one of them
  BindFails,   \* TRUE if bind() may fail
  MaxStarts,   \* bound: calls of start()
  MaxConns     \* bound: connections open at a time

ASSUME ConstantsAssumption ==
  /\ IsFiniteSet(Pool) /\ Main \in Pool
  /\ BindFails \in BOOLEAN
  /\ MaxStarts \in Nat
  /\ MaxConns \in Nat

\* How async_accept completes: a connection, aborted by close(), or another
\* error (no descriptors left; or bad_descriptor, on a closed acceptor).
Results == {"ok", "aborted", "error"}

VARIABLES
  own,       \* thread_pool_size is 0 and the io_service the user's
  acceptor,  \* none, open (before listen, or bind failed), listening, closed
  waiting,   \* async_accepts that wait for a connection
  ready,     \* per result: completed accepts, their handlers queued
  conns,     \* connections that keep the io_service at work
  stopped,   \* io_service::stopped()
  thread,    \* new, run, a result (in that accept's handler), resource, done
  start,     \* no, opening, binding, starting, running, joining, returned, threw
  stop,      \* no, or closed: between the two steps of stop()
  early,     \* stop() came before start() had opened the acceptor
  starts     \* calls of start() that began to listen

vars == <<own, acceptor, waiting, ready, conns, stopped, thread, start, stop, early, starts>>

\* Accepts that are outstanding: waiting, queued, or in their handler.
Accepts == waiting + ready["ok"] + ready["aborted"] + ready["error"]
             + Cardinality({t \in Pool : thread[t] \in Results})

Init ==
  /\ own \in BOOLEAN
  /\ acceptor = "none"
  /\ waiting = 0
  /\ ready = [r \in Results |-> 0]
  /\ conns = 0
  /\ stopped = FALSE
  /\ thread = [t \in Pool |-> "done"]
  /\ start = "no"
  /\ stop = "no"
  /\ early = FALSE
  /\ starts = 0

-----------------------------------------------------------------------------
(* start() *)

\* A stopped io_service is reset.
Start ==
  /\ start \in {"no", "returned", "threw"} /\ stop = "no" /\ starts < MaxStarts
  /\ start' = "opening"
  /\ stopped' = FALSE
  /\ early' = FALSE
  /\ UNCHANGED <<own, acceptor, waiting, ready, conns, thread, stop, starts>>

\* open() throws if the acceptor is open: after a start() that threw or
\* overtook stop(), or with an io_service of the user's.
Opens ==
  /\ start = "opening"
  /\ IF acceptor \in {"none", "closed"}
     THEN acceptor' = "open" /\ start' = "binding"
     ELSE start' = "threw" /\ UNCHANGED acceptor
  /\ UNCHANGED <<own, waiting, ready, conns, stopped, thread, stop, early, starts>>

\* bind() and listen() throw when stop() has closed the acceptor; when the
\* port is taken they throw and leave it open.
Listens ==
  /\ start = "binding"
  /\ \/ /\ acceptor = "open"
        /\ acceptor' = "listening"
        /\ waiting' = waiting + 1
        /\ thread' = IF own THEN thread ELSE [t \in Pool |-> "new"]
        /\ start' = IF own THEN "returned" ELSE "starting"
        /\ starts' = starts + 1
     \/ /\ BindFails \/ acceptor = "closed"
        /\ start' = "threw"
        /\ UNCHANGED <<acceptor, waiting, thread, starts>>
  /\ UNCHANGED <<own, ready, conns, stopped, stop, early>>

Spawn(t) ==
  /\ start = "starting"
  /\ thread[t] = "new" /\ t # Main
  /\ thread' = [thread EXCEPT ![t] = "run"]
  /\ UNCHANGED <<own, acceptor, waiting, ready, conns, stopped, start, stop, early, starts>>

MainRuns ==
  /\ start = "starting"
  /\ \A t \in Pool : thread[t] = "new" => t = Main
  /\ thread' = [thread EXCEPT ![Main] = "run"]
  /\ start' = "running"
  /\ UNCHANGED <<own, acceptor, waiting, ready, conns, stopped, stop, early, starts>>

\* run() returns when the io_service is stopped, and stops it when it has no
\* work; the main thread goes on to join the others.
NoWork ==
  /\ Accepts = 0 /\ conns = 0
  /\ \A t \in Pool : thread[t] # "resource"

RunReturns(t) ==
  /\ thread[t] = "run"
  /\ stopped \/ NoWork
  /\ stopped' = TRUE
  /\ thread' = [thread EXCEPT ![t] = "done"]
  /\ start' = IF t = Main /\ ~ own THEN "joining" ELSE start
  /\ UNCHANGED <<own, acceptor, waiting, ready, conns, stop, early, starts>>

Joined ==
  /\ start = "joining"
  /\ \A t \in Pool : thread[t] = "done"
  /\ start' = "returned"
  /\ UNCHANGED <<own, acceptor, waiting, ready, conns, stopped, thread, stop, early, starts>>

\* The user runs its io_service while there is work, and resets it before.
UserRuns(t) ==
  /\ own
  /\ thread[t] = "done" /\ ~ NoWork
  /\ stopped => \A u \in Pool : thread[u] = "done"
  /\ stopped' = FALSE
  /\ thread' = [thread EXCEPT ![t] = "run"]
  /\ UNCHANGED <<own, acceptor, waiting, ready, conns, start, stop, early, starts>>

-----------------------------------------------------------------------------
(* stop() *)

\* Closing the acceptor aborts the accepts that wait.  After a start() that
\* threw, it makes the acceptor fit for the next one.
StopCloses ==
  /\ acceptor # "none" /\ stop = "no"
  /\ start \in {"opening", "binding", "starting", "running", "threw"} \/ acceptor = "listening"
  /\ stop' = "closed"
  /\ early' = (start = "opening")
  /\ acceptor' = "closed"
  /\ waiting' = 0
  /\ ready' = [ready EXCEPT !["aborted"] = @ + waiting]
  /\ UNCHANGED <<own, conns, stopped, thread, start, starts>>

\* A mistake: stop() relies on the io_service running out of work.
StopOnlyCloses ==
  /\ stop = "closed"
  /\ stop' = "no"
  /\ UNCHANGED <<own, acceptor, waiting, ready, conns, stopped, thread, start, early, starts>>

\* The user's io_service is left alone.
StopStops ==
  /\ stop = "closed"
  /\ stop' = "no"
  /\ stopped' = (stopped \/ ~ own)
  /\ UNCHANGED <<own, acceptor, waiting, ready, conns, thread, start, early, starts>>

-----------------------------------------------------------------------------
(* Handlers *)

TakeAccept(t) ==
  /\ thread[t] = "run" /\ ~ stopped
  /\ \E r \in Results :
       /\ ready[r] > 0
       /\ ready' = [ready EXCEPT ![r] = @ - 1]
       /\ thread' = [thread EXCEPT ![t] = r]
  /\ UNCHANGED <<own, acceptor, waiting, conns, stopped, start, stop, early, starts>>

\* A mistake: two accepts in place of one.
AcceptTwice ==
  IF acceptor = "listening"
  THEN waiting' = waiting + 2 /\ UNCHANGED ready
  ELSE ready' = [ready EXCEPT !["error"] = @ + 2] /\ UNCHANGED waiting

\* accept(): on a closed acceptor it fails at once.
AcceptAgain ==
  IF acceptor = "listening"
  THEN waiting' = waiting + 1 /\ UNCHANGED ready
  ELSE ready' = [ready EXCEPT !["error"] = @ + 1] /\ UNCHANGED waiting

NoAccept == UNCHANGED <<waiting, ready>>

\* A mistake: go on accepting after a success only.
AcceptHandlerOnSuccess(t) ==
  /\ thread[t] \in Results
  /\ thread' = [thread EXCEPT ![t] = "run"]
  /\ IF thread[t] = "ok" THEN AcceptAgain ELSE NoAccept
  /\ conns' = IF thread[t] = "ok" THEN conns + 1 ELSE conns
  /\ UNCHANGED <<own, acceptor, stopped, start, stop, early, starts>>

AcceptHandler(t) ==
  /\ thread[t] \in Results
  /\ thread' = [thread EXCEPT ![t] = "run"]
  /\ IF thread[t] = "aborted" THEN NoAccept ELSE AcceptAgain
  /\ conns' = IF thread[t] = "ok" THEN conns + 1 ELSE conns
  /\ UNCHANGED <<own, acceptor, stopped, start, stop, early, starts>>

\* A handler of a connection calls a resource function, which may last.
Serve(t) ==
  /\ thread[t] = "run" /\ ~ stopped
  /\ conns > 0
  /\ conns' = conns - 1
  /\ thread' = [thread EXCEPT ![t] = "resource"]
  /\ UNCHANGED <<own, acceptor, waiting, ready, stopped, start, stop, early, starts>>

\* A mistake: two operations of the connection go on.
ServedTwice(t) ==
  /\ thread[t] = "resource"
  /\ thread' = [thread EXCEPT ![t] = "run"]
  /\ conns' \in {conns, conns + 2}
  /\ UNCHANGED <<own, acceptor, waiting, ready, stopped, start, stop, early, starts>>

\* It returns; the connection goes on or was the last work there was of it.
Served(t) ==
  /\ thread[t] = "resource"
  /\ thread' = [thread EXCEPT ![t] = "run"]
  /\ conns' \in {conns, conns + 1}
  /\ UNCHANGED <<own, acceptor, waiting, ready, stopped, start, stop, early, starts>>

\* A peer connects, or the system has no descriptor for it.
Incoming ==
  /\ acceptor = "listening" /\ waiting > 0
  /\ waiting' = waiting - 1
  /\ \/ /\ conns + ready["ok"] + Cardinality({t \in Pool : thread[t] \in {"ok", "resource"}}) < MaxConns
        /\ ready' = [ready EXCEPT !["ok"] = @ + 1]
     \/ ready' = [ready EXCEPT !["error"] = @ + 1]
  /\ UNCHANGED <<own, acceptor, conns, stopped, thread, start, stop, early, starts>>

-----------------------------------------------------------------------------

Next ==
  \/ Start \/ Opens \/ Listens \/ MainRuns \/ Joined \/ StopCloses \/ StopStops \/ Incoming
  \/ \E t \in Pool :
       Spawn(t) \/ UserRuns(t) \/ RunReturns(t) \/ TakeAccept(t) \/ AcceptHandler(t) \/ Serve(t) \/ Served(t)

Spec == Init /\ [][Next]_vars

(* Threads run and take handlers, the user's as well as the pool's; start()*)
(* goes on, stop() and resource functions return.  The queue is served in  *)
(* order: a completed accept is taken although others keep the threads     *)
(* busy.  Nobody has to call start() or stop(), and no peer has to connect.*)
Fairness ==
  /\ WF_vars(Opens) /\ WF_vars(Listens) /\ WF_vars(MainRuns) /\ WF_vars(Joined) /\ WF_vars(StopStops)
  /\ SF_vars(\E t \in Pool : TakeAccept(t))
  /\ \A t \in Pool :
       /\ WF_vars(Spawn(t)) /\ WF_vars(UserRuns(t)) /\ WF_vars(RunReturns(t))
       /\ WF_vars(AcceptHandler(t)) /\ WF_vars(Served(t))

FairSpec == Spec /\ Fairness

-----------------------------------------------------------------------------
(* Properties *)

TypeOK ==
  /\ own \in BOOLEAN
  /\ acceptor \in {"none", "open", "listening", "closed"}
  /\ waiting \in Nat
  /\ ready \in [Results -> Nat]
  /\ conns \in 0 .. MaxConns
  /\ stopped \in BOOLEAN
  /\ thread \in [Pool -> {"new", "run", "resource", "done"} \cup Results]
  /\ start \in {"no", "opening", "binding", "starting", "running", "joining", "returned", "threw"}
  /\ stop \in {"no", "closed"}
  /\ early \in BOOLEAN
  /\ starts \in Nat

(* While the server listens it accepts: whatever the last accept brought,  *)
(* a connection or an error, another one is outstanding.                   *)
KeepsAccepting == acceptor = "listening" => Accepts > 0

(* A call of start() adds one accept to those outstanding, and none of     *)
(* them ever becomes two.                                                  *)
AcceptsBounded == Accepts <= starts

(* start() returns only after a stop(): the pool never runs out of work by *)
(* itself; and then no thread of the pool is left and the port is closed,  *)
(* unless start() has overtaken the stop(): then the port stays open and   *)
(* nobody serves it.                                                       *)
ReturnsStopped ==
  start = "returned" /\ ~ own =>
    /\ acceptor = "closed" \/ early
    /\ \A t \in Pool : thread[t] = "done"

\* Accepts that have completed, aborted ones apart.
Completed == ready["ok"] + ready["error"] + Cardinality({t \in Pool : thread[t] \in {"ok", "error"}})

(* After stop(), start() returns as soon as the handlers that run are done *)
(* (no matter how many connections are open).  A user's io_service is rid  *)
(* of the accepts, but only if none had completed when the acceptor was    *)
(* closed: the handler of one that had accepts on the closed acceptor,     *)
(* fails, accepts again, and so on until the next start().                 *)
StopEnds ==
  /\ ~ own /\ stop = "closed" /\ start # "threw" ~> start \in {"returned", "threw"}
  /\ own /\ acceptor = "closed" /\ Completed = 0 ~> Accepts = 0 \/ acceptor = "listening"

(* "Immediately start accepting a new connection (if io_service hasn't     *)
(* been stopped)" (server_http.hpp:477): the code tests the error of the   *)
(* accept instead, which is not operation_aborted for a connection that    *)
(* was accepted before stop() and handled after it.                        *)
AcceptsWhileRunning ==
  [][(\E t \in Pool : thread[t] \in {"ok", "error"} /\ thread'[t] = "run") => ~ stopped]_vars
=============================================================================
