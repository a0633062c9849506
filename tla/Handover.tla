------------------------------- MODULE Handover -------------------------------
(***************************************************************************)
(* The handover experiment (http_examples_client.cpp): main makes a first  *)
(* request, starts a thread and takes its time stamp; the thread sleeps,   *)
(* changes the default routes so that the traffic moves from one interface *)
(* to another (NetworkChange), makes a second request and prints delays.   *)
(* A trial is one run of the program; scripts run it again and again, with *)
(* or without a restart of the NetworkManager.                             *)
(*                                                                         *)
(* `route' commands are modelled by their effect on the kernel's table of  *)
(* default routes; their exit status is ignored, as system()'s is in the   *)
(* code.  A client is modelled by the end of its request: ClientEngine has *)
(* the steps.                                                              *)
(***************************************************************************)
EXTENDS Naturals, Sequences, FiniteSets

CONSTANTS
  Interfaces,   \* names of interfaces
  Metrics,      \* metrics that a table or an uninitialised variable may hold
  MaxTrials     \* bound: trials

ASSUME ConstantsAssumption ==
  /\ IsFiniteSet(Interfaces) /\ {"eth0", "wlo1"} \subseteq Interfaces
  /\ {50, 51, 100, 600} \subseteq Metrics /\ Metrics \subseteq Nat
  /\ MaxTrials \in Nat

(* A default route.  A gateway is its interface's own one, or the bytes of *)
(* an uninitialised variable.                                              *)
Route == [dev : Interfaces, gw : {"own", "garbage"}, metric : Metrics]

Stamps == {"total start", "handover start", "handover end", "total end"}

VARIABLES
  routes,   \* the kernel's default routes
  from, to, \* the arguments of NetworkChange
  prompt,   \* main goes on within the 100 ms that the thread sleeps
  trial,    \* trials made
  main,     \* start, requested, spawned, stamped; ended or aborted
  thread,   \* none, sleeping, stamped; the command of NetworkChange that is
            \* next; changed, connected, closed, ended
  read,     \* from_gw, to_gw and to_metric
  before,   \* the routes when NetworkChange read them
  done,     \* NetworkChange has read the table, and gone on
  path,     \* the interface of the second connection
  clock,    \* time, in stamps taken
  stamp     \* the program's four stamps, 0 before they are taken

process == <<main, thread, read, before, done, path, clock, stamp>>

vars == <<routes, from, to, prompt, trial, process>>

-----------------------------------------------------------------------------
(* The kernel's table *)

RoutesOf(dev) == {r \in routes : r.dev = dev}

Lowest(R) == {r \in R : \A s \in R : r.metric <= s.metric}

Works(r) == r.gw = "own"

\* A new connection takes a route of the lowest metric.
Best == Lowest(routes)

\* "route add" of an existing route fails, and so does a gateway that is not
\* reachable on the interface.
Add(r) ==
  \/ routes' = routes \cup {r}
  \/ ~ Works(r) /\ UNCHANGED routes

\* "route del" takes the first route that matches, or fails.
Del(R) ==
  IF R = {} THEN UNCHANGED routes
            ELSE \E r \in Lowest(R) : routes' = routes \ {r}

-----------------------------------------------------------------------------

Fresh(mn, th, rd, bf, dn, pa, cl, st) ==
  /\ mn = "start"
  /\ th = "none"
  /\ rd = [fromGw |-> "garbage", toGw |-> "garbage", toMetric |-> 50]
  /\ bf = {}
  /\ dn = FALSE
  /\ pa = "none"
  /\ cl = 0
  /\ st = [s \in Stamps |-> 0]

(* What the NetworkManager configures for the interfaces that are up; one  *)
(* script then gives wlo1 a better metric.                                 *)
Managed(up, better) ==
  {[dev |-> i, gw |-> "own",
    metric |-> IF i = "wlo1" THEN (IF better THEN 50 ELSE 600) ELSE 100] : i \in up}

Directions == {d \in Interfaces \X Interfaces : d[1] # d[2]}

Init ==
  /\ \E up \in SUBSET Interfaces, better \in BOOLEAN : routes = Managed(up, better)
  /\ \E d \in Directions : from = d[1] /\ to = d[2]
  /\ prompt \in BOOLEAN
  /\ trial = 1
  /\ Fresh(main, thread, read, before, done, path, clock, stamp)

\* The next trial, in either direction.
NextTrial ==
  /\ main \in {"ended", "aborted"}
  /\ trial < MaxTrials
  /\ trial' = trial + 1
  /\ \/ \E up \in SUBSET Interfaces, better \in BOOLEAN : routes' = Managed(up, better)
     \/ UNCHANGED routes
  /\ \E d \in Directions : from' = d[1] /\ to' = d[2]
  /\ UNCHANGED prompt
  /\ Fresh(main', thread', read', before', done', path', clock', stamp')

-----------------------------------------------------------------------------
(* Both threads *)

Environment == <<routes, from, to, prompt, trial>>

Stamp(s) ==
  /\ clock' = clock + 1
  /\ stamp' = [stamp EXCEPT ![s] = clock + 1]

\* An exception that nobody catches ends the program, in either thread.
Abort ==
  /\ main' = "aborted"
  /\ thread' = "ended"
  /\ UNCHANGED <<Environment, read, before, done, path, clock, stamp>>

Reachable == Best # {} /\ \E r \in Best : Works(r)

\* client.request("GET", "/test"); the client notes when it has connected.
FirstRequest ==
  /\ main = "start"
  /\ \/ /\ Reachable
        /\ main' = "requested"
        /\ clock' = clock + 1
        /\ UNCHANGED <<Environment, thread, read, before, done, path, stamp>>
     \/ Abort

Spawn ==
  /\ main = "requested"
  /\ main' = "spawned"
  /\ thread' = "sleeping"
  /\ UNCHANGED <<Environment, read, before, done, path, clock, stamp>>

\* total_delay_start_time = client.total_delay_start_time: an earlier time,
\* that of the connection.
MainStamps ==
  /\ main = "spawned"
  /\ main' = "stamped"
  /\ stamp' = [stamp EXCEPT !["total start"] = 1]
  /\ UNCHANGED <<Environment, thread, read, before, done, path, clock>>

Join ==
  /\ main = "stamped"
  /\ thread = "ended"
  /\ main' = "ended"
  /\ UNCHANGED <<Environment, thread, read, before, done, path, clock, stamp>>

-----------------------------------------------------------------------------
(* The handover thread *)

\* A mistake: the thread does not sleep.
WakesAtOnce == thread = "sleeping"

\* 100 ms have passed.
Wakes == thread = "sleeping" /\ (prompt => main = "stamped")

ThreadStarts ==
  /\ Wakes
  /\ thread' = "stamped"
  /\ Stamp("handover start")
  /\ UNCHANGED <<Environment, main, read, before, done, path>>

\* A mistake: the second interface loses its route before it has a new one.
CommandsDelFirst == <<"del from", "del to", "add to", "add from", "changed">>

\* A mistake: the first interface's route is not put back.
CommandsNoAddFrom == <<"del from", "add to", "del to", "changed">>

Commands == <<"del from", "add to", "del to", "add from", "changed">>

\* The gateway and metric of an interface's default route, the last one in
\* the table when it has several; without one the variables keep their bytes.
LookUp(dev, gw, metric) ==
  IF RoutesOf(dev) = {} THEN gw = "garbage" /\ metric \in Metrics
                        ELSE \E r \in RoutesOf(dev) : gw = r.gw /\ metric = r.metric

\* The table cannot be opened or read: NetworkChange returns, and nobody
\* learns of it.
TableFails ==
  /\ thread = "stamped"
  /\ thread' = "changed"
  /\ UNCHANGED <<Environment, main, read, before, done, path, clock, stamp>>

ReadTable ==
  /\ thread = "stamped"
  /\ thread' = Commands[1]
  /\ \E f, t \in {"own", "garbage"}, fm, m \in Metrics :
       /\ LookUp(from, f, fm)
       /\ LookUp(to, t, m)
       /\ read' = [fromGw |-> f, toGw |-> t, toMetric |-> m]
  /\ before' = routes
  /\ done' = TRUE
  /\ UNCHANGED <<Environment, main, path, clock, stamp>>

\* A mistake: the second deletion takes any route of the interface.
DeletedAny == RoutesOf(to)

\* Only the route with the metric that was read.
Deleted == {r \in RoutesOf(to) : r.metric = read.toMetric}

Command(c) ==
  \/ c = "del from" /\ Del(RoutesOf(from))
  \/ c = "add to" /\ Add([dev |-> to, gw |-> read.toGw, metric |-> 51])
  \/ c = "del to" /\ Del(Deleted)
  \/ c = "add from" /\ Add([dev |-> from, gw |-> read.fromGw, metric |-> 600])

RunCommand ==
  \E i \in 1 .. Len(Commands) - 1 :
    /\ thread = Commands[i]
    /\ thread' = Commands[i + 1]
    /\ Command(Commands[i])
    /\ UNCHANGED <<from, to, prompt, trial, main, read, before, done, path, clock, stamp>>

\* client2.request("GET", "/"): the connection, where client2 notes the end
\* of the handover, ...
SecondConnects ==
  /\ thread = "changed"
  /\ \/ \E r \in Best : /\ Works(r)
                        /\ path' = r.dev
                        /\ thread' = "connected"
                        /\ Stamp("handover end")
                        /\ UNCHANGED <<Environment, main, read, before, done>>
     \/ Abort

\* ... and its end.
SecondReturns ==
  /\ thread = "connected"
  /\ \/ /\ thread' = "closed"
        /\ Stamp("total end")
        /\ UNCHANGED <<Environment, main, read, before, done, path>>
     \/ Abort

\* client2.close() and the two lines of output.
Prints ==
  /\ thread = "closed"
  /\ thread' = "ended"
  /\ UNCHANGED <<Environment, main, read, before, done, path, clock, stamp>>

-----------------------------------------------------------------------------

Next ==
  \/ FirstRequest \/ Spawn \/ MainStamps \/ Join
  \/ ThreadStarts \/ TableFails \/ ReadTable \/ RunCommand
  \/ SecondConnects \/ SecondReturns \/ Prints
  \/ NextTrial

Spec == Init /\ [][Next]_vars

-----------------------------------------------------------------------------
(* Properties *)

TypeOK ==
  /\ routes \subseteq Route
  /\ <<from, to>> \in Directions
  /\ prompt \in BOOLEAN
  /\ trial \in Nat
  /\ main \in {"start", "requested", "spawned", "stamped", "ended", "aborted"}
  /\ thread \in {"none", "sleeping", "stamped", "del from", "add to", "del to",
                 "add from", "changed", "connected", "closed", "ended"}
  /\ read \in [fromGw : {"own", "garbage"}, toGw : {"own", "garbage"}, toMetric : Metrics]
  /\ before \subseteq Route
  /\ done \in BOOLEAN
  /\ path \in Interfaces \cup {"none"}
  /\ clock \in Nat
  /\ stamp \in [Stamps -> Nat]

\* The interfaces that had a usable route, and none of another gateway.
HadRoute(dev) ==
  /\ \E r \in before : r.dev = dev
  /\ \A r \in before : r.dev = dev => Works(r)

(* The metric that NetworkChange gives the second interface is not in use  *)
(* for it: else the new route is the old one, and deleting the old one     *)
(* deletes it.  So it is after a restart of the NetworkManager, and when   *)
(* the direction alternates (the "ping pong" of the README).               *)
MetricFree == \A r \in before : r.dev = to => r.metric # 51

(* While NetworkChange replaces the routes one command at a time, there is *)
(* a usable default route at every moment if both interfaces had one.      *)
NeverCutOff ==
  done /\ MetricFree /\ HadRoute(from) /\ HadRoute(to) => \E r \in routes : Works(r)

(* The second connection of a measured handover goes through the second    *)
(* interface, also when the trials before left their routes in the table.  *)
HandsOver ==
  done /\ MetricFree /\ HadRoute(from) /\ HadRoute(to) => path \in {"none", to}

(* A handover whose second interface is down leaves the route of the first *)
(* one, and one whose first interface is down leaves that of the second:   *)
(* the host can be reached afterwards.                                     *)
ComesBack ==
  /\ done /\ MetricFree
  /\ HadRoute(from) \/ HadRoute(to)
  /\ thread \in {"changed", "connected", "closed", "ended"}
  => \E r \in routes : Works(r)

(* The delays that are printed are differences of stamps taken in their    *)
(* order (lines 122 and 123): total start is set by main after it has      *)
(* created the thread that reads it, so that only the thread's sleep makes *)
(* it come first.                                                          *)
StampsInOrder ==
  prompt /\ thread = "closed" =>
    /\ 0 < stamp["total start"]
    /\ stamp["total start"] < stamp["handover start"]
    /\ stamp["handover start"] < stamp["handover end"]
    /\ stamp["handover end"] < stamp["total end"]
=============================================================================
