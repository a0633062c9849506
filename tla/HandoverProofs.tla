----------------------------- MODULE HandoverProofs -----------------------------
(***************************************************************************)
(* Proofs about Handover, for any interfaces and metrics and any number of *)
(* trials.                                                                 *)
(***************************************************************************)
EXTENDS Handover, TLAPS

\* NetworkChange has replaced the routes.
Changed == {"changed", "connected", "closed", "ended"}

NewTo == [dev |-> to, gw |-> "own", metric |-> 51]
NewFrom == [dev |-> from, gw |-> "own", metric |-> 600]

\* The routes that the two `route add` make of what was read.
SetTo   == [dev |-> to, gw |-> read.toGw, metric |-> 51]
SetFrom == [dev |-> from, gw |-> read.fromGw, metric |-> 600]

(* The second interface keeps a usable route: its old one until the new    *)
(* one is there, and then the new one, which the deletion of the old one   *)
(* spares as it has another metric.                                        *)
ToKept ==
  done /\ MetricFree /\ HadRoute(to) =>
    /\ read.toGw = "own" /\ read.toMetric # 51
    /\ thread \in {"del from", "add to"} => \E r \in routes : r.dev = to /\ Works(r)
    /\ thread \in {"del to", "add from"} \cup Changed => NewTo \in routes

(* The first interface gets its route back at last. *)
FromRestored ==
  done /\ HadRoute(from) =>
    /\ read.fromGw = "own"
    /\ thread \in Changed => NewFrom \in routes

NotDoneBefore ==
  /\ thread \in {"none", "sleeping", "stamped"} => ~ done
  /\ main \in {"start", "requested"} => thread = "none"

RoutesInv == TypeOK /\ ToKept /\ FromRestored /\ NotDoneBefore

-----------------------------------------------------------------------------

LEMMA ManagedRoutes ==
  ASSUME NEW up \in SUBSET Interfaces, NEW better \in BOOLEAN
  PROVE  Managed(up, better) \subseteq Route
BY ConstantsAssumption DEF Managed, Route

LEMMA DirectionsDiffer == \A d \in Directions : d \in Interfaces \X Interfaces /\ d[1] # d[2]
BY DEF Directions

LEMMA RoutesInit == Init => RoutesInv
<1> SUFFICES ASSUME Init PROVE RoutesInv
  OBVIOUS
<1>1. routes \subseteq Route
  BY ManagedRoutes DEF Init
<1>2. <<from, to>> \in Directions
  BY DEF Init, Directions
<1>3. TypeOK
  BY <1>1, <1>2, ZenonT(60), ConstantsAssumption DEF Init, Fresh, TypeOK
<1> QED
  BY <1>3 DEF Init, Fresh, RoutesInv, ToKept, FromRestored, NotDoneBefore

LEMMA NextTrialKeeps == RoutesInv /\ NextTrial => RoutesInv'
<1> SUFFICES ASSUME RoutesInv, NextTrial PROVE RoutesInv'
  OBVIOUS
<1>1. routes' \subseteq Route
  BY ManagedRoutes DEF NextTrial, RoutesInv, TypeOK
<1>2. <<from', to'>> \in Directions
  BY DEF NextTrial, Directions
<1>3. TypeOK'
  <2>1. /\ before' \subseteq Route
        /\ path' \in Interfaces \cup {"none"}
        /\ clock' \in Nat
    BY DEF NextTrial, Fresh
  <2>6. /\ main' \in {"start", "requested", "spawned", "stamped", "ended", "aborted"}
        /\ thread' \in {"none", "sleeping", "stamped", "del from", "add to", "del to",
                        "add from", "changed", "connected", "closed", "ended"}
    BY DEF NextTrial, Fresh
  <2>4. done' \in BOOLEAN /\ prompt' \in BOOLEAN
    BY DEF RoutesInv, TypeOK, NextTrial, Fresh
  <2>5. trial' \in Nat
    <3>1. trial \in Nat /\ trial' = trial + 1
      BY DEF RoutesInv, TypeOK, NextTrial
    <3> QED
      BY <3>1
  <2>2. read' \in [fromGw : {"own", "garbage"}, toGw : {"own", "garbage"}, toMetric : Metrics]
    BY ConstantsAssumption DEF NextTrial, Fresh
  <2>3. stamp' \in [Stamps -> Nat]
    BY DEF NextTrial, Fresh
  <2> QED
    BY <1>1, <1>2, <2>1, <2>2, <2>3, <2>4, <2>5, <2>6 DEF TypeOK
<1> QED
  BY <1>3 DEF NextTrial, Fresh, RoutesInv, ToKept, FromRestored, NotDoneBefore

(* Steps that touch neither the routes nor what NetworkChange knows of     *)
(* them, and do not take the thread back.                                  *)
LEMMA QuietKeeps ==
  ASSUME RoutesInv, TypeOK', UNCHANGED <<routes, from, to, read, before, done>>,
         \/ thread' = thread
         \/ thread \in {"none", "sleeping", "stamped"}
         \/ thread \in Changed /\ thread' \in Changed,
         NotDoneBefore'
  PROVE  RoutesInv'
<1>1. ToKept'
  BY DEF RoutesInv, NotDoneBefore, ToKept, MetricFree, HadRoute, Works, NewTo, Changed
<1>2. FromRestored'
  BY DEF RoutesInv, NotDoneBefore, FromRestored, HadRoute, Works, NewFrom, Changed
<1> QED
  BY <1>1, <1>2 DEF RoutesInv

LEMMA QuietSteps ==
  ASSUME RoutesInv,
         \/ FirstRequest \/ Spawn \/ MainStamps \/ Join \/ ThreadStarts \/ TableFails
         \/ SecondConnects \/ SecondReturns \/ Prints
  PROVE  RoutesInv'
<1>1. UNCHANGED <<routes, from, to, prompt, trial, read, before, done>>
  BY DEF FirstRequest, Spawn, MainStamps, Join, ThreadStarts, TableFails, SecondConnects,
         SecondReturns, Prints, Abort, Environment
<1>2. /\ main' \in {"start", "requested", "spawned", "stamped", "ended", "aborted"}
      /\ thread' \in {"none", "sleeping", "stamped", "changed", "connected", "closed", "ended"}
                       \cup {thread}
  BY DEF RoutesInv, TypeOK, FirstRequest, Spawn, MainStamps, Join, ThreadStarts, TableFails,
         SecondConnects, SecondReturns, Prints, Abort
<1>3. path' \in Interfaces \cup {"none"}
  BY DEF RoutesInv, TypeOK, FirstRequest, Spawn, MainStamps, Join, ThreadStarts, TableFails,
         SecondConnects, SecondReturns, Prints, Abort, Best, Lowest, Route
<1>4. clock' \in Nat /\ stamp' \in [Stamps -> Nat]
  <2>1. \/ UNCHANGED <<clock, stamp>>
        \/ clock' = clock + 1 /\ stamp' = stamp
        \/ clock' = clock /\ stamp' = [stamp EXCEPT !["total start"] = 1]
        \/ \E s \in Stamps : Stamp(s)
    <3>1. CASE FirstRequest \/ Spawn \/ MainStamps \/ Join \/ TableFails \/ Prints
      BY <3>1 DEF FirstRequest, Spawn, MainStamps, Join, TableFails, Prints, Abort
    <3>2. CASE ThreadStarts \/ SecondConnects \/ SecondReturns
      BY <3>2 DEF ThreadStarts, SecondConnects, SecondReturns, Abort, Stamps
    <3> QED
      BY <3>1, <3>2
  <2>2. clock \in Nat /\ stamp \in [Stamps -> Nat]
    BY DEF RoutesInv, TypeOK
  <2>3. ASSUME NEW s \in Stamps, Stamp(s) PROVE clock' \in Nat /\ stamp' \in [Stamps -> Nat]
    BY <2>2, <2>3 DEF Stamp
  <2>4. CASE UNCHANGED <<clock, stamp>>
    BY <2>2, <2>4
  <2>5. CASE clock' = clock + 1 /\ stamp' = stamp
    BY <2>2, <2>5
  <2>6. CASE clock' = clock /\ stamp' = [stamp EXCEPT !["total start"] = 1]
    BY <2>2, <2>6
  <2> QED
    BY <2>1, <2>3, <2>4, <2>5, <2>6
<1>5. TypeOK'
  BY <1>1, <1>2, <1>3, <1>4 DEF RoutesInv, TypeOK
<1>6. /\ \/ thread' = thread
         \/ thread \in {"none", "sleeping", "stamped"}
         \/ thread \in Changed /\ thread' \in Changed
      /\ NotDoneBefore'
  <2>0. /\ thread \in {"none", "sleeping", "stamped"} => ~ done
        /\ main \in {"start", "requested"} => thread = "none"
    BY DEF RoutesInv, NotDoneBefore
  <2>1. CASE FirstRequest
    BY <1>1, <2>0, <2>1 DEF NotDoneBefore, FirstRequest, Abort
  <2>2. CASE Spawn
    BY <1>1, <2>0, <2>2 DEF NotDoneBefore, Spawn
  <2>5. CASE MainStamps \/ Join
    BY <1>1, <2>0, <2>5 DEF NotDoneBefore, MainStamps, Join
  <2>3. CASE ThreadStarts \/ TableFails
    BY <1>1, <2>0, <2>3 DEF NotDoneBefore, ThreadStarts, TableFails, Wakes
  <2>4. CASE SecondConnects \/ SecondReturns \/ Prints
    <3>1. thread \in {"changed", "connected", "closed"}
      BY <2>4 DEF SecondConnects, SecondReturns, Prints
    <3>2. thread' \in Changed /\ main' \in {main, "aborted"}
      BY <2>4 DEF SecondConnects, SecondReturns, Prints, Abort, Changed
    <3> QED
      BY <2>0, <3>1, <3>2 DEF NotDoneBefore, Changed
  <2> QED
    BY <2>1, <2>2, <2>3, <2>4, <2>5
<1> QED
  BY <1>1, <1>5, <1>6, QuietKeeps

LEMMA ReadTableKeeps == RoutesInv /\ ReadTable => RoutesInv'
<1> SUFFICES ASSUME RoutesInv, ReadTable PROVE RoutesInv'
  OBVIOUS
<1>1. /\ thread = "stamped" /\ thread' = "del from" /\ before' = routes /\ done' = TRUE
      /\ UNCHANGED <<routes, from, to, prompt, trial, main, path, clock, stamp>>
  BY DEF ReadTable, Commands, Environment
<1>2. PICK f \in {"own", "garbage"}, t \in {"own", "garbage"}, fm \in Metrics, m \in Metrics :
        /\ LookUp(from, f, fm) /\ LookUp(to, t, m)
        /\ read' = [fromGw |-> f, toGw |-> t, toMetric |-> m]
  BY DEF ReadTable
<1>3. TypeOK'
  BY <1>1, <1>2 DEF RoutesInv, TypeOK
<1>4. ToKept'
  <2> SUFFICES ASSUME \A r \in routes : r.dev = to => r.metric # 51,
                      \E r \in routes : r.dev = to,
                      \A r \in routes : r.dev = to => Works(r)
               PROVE  /\ t = "own" /\ m # 51
                      /\ \E r \in routes : r.dev = to /\ Works(r)
    BY <1>1, <1>2 DEF ToKept, MetricFree, HadRoute, Works, Changed
  <2> QED
    BY <1>2 DEF LookUp, RoutesOf, Works
<1>5. FromRestored'
  <2> SUFFICES ASSUME \E r \in routes : r.dev = from,
                      \A r \in routes : r.dev = from => Works(r)
               PROVE  f = "own"
    BY <1>1, <1>2 DEF FromRestored, HadRoute, Works, Changed
  <2> QED
    BY <1>2 DEF LookUp, RoutesOf, Works
<1>6. NotDoneBefore'
  BY <1>1 DEF RoutesInv, NotDoneBefore
<1> QED
  BY <1>3, <1>4, <1>5, <1>6 DEF RoutesInv

-----------------------------------------------------------------------------
(* The commands of NetworkChange *)

LEMMA AddFacts ==
  ASSUME NEW r, Add(r)
  PROVE  /\ routes \subseteq routes' /\ routes' \subseteq routes \cup {r}
         /\ Works(r) => r \in routes'
BY DEF Add

LEMMA DelFacts ==
  ASSUME NEW R, Del(R)
  PROVE  routes' \subseteq routes /\ routes \ R \subseteq routes'
BY DEF Del, Lowest

\* The four commands, with the one that comes next.
DelFrom == thread = "del from" /\ thread' = "add to" /\ Del(RoutesOf(from))
AddTo == /\ thread = "add to" /\ thread' = "del to"
         /\ Add([dev |-> to, gw |-> read.toGw, metric |-> 51])
DelTo == thread = "del to" /\ thread' = "add from" /\ Del(Deleted)
AddFrom == /\ thread = "add from" /\ thread' = "changed"
           /\ Add([dev |-> from, gw |-> read.fromGw, metric |-> 600])

LEMMA CommandsAre ==
  /\ Len(Commands) = 5
  /\ Commands[1] = "del from" /\ Commands[2] = "add to" /\ Commands[3] = "del to"
  /\ Commands[4] = "add from" /\ Commands[5] = "changed"
BY DEF Commands

LEMMA RunCommandIs ==
  ASSUME RunCommand
  PROVE  /\ UNCHANGED <<from, to, prompt, trial, main, read, before, done, path, clock, stamp>>
         /\ DelFrom \/ AddTo \/ DelTo \/ AddFrom
<1>1. PICK i \in 1 .. Len(Commands) - 1 :
        /\ thread = Commands[i] /\ thread' = Commands[i + 1] /\ Command(Commands[i])
        /\ UNCHANGED <<from, to, prompt, trial, main, read, before, done, path, clock, stamp>>
  BY DEF RunCommand
<1>2. i = 1 \/ i = 2 \/ i = 3 \/ i = 4
  <2>1. i \in 1 .. Len(Commands) - 1 /\ Len(Commands) = 5
    BY CommandsAre
  <2> QED
    BY <2>1
<1>3. \/ thread = "del from" /\ thread' = "add to" /\ Command("del from")
      \/ thread = "add to" /\ thread' = "del to" /\ Command("add to")
      \/ thread = "del to" /\ thread' = "add from" /\ Command("del to")
      \/ thread = "add from" /\ thread' = "changed" /\ Command("add from")
  <2>1. CASE i = 1
    <3>1. i + 1 = 2
      BY <2>1
    <3> QED
      BY <1>1, <2>1, <3>1, CommandsAre
  <2>2. CASE i = 2
    <3>1. i + 1 = 3
      BY <2>2
    <3> QED
      BY <1>1, <2>2, <3>1, CommandsAre
  <2>3. CASE i = 3
    <3>1. i + 1 = 4
      BY <2>3
    <3> QED
      BY <1>1, <2>3, <3>1, CommandsAre
  <2>4. CASE i = 4
    <3>1. i + 1 = 5
      BY <2>4
    <3> QED
      BY <1>1, <2>4, <3>1, CommandsAre
  <2> QED
    BY <1>2, <2>1, <2>2, <2>3, <2>4
<1>4. Command("del from") => Del(RoutesOf(from))
  BY DEF Command
<1>5. Command("add to") => Add([dev |-> to, gw |-> read.toGw, metric |-> 51])
  BY DEF Command
<1>6. Command("del to") => Del(Deleted)
  BY DEF Command
<1>7. Command("add from") => Add([dev |-> from, gw |-> read.fromGw, metric |-> 600])
  BY DEF Command
<1> QED
  BY <1>1, <1>3, <1>4, <1>5, <1>6, <1>7 DEF DelFrom, AddTo, DelTo, AddFrom

LEMMA RunCommandKeeps == RoutesInv /\ RunCommand => RoutesInv'
<1> SUFFICES ASSUME RoutesInv, RunCommand PROVE RoutesInv'
  OBVIOUS
<1>1. UNCHANGED <<from, to, prompt, trial, main, read, before, done, path, clock, stamp>>
  BY RunCommandIs
<1>2. from \in Interfaces /\ to \in Interfaces /\ from # to
  BY DEF RoutesInv, TypeOK, Directions
<1>3. routes \subseteq Route /\ read.fromGw \in {"own", "garbage"} /\ read.toGw \in {"own", "garbage"}
  BY DEF RoutesInv, TypeOK
<1>4. /\ [dev |-> to, gw |-> read.toGw, metric |-> 51] \in Route
      /\ [dev |-> from, gw |-> read.fromGw, metric |-> 600] \in Route
  BY <1>2, <1>3, ConstantsAssumption DEF Route
<1> DEFINE Measured == done /\ MetricFree /\ HadRoute(to)
           Left == done /\ HadRoute(from)
<1>5. /\ Measured' <=> Measured
      /\ Left' <=> Left
      /\ NewTo' = NewTo /\ NewFrom' = NewFrom
  BY <1>1 DEF MetricFree, HadRoute, Works, NewTo, NewFrom
<1>6. CASE DelFrom
  <2> USE DEF DelFrom
  <2>1. routes' \subseteq Route
    BY <1>3, <1>6, DelFacts
  <2>2. Measured => \E r \in routes' : r.dev = to /\ Works(r)
    BY <1>2, <1>6, DelFacts DEF RoutesInv, ToKept, RoutesOf
  <2>3. ToKept' /\ FromRestored'
    BY <1>1, <1>5, <1>6, <2>2
       DEF RoutesInv, ToKept, FromRestored, MetricFree, HadRoute, Works, Changed
  <2> QED
    BY <1>1, <1>6, <2>1, <2>3 DEF RoutesInv, TypeOK, NotDoneBefore
<1>7. CASE AddTo
  <2> USE DEF AddTo
  <2>1. routes' \subseteq Route
    <3>1. Add(SetTo)
      BY <1>7 DEF SetTo
    <3>2. routes' \subseteq routes \cup {SetTo}
      BY <3>1, AddFacts, Zenon
    <3>3. SetTo \in Route
      BY <1>4 DEF SetTo
    <3> QED
      BY <1>3, <3>2, <3>3, Zenon
  <2>2. Measured => NewTo \in routes'
    BY <1>7, AddFacts DEF RoutesInv, ToKept, NewTo, Works
  <2>3. ToKept' /\ FromRestored'
    BY <1>1, <1>5, <1>7, <2>2
       DEF RoutesInv, ToKept, FromRestored, MetricFree, HadRoute, Works, Changed
  <2> QED
    BY <1>1, <1>7, <2>1, <2>3 DEF RoutesInv, TypeOK, NotDoneBefore
<1>8. CASE DelTo
  <2> USE DEF DelTo
  <2>1. routes' \subseteq Route
    BY <1>3, <1>8, DelFacts
  <2>2. Measured => NewTo \in routes'
    <3>1. Measured => NewTo \in routes /\ NewTo \notin Deleted
      BY <1>8 DEF RoutesInv, ToKept, NewTo, Deleted
    <3> QED
      BY <1>8, <3>1, DelFacts
  <2>3. ToKept' /\ FromRestored'
    BY <1>1, <1>5, <1>8, <2>2
       DEF RoutesInv, ToKept, FromRestored, MetricFree, HadRoute, Works, Changed
  <2> QED
    BY <1>1, <1>8, <2>1, <2>3 DEF RoutesInv, TypeOK, NotDoneBefore
<1>9. CASE AddFrom
  <2> USE DEF AddFrom
  <2> DEFINE r == [dev |-> from, gw |-> read.fromGw, metric |-> 600]
  <2>0. /\ routes \subseteq routes' /\ routes' \subseteq routes \cup {r}
        /\ Works(r) => r \in routes'
    <3>1. Add(r)
      BY <1>9
    <3> QED
      BY ONLY <3>1, AddFacts
  <2>1. routes' \subseteq Route
    BY <1>3, <1>4, <2>0
  <2>2. /\ Measured => NewTo \in routes'
        /\ Left => NewFrom \in routes'
    <3>1. Measured => NewTo \in routes
      BY <1>9 DEF RoutesInv, ToKept
    <3>2. Left => r = NewFrom
      BY <1>9 DEF RoutesInv, FromRestored, NewFrom
    <3>3. Works(NewFrom)
      BY DEF Works, NewFrom
    <3> HIDE DEF r, Measured, Left
    <3> QED
      BY <2>0, <3>1, <3>2, <3>3
  <2>3. ToKept' /\ FromRestored'
    BY <1>1, <1>5, <1>9, <2>2
       DEF RoutesInv, ToKept, FromRestored, MetricFree, HadRoute, Works, Changed
  <2> QED
    BY <1>1, <1>9, <2>1, <2>3 DEF RoutesInv, TypeOK, NotDoneBefore
<1> QED
  BY <1>6, <1>7, <1>8, <1>9, RunCommandIs

LEMMA RoutesStep == RoutesInv /\ [Next]_vars => RoutesInv'
<1> SUFFICES ASSUME RoutesInv, [Next]_vars PROVE RoutesInv'
  OBVIOUS
<1>1. CASE UNCHANGED vars
  <2>1. /\ UNCHANGED <<routes, from, to, prompt, trial, main, thread, read, before, done>>
        /\ UNCHANGED <<path, clock, stamp>>
    BY <1>1 DEF vars, process
  <2>2. TypeOK'
    BY <2>1, ZenonT(60) DEF RoutesInv, TypeOK
  <2>3. NotDoneBefore'
    BY <2>1 DEF RoutesInv, NotDoneBefore
  <2> QED
    BY <2>1, <2>2, <2>3, QuietKeeps
<1> QED
  BY <1>1, QuietSteps, ReadTableKeeps, RunCommandKeeps, NextTrialKeeps DEF Next

-----------------------------------------------------------------------------
(* The theorems *)

(* The variables keep their types: NetworkChange puts no route into the    *)
(* table but of an interface, with its own gateway or garbage.             *)
THEOREM HandoverTypeCorrect == Spec => []TypeOK
<1>1. RoutesInv => TypeOK
  BY DEF RoutesInv
<1> QED
  BY RoutesInit, RoutesStep, <1>1, PTL DEF Spec

(* From one command of NetworkChange to the next the host has a usable     *)
(* default route, if both interfaces had one and the metric was free.      *)
THEOREM HandoverNeverCutOff == Spec => []NeverCutOff
<1>1. RoutesInv => NeverCutOff
  <2> SUFFICES ASSUME RoutesInv, done, MetricFree, HadRoute(to)
               PROVE  \E r \in routes : Works(r)
    BY DEF NeverCutOff
  <2>1. thread \in {"del from", "add to", "del to", "add from"} \cup Changed
    BY DEF RoutesInv, TypeOK, NotDoneBefore, Changed
  <2>2. CASE thread \in {"del from", "add to"}
    BY <2>2 DEF RoutesInv, ToKept
  <2>3. CASE thread \in {"del to", "add from"} \cup Changed
    BY <2>3 DEF RoutesInv, ToKept, NewTo, Works
  <2> QED
    BY <2>1, <2>2, <2>3
<1> QED
  BY RoutesInit, RoutesStep, <1>1, PTL DEF Spec

(* After NetworkChange the host can be reached, also when one of the two   *)
(* interfaces had no usable route.                                         *)
THEOREM HandoverComesBack == Spec => []ComesBack
<1>1. RoutesInv => ComesBack
  <2> SUFFICES ASSUME RoutesInv, done, MetricFree, HadRoute(from) \/ HadRoute(to),
                      thread \in Changed
               PROVE  \E r \in routes : Works(r)
    BY DEF ComesBack, Changed
  <2>1. NewTo \in routes \/ NewFrom \in routes
    BY DEF RoutesInv, ToKept, FromRestored
  <2> QED
    BY <2>1 DEF NewTo, NewFrom, Works
<1> QED
  BY RoutesInit, RoutesStep, <1>1, PTL DEF Spec

-----------------------------------------------------------------------------
(* The stamps *)

\* The thread has taken the stamp of its start.
Awake == {"stamped", "del from", "add to", "del to", "add from", "changed", "connected", "closed"}

(* Whether main is over, and has stamped, when the thread is awake; the    *)
(* stamps of the thread follow one another and the first request.          *)
StampInv ==
  /\ main \in {"ended", "aborted"} => thread = "ended"
  /\ main \in {"requested", "spawned", "stamped"} => clock >= 1
  /\ main = "stamped" => stamp["total start"] = 1
  /\ prompt /\ thread \in Awake => main = "stamped"
  /\ thread \in Awake => 1 < stamp["handover start"] /\ stamp["handover start"] <= clock
  /\ thread \in {"connected", "closed"} =>
       stamp["handover start"] < stamp["handover end"] /\ stamp["handover end"] <= clock
  /\ thread = "closed" => stamp["handover end"] < stamp["total end"]

LEMMA StampTaken ==
  ASSUME clock \in Nat, stamp \in [Stamps -> Nat], NEW s \in Stamps, Stamp(s)
  PROVE  /\ clock' = clock + 1 /\ clock' \in Nat /\ stamp'[s] = clock'
         /\ \A r \in Stamps : r # s => stamp'[r] = stamp[r]
BY DEF Stamp

LEMMA LaterThan == \A n \in Nat : n + 1 >= 1 /\ n + 1 <= n + 1 /\ \A m \in Nat : m <= n => m < n + 1 /\ m <= n + 1
OBVIOUS

LEMMA StampStep == RoutesInv /\ StampInv /\ [Next]_vars => StampInv'
<1> SUFFICES ASSUME RoutesInv, StampInv, [Next]_vars PROVE StampInv'
  OBVIOUS
<1>1. clock \in Nat /\ stamp \in [Stamps -> Nat] /\ NotDoneBefore
  BY DEF RoutesInv, TypeOK
<1>2. \A s \in Stamps : stamp[s] \in Nat
  BY <1>1
<1>3. {"total start", "handover start", "handover end", "total end"} \subseteq Stamps
  BY DEF Stamps
<1>4. CASE FirstRequest \/ Spawn \/ Join
  <2>1. thread' \notin Awake
    BY <1>1, <1>4 DEF StampInv, NotDoneBefore, FirstRequest, Spawn, Join, Abort, Awake
  <2>2. clock' >= 1 \/ main' \in {"aborted", "ended"}
    <3>1. CASE FirstRequest
      <4>1. main' = "aborted" \/ clock' = clock + 1
        BY <3>1 DEF FirstRequest, Abort
      <4>2. clock \in Nat
        BY <1>1
      <4>3. clock' = clock + 1 => clock' >= 1
        BY <4>2
      <4> QED
        BY <4>1, <4>3
    <3>2. CASE Spawn \/ Join
      BY <3>2 DEF StampInv, Spawn, Join
    <3> QED
      BY <1>4, <3>1, <3>2
  <2>3. /\ main' # "stamped"
        /\ main' \in {"ended", "aborted"} => thread' = "ended"
    BY <1>4 DEF FirstRequest, Spawn, Join, Abort
  <2> QED
    BY <2>1, <2>2, <2>3 DEF StampInv, Awake
<1>5. CASE MainStamps
  <2>1. /\ main = "spawned" /\ main' = "stamped" /\ UNCHANGED <<thread, clock, prompt>>
        /\ stamp' = [stamp EXCEPT !["total start"] = 1]
    BY <1>5 DEF MainStamps, Environment
  <2>2. stamp'["total start"] = 1 /\ \A s \in Stamps : s # "total start" => stamp'[s] = stamp[s]
    BY <1>1, <1>3, <2>1
  <2> QED
    BY <1>3, <2>1, <2>2 DEF StampInv
<1>6. CASE ThreadStarts
  <2>1. /\ thread = "sleeping" /\ thread' = "stamped" /\ (prompt => main = "stamped")
        /\ UNCHANGED <<main, prompt>> /\ Stamp("handover start")
    BY <1>6 DEF ThreadStarts, Wakes, Environment
  <2>2. clock >= 1
    <3>1. main \in {"requested", "spawned", "stamped"}
      BY <1>1, <2>1 DEF StampInv, RoutesInv, TypeOK, NotDoneBefore
    <3> QED
      BY <3>1 DEF StampInv
  <2>3. /\ clock' = clock + 1 /\ stamp'["handover start"] = clock'
        /\ \A s \in Stamps : s # "handover start" => stamp'[s] = stamp[s]
    BY <1>1, <1>3, <2>1, StampTaken
  <2>4. 1 < clock' /\ clock' >= 1 /\ clock' <= clock'
    <3>1. clock \in Nat /\ clock >= 1 /\ clock' = clock + 1
      BY <1>1, <2>2, <2>3
    <3> QED
      BY <3>1
  <2> QED
    BY <1>3, <2>1, <2>3, <2>4 DEF StampInv, Awake
<1>7. CASE TableFails \/ ReadTable \/ RunCommand
  <2>1. /\ UNCHANGED <<main, prompt, clock, stamp>> /\ thread \in Awake
        /\ thread' \in Awake \ {"connected", "closed"}
    <3>1. CASE TableFails
      BY <3>1 DEF TableFails, Environment, Awake
    <3>2. CASE ReadTable
      BY <3>2 DEF ReadTable, Environment, Awake, Commands
    <3>3. CASE RunCommand
      BY <3>3, RunCommandIs DEF DelFrom, AddTo, DelTo, AddFrom, Awake
    <3> QED
      BY <1>7, <3>1, <3>2, <3>3
  <2> QED
    BY <2>1 DEF StampInv, Awake
<1>8. CASE (SecondConnects \/ SecondReturns \/ Prints) /\ thread' = "ended"
  <2>1. UNCHANGED <<prompt, clock, stamp>> /\ main' \in {main, "aborted"}
    <3>1. CASE Prints
      BY <3>1 DEF Prints, Environment
    <3>2. CASE SecondConnects \/ SecondReturns
      BY <1>8, <3>2 DEF SecondConnects, SecondReturns, Abort, Environment
    <3> QED
      BY <1>8, <3>1, <3>2
  <2> QED
    BY <1>8, <2>1 DEF StampInv, Awake
<1>9. CASE SecondConnects /\ thread' # "ended"
  <2>1. /\ thread = "changed" /\ thread' = "connected" /\ UNCHANGED <<main, prompt>>
        /\ Stamp("handover end")
    BY <1>9 DEF SecondConnects, Abort, Environment
  <2>2. /\ clock' = clock + 1 /\ stamp'["handover end"] = clock'
        /\ \A s \in Stamps : s # "handover end" => stamp'[s] = stamp[s]
    BY <1>1, <1>3, <2>1, StampTaken
  <2>3. 1 < stamp["handover start"] /\ stamp["handover start"] <= clock
    BY <2>1 DEF StampInv, Awake
  <2>4. stamp["handover start"] < clock' /\ clock' <= clock' /\ clock' >= 1
        /\ stamp["handover start"] <= clock'
    <3>1. /\ clock \in Nat /\ clock' = clock + 1 /\ stamp["handover start"] \in Nat
          /\ stamp["handover start"] <= clock
      BY <1>1, <1>2, <1>3, <2>2, <2>3
    <3> QED
      BY <3>1, LaterThan
  <2> QED
    BY <1>3, <2>1, <2>2, <2>3, <2>4 DEF StampInv, Awake
<1>10. CASE SecondReturns /\ thread' # "ended"
  <2>1. /\ thread = "connected" /\ thread' = "closed" /\ UNCHANGED <<main, prompt>>
        /\ Stamp("total end")
    BY <1>10 DEF SecondReturns, Abort, Environment
  <2>2. /\ clock' = clock + 1 /\ stamp'["total end"] = clock'
        /\ \A s \in Stamps : s # "total end" => stamp'[s] = stamp[s]
    BY <1>1, <1>3, <2>1, StampTaken
  <2>3. /\ 1 < stamp["handover start"] /\ stamp["handover start"] <= clock
        /\ stamp["handover start"] < stamp["handover end"] /\ stamp["handover end"] <= clock
    BY <2>1 DEF StampInv, Awake
  <2>4. /\ stamp["handover end"] < clock' /\ stamp["handover end"] <= clock'
        /\ clock' >= 1
        /\ stamp["handover start"] <= clock'
    <3>1. /\ clock \in Nat /\ clock' = clock + 1
          /\ stamp["handover start"] \in Nat /\ stamp["handover end"] \in Nat
          /\ stamp["handover start"] <= clock /\ stamp["handover end"] <= clock
      BY <1>1, <1>2, <1>3, <2>2, <2>3
    <3> QED
      BY <3>1, LaterThan
  <2> QED
    BY <1>3, <2>1, <2>2, <2>3, <2>4 DEF StampInv, Awake
<1>11. CASE NextTrial
  <2>1. main' = "start" /\ thread' = "none"
    BY <1>11 DEF NextTrial, Fresh
  <2> QED
    BY <2>1 DEF StampInv, Awake
<1>12. CASE UNCHANGED vars
  BY <1>12 DEF StampInv, vars, process
<1> QED
  BY <1>4, <1>5, <1>6, <1>7, <1>8, <1>9, <1>10, <1>11, <1>12 DEF Next, Prints

(* Each delay that is printed is positive, if main goes on while the       *)
(* thread sleeps: the stamps are taken in the order of the differences.    *)
THEOREM HandoverStampsInOrder == Spec => []StampsInOrder
<1>1. Init => StampInv
  BY DEF Init, Fresh, StampInv, Awake
<1>2. StampInv => StampsInOrder
  <2> SUFFICES ASSUME StampInv, prompt, thread = "closed" PROVE StampsInOrder
    BY DEF StampsInOrder
  <2>1. stamp["total start"] = 1
    BY DEF StampInv, Awake
  <2>2. /\ 1 < stamp["handover start"]
        /\ stamp["handover start"] < stamp["handover end"]
        /\ stamp["handover end"] < stamp["total end"]
    BY DEF StampInv, Awake
  <2>3. 0 < stamp["total start"]
    <3>1. 0 < 1
      OBVIOUS
    <3> QED
      BY <2>1, <3>1, Zenon
  <2>4. stamp["total start"] < stamp["handover start"]
    BY <2>1, <2>2
  <2> QED
    BY <2>2, <2>3, <2>4 DEF StampsInOrder
<1> QED
  BY RoutesInit, RoutesStep, StampStep, <1>1, <1>2, PTL DEF Spec

-----------------------------------------------------------------------------
(* The path of the second connection *)

Single(dev) == \A r, s \in RoutesOf(dev) : r = s

OldTo   == [dev |-> to, gw |-> read.toGw, metric |-> read.toMetric]

(* However many trials leave their routes to the next one, an interface    *)
(* has one default route at most, but for the moment between the two       *)
(* commands that replace the route of the second; and after the commands   *)
(* the routes of the two interfaces are those that NetworkChange adds.     *)
TableInv ==
  /\ \A dev \in Interfaces : (thread = "del to" /\ dev = to) \/ Single(dev)
  /\ thread \in {"del from", "add to"} => RoutesOf(to) \subseteq {OldTo}
  /\ thread = "del to" => RoutesOf(to) \subseteq {OldTo, SetTo}
  /\ thread \in {"del from", "add to", "del to", "add from"} => done
  /\ thread \in {"add to", "del to", "add from"} => RoutesOf(from) = {}
  /\ thread = "add from" \/ (done /\ thread \in Changed) => RoutesOf(to) \subseteq {SetTo}
  /\ done /\ thread \in Changed => RoutesOf(from) \subseteq {SetFrom}
  /\ thread \notin {"connected", "closed", "ended"} => path = "none"

LEMMA DifferentInterfaces ==
  ASSUME TypeOK
  PROVE  from \in Interfaces /\ to \in Interfaces /\ from # to
BY DEF TypeOK, Directions

LEMMA ManagedSingle ==
  ASSUME NEW up \in SUBSET Interfaces, NEW better \in BOOLEAN
  PROVE  \A r, s \in Managed(up, better) : r.dev = s.dev => r = s
BY DEF Managed

LEMMA TableInit == Init => TableInv
<1> SUFFICES ASSUME Init PROVE TableInv
  OBVIOUS
<1>1. \A dev \in Interfaces : Single(dev)
  BY ManagedSingle DEF Init, Single, RoutesOf
<1>2. thread = "none" /\ path = "none"
  BY DEF Init, Fresh
<1> QED
  BY <1>1, <1>2 DEF TableInv, Changed

LEMMA NextTrialTable == ASSUME RoutesInv, StampInv, TableInv, NextTrial PROVE TableInv'
<1>1. thread = "ended"
  BY DEF NextTrial, StampInv
<1>2. \A dev \in Interfaces : Single(dev)'
  <2>1. CASE routes' = routes
    BY <1>1, <2>1 DEF TableInv, Single, RoutesOf
  <2>2. CASE \E up \in SUBSET Interfaces, better \in BOOLEAN : routes' = Managed(up, better)
    BY <2>2, ManagedSingle DEF Single, RoutesOf
  <2> QED
    BY <2>1, <2>2 DEF NextTrial
<1>3. thread' = "none" /\ path' = "none"
  BY DEF NextTrial, Fresh
<1> QED
  BY <1>2, <1>3 DEF TableInv, Changed

LEMMA ReadTableTable == ASSUME RoutesInv, TableInv, ReadTable PROVE TableInv'
<1>1. /\ thread = "stamped" /\ thread' = "del from" /\ done' = TRUE
      /\ UNCHANGED <<routes, from, to, path>>
  BY DEF ReadTable, Commands, Environment
<1>2. PICK f \in {"own", "garbage"}, t \in {"own", "garbage"}, fm \in Metrics, m \in Metrics :
        /\ LookUp(to, t, m)
        /\ read' = [fromGw |-> f, toGw |-> t, toMetric |-> m]
  BY DEF ReadTable
<1>3. \A dev \in Interfaces : Single(dev)
  BY <1>1 DEF TableInv
<1>4. RoutesOf(to) \subseteq {[dev |-> to, gw |-> t, metric |-> m]}
  <2> SUFFICES ASSUME NEW r \in RoutesOf(to) PROVE r = [dev |-> to, gw |-> t, metric |-> m]
    OBVIOUS
  <2>1. r.gw = t /\ r.metric = m
    <3>1. PICK s \in RoutesOf(to) : t = s.gw /\ m = s.metric
      BY <1>2 DEF LookUp
    <3>2. Single(to)
      BY <1>3, DifferentInterfaces DEF RoutesInv
    <3> QED
      BY <3>1, <3>2 DEF Single
  <2>2. r.dev = to /\ r \in Route
    BY DEF RoutesOf, RoutesInv, TypeOK
  <2> QED
    BY <2>1, <2>2 DEF Route
<1>5. (RoutesOf(to) \subseteq {OldTo})'
  BY <1>1, <1>2, <1>4 DEF RoutesOf, OldTo
<1>6. path' = "none" /\ \A dev \in Interfaces : Single(dev)'
  BY <1>1, <1>3 DEF TableInv, Single, RoutesOf
<1> QED
  BY <1>1, <1>5, <1>6 DEF TableInv, Changed

LEMMA RunCommandTable == ASSUME RoutesInv, TableInv, RunCommand PROVE TableInv'
<1>1. UNCHANGED <<from, to, read, done, path>>
  BY RunCommandIs
<1>2. from \in Interfaces /\ to \in Interfaces /\ from # to
  BY DifferentInterfaces DEF RoutesInv
<1>3. OldTo' = OldTo /\ SetTo' = SetTo /\ SetFrom' = SetFrom
  BY <1>1 DEF OldTo, SetTo, SetFrom
<1>4. CASE DelFrom
  <2>1. thread = "del from" /\ thread' = "add to" /\ Del(RoutesOf(from))
    BY <1>4 DEF DelFrom
  <2>2. done /\ path = "none" /\ RoutesOf(to) \subseteq {OldTo} /\ \A dev \in Interfaces : Single(dev)
    BY <2>1 DEF TableInv
  <2>3. routes' \subseteq routes
    BY <2>1, DelFacts
  <2>4. RoutesOf(from)' = {}
    <3>1. CASE RoutesOf(from) = {}
      BY <1>1, <2>3, <3>1 DEF RoutesOf
    <3>2. CASE RoutesOf(from) # {}
      <4>1. PICK r \in RoutesOf(from) : routes' = routes \ {r}
        BY <2>1, <3>2 DEF Del, Lowest
      <4>2. \A s \in RoutesOf(from) : s = r
        BY <1>2, <2>2 DEF Single
      <4> QED
        BY <1>1, <4>1, <4>2 DEF RoutesOf
    <3> QED
      BY <3>1, <3>2
  <2>5. (RoutesOf(to) \subseteq {OldTo})' /\ \A dev \in Interfaces : Single(dev)'
    BY <1>1, <1>3, <2>2, <2>3 DEF RoutesOf, Single
  <2> QED
    BY <1>1, <2>1, <2>2, <2>4, <2>5 DEF TableInv, Changed
<1>5. CASE AddTo
  <2>1. thread = "add to" /\ thread' = "del to" /\ routes' \subseteq routes \cup {SetTo}
    BY <1>5, AddFacts DEF AddTo, SetTo
  <2>2. /\ done /\ path = "none" /\ RoutesOf(to) \subseteq {OldTo} /\ RoutesOf(from) = {}
        /\ \A dev \in Interfaces : Single(dev)
    BY <2>1 DEF TableInv
  <2>3. SetTo.dev = to
    BY DEF SetTo
  <2>4. RoutesOf(from)' = {}
    BY <1>1, <1>2, <2>1, <2>2, <2>3 DEF RoutesOf
  <2>5. (RoutesOf(to) \subseteq {OldTo, SetTo})'
    BY <1>1, <1>3, <2>1, <2>2 DEF RoutesOf
  <2>6. \A dev \in Interfaces : dev # to => Single(dev)'
    BY <2>1, <2>2, <2>3 DEF RoutesOf, Single
  <2> QED
    BY <1>1, <2>1, <2>2, <2>4, <2>5, <2>6 DEF TableInv, Changed
<1>6. CASE DelTo
  <2>1. thread = "del to" /\ thread' = "add from" /\ Del(Deleted)
    BY <1>6 DEF DelTo
  <2>2. /\ done /\ path = "none" /\ RoutesOf(to) \subseteq {OldTo, SetTo} /\ RoutesOf(from) = {}
        /\ \A dev \in Interfaces : dev # to => Single(dev)
    BY <2>1 DEF TableInv
  <2>3. routes' \subseteq routes
    BY <2>1, DelFacts
  <2>4. RoutesOf(from)' = {}
    BY <1>1, <2>2, <2>3 DEF RoutesOf
  <2>5. (RoutesOf(to) \subseteq {SetTo})'
    <3>1. CASE OldTo \notin RoutesOf(to) \/ OldTo = SetTo
      BY <1>1, <1>3, <2>2, <2>3, <3>1 DEF RoutesOf
    <3>2. CASE OldTo \in RoutesOf(to) /\ OldTo # SetTo
      <4>1. OldTo.metric = read.toMetric /\ SetTo.metric # read.toMetric
        BY <3>2 DEF OldTo, SetTo
      <4>2. Deleted = {OldTo}
        BY <2>2, <3>2, <4>1 DEF Deleted
      <4>3. routes' = routes \ {OldTo}
        BY <2>1, <4>2 DEF Del, Lowest
      <4> QED
        BY <1>1, <1>3, <2>2, <4>3 DEF RoutesOf
    <3> QED
      BY <3>1, <3>2
  <2>6. \A dev \in Interfaces : Single(dev)'
    BY <1>1, <2>2, <2>3, <2>5 DEF RoutesOf, Single
  <2> QED
    BY <1>1, <2>1, <2>2, <2>4, <2>5, <2>6 DEF TableInv, Changed
<1>7. CASE AddFrom
  <2>1. thread = "add from" /\ thread' = "changed" /\ routes' \subseteq routes \cup {SetFrom}
    <3>1. thread = "add from" /\ thread' = "changed" /\ Add(SetFrom)
      BY <1>7 DEF AddFrom, SetFrom
    <3> QED
      BY <3>1, AddFacts, Zenon
  <2>2. /\ path = "none" /\ RoutesOf(to) \subseteq {SetTo} /\ RoutesOf(from) = {}
        /\ \A dev \in Interfaces : Single(dev)
    BY <2>1 DEF TableInv
  <2>3. SetFrom.dev = from
    BY DEF SetFrom
  <2>4. (RoutesOf(from) \subseteq {SetFrom})'
    BY <1>1, <1>3, <2>1, <2>2 DEF RoutesOf
  <2>5. (RoutesOf(to) \subseteq {SetTo})'
    BY <1>1, <1>2, <1>3, <2>1, <2>2, <2>3 DEF RoutesOf
  <2>6. \A dev \in Interfaces : Single(dev)'
    BY <1>1, <2>1, <2>2, <2>3, <2>4 DEF RoutesOf, Single
  <2> QED
    BY <1>1, <2>1, <2>2, <2>4, <2>5, <2>6 DEF TableInv, Changed
<1> QED
  BY <1>4, <1>5, <1>6, <1>7, RunCommandIs

LEMMA QuietTable ==
  ASSUME RoutesInv, TableInv,
         \/ FirstRequest \/ Spawn \/ MainStamps \/ Join \/ ThreadStarts \/ TableFails
         \/ SecondConnects \/ SecondReturns \/ Prints \/ UNCHANGED vars
  PROVE  TableInv'
<1>1. UNCHANGED <<routes, from, to, read, done>>
  BY DEF FirstRequest, Spawn, MainStamps, Join, ThreadStarts, TableFails, SecondConnects,
         SecondReturns, Prints, Abort, Environment, vars, process
<1>2. \/ thread' = thread /\ path' = path
      \/ thread \in {"none", "sleeping"} /\ thread' \in {"sleeping", "stamped", "ended"} /\ path' = path
      \/ thread = "stamped" /\ thread' = "changed" /\ path' = path
      \/ thread \in Changed /\ thread' \in {"connected", "closed", "ended"}
  <2>1. CASE FirstRequest \/ Spawn
    BY <2>1 DEF RoutesInv, NotDoneBefore, FirstRequest, Spawn, Abort
  <2>2. CASE Spawn
    BY <2>2 DEF RoutesInv, NotDoneBefore, Spawn
  <2>3. CASE MainStamps \/ Join \/ UNCHANGED vars
    BY <2>3 DEF MainStamps, Join, vars, process
  <2>4. CASE ThreadStarts \/ TableFails
    BY <2>4 DEF ThreadStarts, Wakes, TableFails
  <2>5. CASE SecondConnects \/ SecondReturns \/ Prints
    BY <2>5 DEF SecondConnects, SecondReturns, Prints, Abort, Changed
  <2> QED
    BY <2>1, <2>2, <2>3, <2>4, <2>5
<1>3. thread \in {"none", "sleeping", "stamped"} => ~ done
  BY DEF RoutesInv, NotDoneBefore
<1>4. /\ OldTo' = OldTo /\ SetTo' = SetTo /\ SetFrom' = SetFrom
      /\ \A dev \in Interfaces : Single(dev)' <=> Single(dev)
      /\ RoutesOf(to)' = RoutesOf(to) /\ RoutesOf(from)' = RoutesOf(from)
  BY <1>1 DEF OldTo, SetTo, SetFrom, Single, RoutesOf
<1> QED
  BY <1>1, <1>2, <1>3, <1>4 DEF TableInv, Changed

LEMMA TableStep == RoutesInv /\ StampInv /\ TableInv /\ [Next]_vars => TableInv'
BY NextTrialTable, ReadTableTable, RunCommandTable, QuietTable DEF Next

\* The best route is the one that the second interface was given.
LEMMA PathChosen ==
  ASSUME Interfaces = {"eth0", "wlo1"}, RoutesInv, TableInv, SecondConnects,
         done, MetricFree, HadRoute(from), HadRoute(to), path' # path
  PROVE  path' = to
<1>1. thread = "changed"
  BY DEF SecondConnects
<1>2. PICK r \in Best : path' = r.dev
  BY DEF SecondConnects, Abort
<1>3. NewTo \in routes /\ NewTo.metric = 51
  BY <1>1 DEF RoutesInv, ToKept, Changed, NewTo
<1>4. r \in routes /\ r.metric <= 51
  BY <1>2, <1>3 DEF Best, Lowest
<1>5. r.dev \in {from, to}
  BY <1>4, DifferentInterfaces DEF RoutesInv, TypeOK, Route
<1>6. r.dev # from
  <2> SUFFICES ASSUME r.dev = from PROVE FALSE
    OBVIOUS
  <2>1. r = SetFrom
    BY <1>1, <1>4 DEF TableInv, RoutesOf, Changed
  <2>2. 600 <= 51
    BY <1>4, <2>1 DEF SetFrom
  <2> QED
    BY <2>2
<1> QED
  BY <1>2, <1>5, <1>6

LEMMA HandsOverStep ==
  ASSUME Interfaces = {"eth0", "wlo1"}, RoutesInv, TableInv, HandsOver, [Next]_vars
  PROVE  HandsOver'
<1>1. CASE NextTrial
  BY <1>1 DEF NextTrial, Fresh, HandsOver
<1>2. CASE ReadTable
  <2>1. path' = "none"
    BY <1>2 DEF ReadTable, TableInv
  <2> QED
    BY <2>1 DEF HandsOver
<1>3. CASE /\ UNCHANGED <<from, to, before, done>>
           /\ path' = path \/ SecondConnects
  <2>1. MetricFree' = MetricFree /\ HadRoute(from)' = HadRoute(from) /\ HadRoute(to)' = HadRoute(to)
    BY <1>3 DEF MetricFree, HadRoute
  <2> QED
    BY <1>3, <2>1, PathChosen DEF HandsOver
<1>4. \/ NextTrial \/ ReadTable
      \/ UNCHANGED <<from, to, before, done>> /\ (path' = path \/ SecondConnects)
  <2>1. CASE RunCommand
    BY <2>1, RunCommandIs
  <2>2. CASE ~ RunCommand
    BY <2>2 DEF Next, FirstRequest, Spawn, MainStamps, Join, ThreadStarts, TableFails, SecondConnects,
         SecondReturns, Prints, Abort, Environment, vars, process
  <2> QED
    BY <2>1, <2>2
<1> QED
  BY <1>1, <1>2, <1>3, <1>4

(* The second connection of a measured handover goes through the second    *)
(* interface: of the two that the experiment has, in any number of trials  *)
(* that find the routes of those before them.                              *)
THEOREM HandoverHandsOver ==
  ASSUME Interfaces = {"eth0", "wlo1"}
  PROVE  Spec => []HandsOver
<1>1. Init => StampInv
  BY DEF Init, Fresh, StampInv, Awake
<1>2. Init => HandsOver
  BY DEF Init, Fresh, HandsOver
<1>3. RoutesInv /\ TableInv /\ HandsOver /\ [Next]_vars => HandsOver'
  BY HandsOverStep
<1> QED
  BY RoutesInit, RoutesStep, StampStep, TableInit, TableStep, <1>1, <1>2, <1>3, PTL DEF Spec
=============================================================================
