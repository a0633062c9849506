------------------------- MODULE ServerLifecycleProofs -------------------------
(***************************************************************************)
(* Proofs about ServerLifecycle, for any finite pool with any number of    *)
(* threads, any number of connections and of calls of start() and stop().  *)
(***************************************************************************)
EXTENDS ServerLifecycle, FiniteSetTheorems, TLAPS

States == {"new", "run", "resource", "done"} \cup Results

(* How many threads are in one of the states S. *)
Count(S) == Cardinality({t \in Pool : thread[t] \in S})

LEMMA CountType ==
  ASSUME NEW S
  PROVE  /\ IsFiniteSet({t \in Pool : thread[t] \in S})
         /\ Count(S) \in Nat
         /\ \A t \in Pool : thread[t] \in S => Count(S) > 0
<1>1. IsFiniteSet({t \in Pool : thread[t] \in S})
  BY FS_Subset, ConstantsAssumption
<1>2. Count(S) \in Nat
  BY <1>1, FS_CardinalityType DEF Count
<1>3. ASSUME NEW t \in Pool, thread[t] \in S PROVE Count(S) > 0
  <2>1. {u \in Pool : thread[u] \in S} # {}
    BY <1>3
  <2>2. Count(S) # 0
    BY <1>1, <2>1, FS_EmptySet DEF Count
  <2> QED
    BY <1>2, <2>2
<1> QED
  BY <1>1, <1>2, <1>3

LEMMA CountTypeNext ==
  ASSUME NEW S
  PROVE  Count(S)' \in Nat
<1>1. IsFiniteSet({t \in Pool : thread'[t] \in S})
  BY FS_Subset, ConstantsAssumption
<1> QED
  BY <1>1, FS_CardinalityType DEF Count

(* One thread goes from its state to v. *)
LEMMA CountStep ==
  ASSUME NEW CONSTANT S, NEW t \in Pool, NEW v, thread \in [Pool -> States],
         thread' = [thread EXCEPT ![t] = v]
  PROVE  Count(S)' = Count(S) + (IF v \in S THEN 1 ELSE 0) - (IF thread[t] \in S THEN 1 ELSE 0)
<1> DEFINE In == {u \in Pool : thread[u] \in S}
           Then == {u \in Pool : thread'[u] \in S}
<1>1. IsFiniteSet(In) /\ Cardinality(In) \in Nat
  BY CountType, FS_CardinalityType
<1>2. Then = IF v \in S THEN In \cup {t} ELSE In \ {t}
  OBVIOUS
<1>3. t \in In <=> thread[t] \in S
  OBVIOUS
<1>4. Cardinality(In \cup {t}) = IF t \in In THEN Cardinality(In) ELSE Cardinality(In) + 1
  BY <1>1, FS_AddElement
<1>5. Cardinality(In \ {t}) = IF t \in In THEN Cardinality(In) - 1 ELSE Cardinality(In)
  BY <1>1, FS_RemoveElement
<1>6. Count(S) = Cardinality(In) /\ Count(S)' = Cardinality(Then)
  BY DEF Count
<1> HIDE DEF In, Then
<1> QED
  BY <1>1, <1>2, <1>3, <1>4, <1>5, <1>6

-----------------------------------------------------------------------------
(* The inductive invariant *)

\* The call of start() has no threads of its own yet, or no more.
Outside == {"no", "opening", "binding", "returned", "threw"}

InAccept == Count(Results)
InChain == Count({"ok", "error"})
InLoad == Count({"ok", "resource"})

(* TypeOK bounds conns; a thread in a resource, or an accept that brought a *)
(* connection, may add one.                                                *)
Load == conns + ready["ok"] + InLoad

(* Of the accepts that keep the chain going, those that were aborted are   *)
(* not: KeepsAccepting counts them too, but their handlers add none.       *)
Chain == waiting + ready["ok"] + ready["error"] + InChain

Accepting ==
  /\ Accepts <= starts
  /\ acceptor = "listening" => Chain > 0

Threading ==
  /\ own => start \in Outside
  /\ ~ own /\ start \in Outside => \A t \in Pool : thread[t] = "done"
  /\ start = "starting" => thread[Main] = "new"

(* From the call of start() on, the io_service is stopped only by a stop() *)
(* that also closed the acceptor, or that came before open().              *)
Stopping ==
  /\ start \in {"starting", "running", "joining", "returned"} /\ ~ own
       => acceptor \in {"listening", "closed"}
  /\ start \in {"joining", "returned"} /\ ~ own => stopped
  /\ ~ own /\ start \notin {"no", "threw"} /\ (stopped \/ stop = "closed")
       => early \/ (acceptor = "closed" /\ start # "opening")

LifecycleInv ==
  /\ TypeOK
  /\ Load <= MaxConns
  /\ Accepting
  /\ Threading
  /\ Stopping

LEMMA AcceptsIs == /\ Accepts = waiting + ready["ok"] + ready["aborted"] + ready["error"] + InAccept
                   /\ Accepts' = (waiting + ready["ok"] + ready["aborted"] + ready["error"] + InAccept)'
BY DEF Accepts, InAccept, Count

LEMMA CountNats ==
  /\ InAccept \in Nat /\ InChain \in Nat /\ InLoad \in Nat
  /\ InAccept' \in Nat /\ InChain' \in Nat /\ InLoad' \in Nat
BY CountType, CountTypeNext DEF InAccept, InChain, InLoad

LEMMA CountSame ==
  ASSUME thread' = thread
  PROVE  InAccept' = InAccept /\ InChain' = InChain /\ InLoad' = InLoad
BY DEF InAccept, InChain, InLoad, Count

LEMMA CountOne ==
  ASSUME NEW t \in Pool, NEW v, thread \in [Pool -> States],
         thread' = [thread EXCEPT ![t] = v]
  PROVE  /\ InAccept' = InAccept + (IF v \in Results THEN 1 ELSE 0)
                                 - (IF thread[t] \in Results THEN 1 ELSE 0)
         /\ InChain' = InChain + (IF v \in {"ok", "error"} THEN 1 ELSE 0)
                               - (IF thread[t] \in {"ok", "error"} THEN 1 ELSE 0)
         /\ InLoad' = InLoad + (IF v \in {"ok", "resource"} THEN 1 ELSE 0)
                             - (IF thread[t] \in {"ok", "resource"} THEN 1 ELSE 0)
BY CountStep DEF InAccept, InChain, InLoad

LEMMA CountNone ==
  ASSUME \A t \in Pool : thread'[t] \in {"new", "done"}
  PROVE  InAccept' = 0 /\ InChain' = 0 /\ InLoad' = 0
<1>1. ASSUME NEW CONSTANT S, "new" \notin S, "done" \notin S PROVE Count(S)' = 0
  <2>1. {t \in Pool : thread'[t] \in S} = {}
    BY <1>1
  <2> QED
    BY <2>1, FS_EmptySet DEF Count
<1> QED
  BY <1>1 DEF InAccept, InChain, InLoad, Results

LEMMA ChainInAccept == InChain <= InAccept
<1>1. IsFiniteSet({t \in Pool : thread[t] \in Results})
  BY CountType
<1>2. {t \in Pool : thread[t] \in {"ok", "error"}} \in SUBSET {t \in Pool : thread[t] \in Results}
  BY DEF Results
<1> QED
  BY <1>1, <1>2, FS_Subset DEF InChain, InAccept, Count

LEMMA LifecycleInit == Init => LifecycleInv
<1> SUFFICES ASSUME Init PROVE LifecycleInv
  OBVIOUS
<1>1. ASSUME NEW S, "done" \notin S PROVE Count(S) = 0
  <2>1. {t \in Pool : thread[t] \in S} = {}
    BY <1>1 DEF Init
  <2> QED
    BY <2>1, FS_EmptySet DEF Count
<1>2. InAccept = 0 /\ InChain = 0 /\ InLoad = 0
  BY <1>1 DEF InAccept, InChain, InLoad, Results
<1>3. TypeOK
  <2>1. acceptor = "none" /\ start = "no" /\ stop = "no" /\ own \in BOOLEAN
    BY DEF Init
  <2>2. conns \in 0 .. MaxConns /\ waiting \in Nat /\ starts \in Nat
    BY ConstantsAssumption DEF Init
  <2>3. ready \in [Results -> Nat] /\ thread \in [Pool -> States]
    BY DEF Init, States
  <2>4. stopped \in BOOLEAN /\ early \in BOOLEAN
    BY DEF Init
  <2> QED
    BY <2>1, <2>2, <2>3, <2>4 DEF TypeOK, States
<1>4. Load <= MaxConns
  BY <1>2, ConstantsAssumption DEF Init, Load, Results
<1>5. Accepting
  BY <1>2, AcceptsIs DEF Init, Accepting, Results
<1>6. Threading /\ Stopping
  BY DEF Init, Threading, Stopping, Outside
<1> QED
  BY <1>3, <1>4, <1>5, <1>6 DEF LifecycleInv

-----------------------------------------------------------------------------
(* The steps *)

LEMMA Numbers ==
  ASSUME TypeOK
  PROVE  /\ ready["ok"] \in Nat /\ ready["aborted"] \in Nat /\ ready["error"] \in Nat
         /\ waiting \in Nat /\ conns \in Nat /\ starts \in Nat
         /\ thread \in [Pool -> States]
BY DEF TypeOK, Results, States

(* Calls of start() and stop() that leave threads and accepts alone. *)
LEMMA QuietSteps ==
  ASSUME LifecycleInv, Start \/ Opens \/ Joined \/ StopStops
  PROVE  LifecycleInv'
<1>1. UNCHANGED <<own, waiting, ready, conns, thread, starts>>
  BY DEF Start, Opens, Joined, StopStops
<1>2. InAccept' = InAccept /\ InChain' = InChain /\ InLoad' = InLoad
  BY <1>1, CountSame
<1>3. TypeOK'
  BY DEF LifecycleInv, TypeOK, Start, Opens, Joined, StopStops
<1>4. (Load <= MaxConns)'
  BY <1>1, <1>2 DEF LifecycleInv, Load
<1>5. Accepting'
  BY <1>1, <1>2, AcceptsIs
     DEF LifecycleInv, Accepting, Chain, Start, Opens, Joined, StopStops
<1>6. Threading'
  <2>1. own => start' \in Outside
    BY DEF LifecycleInv, Threading, Outside, Start, Opens, Joined, StopStops
  <2>2. ~ own /\ start' \in Outside => \A t \in Pool : thread[t] = "done"
    BY DEF LifecycleInv, Threading, Outside, Start, Opens, Joined, StopStops
  <2>3. start' = "starting" => start = "starting"
    BY DEF Start, Opens, Joined, StopStops
  <2> QED
    BY <1>1, <2>1, <2>2, <2>3 DEF LifecycleInv, Threading
<1>7. Stopping'
  <2>1. CASE Start
    BY <2>1 DEF LifecycleInv, Stopping, Start
  <2>2. CASE Opens
    BY <2>2 DEF LifecycleInv, Stopping, Opens, TypeOK
  <2>3. CASE Joined
    BY <2>3 DEF LifecycleInv, Stopping, Joined
  <2>4. CASE StopStops
    BY <2>4 DEF LifecycleInv, Stopping, StopStops, TypeOK
  <2> QED
    BY <2>1, <2>2, <2>3, <2>4
<1> QED
  BY <1>3, <1>4, <1>5, <1>6, <1>7 DEF LifecycleInv

LEMMA ListensKeeps ==
  ASSUME LifecycleInv, Listens
  PROVE  LifecycleInv'
<1>0. UNCHANGED <<own, ready, conns, stopped, stop, early>> /\ start = "binding"
  BY DEF Listens
<1>1. CASE /\ acceptor = "open" /\ acceptor' = "listening"
           /\ waiting' = waiting + 1
           /\ thread' = IF own THEN thread ELSE [t \in Pool |-> "new"]
           /\ start' = IF own THEN "returned" ELSE "starting"
           /\ starts' = starts + 1
  <2>1. InAccept' <= InAccept /\ InLoad' <= InLoad
    <3>1. CASE own
      BY <1>1, <3>1, CountSame, CountNats
    <3>2. CASE ~ own
      BY <1>1, <3>2, CountNone, CountNats
    <3> QED
      BY <3>1, <3>2
  <2>2. TypeOK'
    BY <1>0, <1>1 DEF LifecycleInv, TypeOK
  <2>3. (Load <= MaxConns)'
    BY <1>0, <2>1, CountNats, Numbers, ConstantsAssumption DEF LifecycleInv, Load
  <2>4. Accepting'
    BY <1>0, <1>1, <2>1, AcceptsIs, CountNats, Numbers DEF LifecycleInv, Accepting, Chain
  <2>5. Threading' /\ Stopping'
    BY <1>0, <1>1, ConstantsAssumption DEF LifecycleInv, Threading, Stopping, Outside
  <2> QED
    BY <2>2, <2>3, <2>4, <2>5 DEF LifecycleInv
<1>2. CASE start' = "threw" /\ UNCHANGED <<acceptor, waiting, thread, starts>>
  <2>1. InAccept' = InAccept /\ InChain' = InChain /\ InLoad' = InLoad
    BY <1>2, CountSame
  <2>2. TypeOK'
    BY <1>0, <1>2 DEF LifecycleInv, TypeOK
  <2>3. (Load <= MaxConns)' /\ Accepting'
    BY <1>0, <1>2, <2>1, AcceptsIs DEF LifecycleInv, Load, Accepting, Chain
  <2>4. Threading' /\ Stopping'
    BY <1>0, <1>2 DEF LifecycleInv, Threading, Stopping, Outside
  <2> QED
    BY <2>2, <2>3, <2>4 DEF LifecycleInv
<1> QED
  BY <1>1, <1>2 DEF Listens

LEMMA StopClosesKeeps ==
  ASSUME LifecycleInv, StopCloses
  PROVE  LifecycleInv'
<1>1. /\ UNCHANGED <<own, conns, stopped, thread, start, starts>>
      /\ acceptor' = "closed" /\ stop' = "closed" /\ waiting' = 0
      /\ early' = (start = "opening")
      /\ ready' = [ready EXCEPT !["aborted"] = @ + waiting]
  BY DEF StopCloses
<1>2. InAccept' = InAccept /\ InChain' = InChain /\ InLoad' = InLoad
  BY <1>1, CountSame
<1>3. TypeOK'
  BY <1>1, Numbers DEF LifecycleInv, TypeOK, Results
<1>4. /\ ready'["ok"] = ready["ok"] /\ ready'["error"] = ready["error"]
      /\ ready'["aborted"] = ready["aborted"] + waiting
  BY <1>1 DEF LifecycleInv, TypeOK, Results
<1>5. (Load <= MaxConns)' /\ Accepting'
  BY <1>1, <1>2, <1>4, AcceptsIs, CountNats, Numbers DEF LifecycleInv, Load, Accepting
<1>6. Threading' /\ Stopping'
  BY <1>1 DEF LifecycleInv, Threading, Stopping, Outside
<1> QED
  BY <1>3, <1>5, <1>6 DEF LifecycleInv

LEMMA IncomingKeeps ==
  ASSUME LifecycleInv, Incoming
  PROVE  LifecycleInv'
<1>1. /\ UNCHANGED <<own, acceptor, conns, stopped, thread, start, stop, early, starts>>
      /\ waiting > 0 /\ waiting' = waiting - 1
  BY DEF Incoming
<1>2. InAccept' = InAccept /\ InChain' = InChain /\ InLoad' = InLoad
  BY <1>1, CountSame
<1>3. PICK r \in {"ok", "error"} :
        /\ ready' = [ready EXCEPT ![r] = @ + 1]
        /\ r = "ok" => conns + ready["ok"] + InLoad < MaxConns
  BY DEF Incoming, InLoad, Count
<1>4. /\ ready'["aborted"] = ready["aborted"]
      /\ \A q \in {"ok", "error"} : ready'[q] = IF q = r THEN ready[q] + 1 ELSE ready[q]
  BY <1>3 DEF LifecycleInv, TypeOK, Results
<1>5. TypeOK'
  BY <1>1, <1>3, Numbers DEF LifecycleInv, TypeOK, Results
<1>6. (Load <= MaxConns)'
  BY <1>1, <1>2, <1>3, <1>4, CountNats, Numbers, ConstantsAssumption DEF LifecycleInv, Load
<1>7. Accepting'
  BY <1>1, <1>2, <1>4, AcceptsIs, CountNats, Numbers DEF LifecycleInv, Accepting, Chain
<1>8. Threading' /\ Stopping'
  BY <1>1 DEF LifecycleInv, Threading, Stopping, Outside
<1> QED
  BY <1>5, <1>6, <1>7, <1>8 DEF LifecycleInv

(* A thread begins to run, or returns from run(): the accepts and the      *)
(* connections stay as they are.                                           *)
LEMMA RunKeeps ==
  ASSUME LifecycleInv, NEW t \in Pool, NEW v \in {"run", "done"},
         thread' = [thread EXCEPT ![t] = v], thread[t] \in {"new", "run", "done"},
         UNCHANGED <<own, acceptor, waiting, ready, conns, stop, early, starts>>,
         \/ Spawn(t) \/ UserRuns(t) \/ RunReturns(t)
         \/ MainRuns /\ t = Main
  PROVE  LifecycleInv'
<1>1. InAccept' = InAccept /\ InChain' = InChain /\ InLoad' = InLoad
  <2>1. /\ InAccept' = InAccept + (IF v \in Results THEN 1 ELSE 0)
                                - (IF thread[t] \in Results THEN 1 ELSE 0)
        /\ InChain' = InChain + (IF v \in {"ok", "error"} THEN 1 ELSE 0)
                              - (IF thread[t] \in {"ok", "error"} THEN 1 ELSE 0)
        /\ InLoad' = InLoad + (IF v \in {"ok", "resource"} THEN 1 ELSE 0)
                            - (IF thread[t] \in {"ok", "resource"} THEN 1 ELSE 0)
    BY CountOne, Numbers DEF LifecycleInv
  <2>2. /\ v \notin Results \cup {"resource"}
        /\ thread[t] \notin Results \cup {"resource"}
    BY DEF Results
  <2> QED
    BY <2>1, <2>2, CountNats DEF Results
<1>2. TypeOK'
  <2>1. /\ stopped' \in BOOLEAN
        /\ start' \in {"no", "opening", "binding", "starting", "running", "joining", "returned", "threw"}
    BY DEF LifecycleInv, TypeOK, Spawn, UserRuns, RunReturns, MainRuns
  <2> QED
    BY <2>1 DEF LifecycleInv, TypeOK
<1>3. (Load <= MaxConns)' /\ Accepting'
  BY <1>1, AcceptsIs DEF LifecycleInv, Load, Accepting, Chain
<1>4. Threading'
  <2>1. CASE Spawn(t)
    BY <2>1 DEF LifecycleInv, TypeOK, Threading, Outside, Spawn
  <2>2. CASE UserRuns(t)
    BY <2>2 DEF LifecycleInv, TypeOK, Threading, Outside, UserRuns
  <2>3. CASE RunReturns(t)
    BY <2>3 DEF LifecycleInv, TypeOK, Threading, Outside, RunReturns
  <2>4. CASE MainRuns
    BY <2>4 DEF LifecycleInv, TypeOK, Threading, Outside, MainRuns
  <2> QED
    BY <2>1, <2>2, <2>3, <2>4
<1>5. Stopping'
  <2>1. CASE Spawn(t)
    BY <2>1 DEF LifecycleInv, Stopping, Spawn
  <2>2. CASE UserRuns(t)
    BY <2>2 DEF LifecycleInv, Stopping, UserRuns
  <2>3. CASE MainRuns
    BY <2>3 DEF LifecycleInv, Stopping, MainRuns
  <2>4. CASE RunReturns(t)
    <3>1. stopped \/ acceptor # "listening"
      <4>1. Chain > 0 => Accepts # 0
        <5>1. InChain <= InAccept
          BY ChainInAccept
        <5> QED
          BY <5>1, AcceptsIs, CountNats, Numbers DEF LifecycleInv, Chain
      <4> QED
        BY <2>4, <4>1 DEF LifecycleInv, Accepting, RunReturns, NoWork
    <3>2. ~ own => start \in {"starting", "running", "joining"}
      BY <2>4 DEF LifecycleInv, TypeOK, Threading, Outside, RunReturns
    <3> QED
      BY <2>4, <3>1, <3>2 DEF LifecycleInv, Stopping, RunReturns
  <2> QED
    BY <2>1, <2>2, <2>3, <2>4
<1> QED
  BY <1>2, <1>3, <1>4, <1>5 DEF LifecycleInv

(* Handlers: a thread of those that run takes one, or ends it. *)
LEMMA HandlerKeeps ==
  ASSUME LifecycleInv, NEW t \in Pool, NEW v \in {"run", "resource"} \cup Results,
         thread' = [thread EXCEPT ![t] = v], thread[t] \in {"run", "resource"} \cup Results,
         UNCHANGED <<own, acceptor, stopped, start, stop, early, starts>>,
         TakeAccept(t) \/ AcceptHandler(t) \/ Serve(t) \/ Served(t)
  PROVE  LifecycleInv'
<1>1. /\ InAccept' = InAccept + (IF v \in Results THEN 1 ELSE 0)
                              - (IF thread[t] \in Results THEN 1 ELSE 0)
      /\ InChain' = InChain + (IF v \in {"ok", "error"} THEN 1 ELSE 0)
                            - (IF thread[t] \in {"ok", "error"} THEN 1 ELSE 0)
      /\ InLoad' = InLoad + (IF v \in {"ok", "resource"} THEN 1 ELSE 0)
                          - (IF thread[t] \in {"ok", "resource"} THEN 1 ELSE 0)
  BY CountOne, Numbers DEF LifecycleInv
<1>2. Threading' /\ Stopping'
  <2>1. own \/ start \notin Outside \cup {"starting"} \/ (start = "starting" /\ t # Main)
    BY DEF LifecycleInv, TypeOK, Threading, Outside, Results
  <2> QED
    BY <2>1 DEF LifecycleInv, TypeOK, Threading, Stopping, Outside
<1>3. CASE TakeAccept(t)
  <2>1. PICK r \in Results :
          /\ ready[r] > 0 /\ ready' = [ready EXCEPT ![r] = @ - 1]
          /\ thread' = [thread EXCEPT ![t] = r]
    BY <1>3 DEF TakeAccept
  <2>2. v = r /\ thread[t] = "run" /\ UNCHANGED <<waiting, conns>>
    BY <1>3, <2>1, Numbers DEF LifecycleInv, TakeAccept
  <2>3. \A q \in Results : ready'[q] = IF q = r THEN ready[q] - 1 ELSE ready[q]
    BY <2>1 DEF LifecycleInv, TypeOK
  <2>4. TypeOK'
    BY <2>1, <2>2 DEF LifecycleInv, TypeOK, Results
  <2>5. (Load <= MaxConns)' /\ Accepting'
    BY <1>1, <2>1, <2>2, <2>3, AcceptsIs, CountNats, Numbers, ConstantsAssumption
       DEF LifecycleInv, Load, Accepting, Chain, Results
  <2> QED
    BY <1>2, <2>4, <2>5 DEF LifecycleInv
<1>4. CASE AcceptHandler(t)
  <2>1. /\ thread[t] \in Results /\ v = "run"
        /\ conns' = IF thread[t] = "ok" THEN conns + 1 ELSE conns
    BY <1>4, Numbers DEF LifecycleInv, AcceptHandler
  <2>2. \/ thread[t] = "aborted" /\ UNCHANGED <<waiting, ready>>
        \/ /\ thread[t] # "aborted" /\ acceptor = "listening"
           /\ waiting' = waiting + 1 /\ UNCHANGED ready
        \/ /\ thread[t] # "aborted" /\ acceptor # "listening"
           /\ ready' = [ready EXCEPT !["error"] = @ + 1] /\ UNCHANGED waiting
    BY <1>4 DEF AcceptHandler, AcceptAgain, NoAccept
  <2>3. /\ ready'["ok"] = ready["ok"] /\ ready'["aborted"] = ready["aborted"]
        /\ \/ ready' = ready
           \/ ready'["error"] = ready["error"] + 1 /\ acceptor # "listening"
    BY <2>2 DEF LifecycleInv, TypeOK, Results
  <2>4. (Load <= MaxConns)'
    BY <1>1, <2>1, <2>3, CountNats, Numbers, ConstantsAssumption DEF LifecycleInv, Load, Results
  <2>5. TypeOK'
    <3>1. InLoad' \in Nat /\ ready'["ok"] \in Nat /\ conns' \in Nat
      BY <2>1, <2>3, CountNats, Numbers DEF LifecycleInv
    <3>2. conns' \in 0 .. MaxConns
      BY <2>4, <3>1, ConstantsAssumption DEF Load
    <3>3. waiting' \in Nat /\ ready' \in [Results -> Nat]
      BY <2>2, Numbers DEF LifecycleInv, TypeOK, Results
    <3> QED
      BY <3>2, <3>3 DEF LifecycleInv, TypeOK
  <2>6. Accepting'
    <3>1. InAccept' = InAccept - 1
      BY <1>1, <2>1, CountNats DEF Results
    <3>2. Accepts' <= starts'
      <4>1. waiting' + ready'["error"] <= waiting + ready["error"] + 1
        BY <2>2, <2>3, Numbers DEF LifecycleInv
      <4> QED
        BY <2>3, <3>1, <4>1, AcceptsIs, CountNats, <2>5, Numbers
           DEF LifecycleInv, TypeOK, Accepting, Results
    <3>3. acceptor = "listening" => Chain' > 0
      <4>1. CASE thread[t] = "aborted"
        BY <1>1, <2>1, <2>2, <2>3, <4>1, CountNats DEF LifecycleInv, Accepting, Chain
      <4>2. CASE thread[t] # "aborted"
        BY <2>2, <2>3, <4>2, CountNats, Numbers DEF LifecycleInv, Chain
      <4> QED
        BY <4>1, <4>2
    <3> QED
      BY <3>2, <3>3 DEF Accepting
  <2> QED
    BY <1>2, <2>4, <2>5, <2>6 DEF LifecycleInv
<1>5. CASE Serve(t) \/ Served(t)
  <2>1. /\ UNCHANGED <<waiting, ready>>
        /\ \/ thread[t] = "run" /\ v = "resource" /\ conns > 0 /\ conns' = conns - 1
           \/ thread[t] = "resource" /\ v = "run" /\ conns' \in {conns, conns + 1}
    BY <1>5, Numbers DEF LifecycleInv, Serve, Served
  <2>2. (Load <= MaxConns)'
    BY <1>1, <2>1, CountNats, Numbers, ConstantsAssumption DEF LifecycleInv, Load
  <2>3. TypeOK'
    <3>1. conns' \in Nat /\ conns' <= MaxConns
      BY <2>1, <2>2, CountNats, Numbers, ConstantsAssumption DEF LifecycleInv, Load
    <3> QED
      BY <2>1, <3>1, ConstantsAssumption DEF LifecycleInv, TypeOK
  <2>4. Accepting'
    <3>1. InAccept' = InAccept /\ InChain' = InChain
      BY <1>1, <2>1, CountNats DEF Results
    <3> QED
      BY <2>1, <3>1, AcceptsIs DEF LifecycleInv, Accepting, Chain
  <2> QED
    BY <1>2, <2>2, <2>3, <2>4 DEF LifecycleInv
<1> QED
  BY <1>3, <1>4, <1>5

LEMMA LifecycleStep == LifecycleInv /\ [Next]_vars => LifecycleInv'
<1> SUFFICES ASSUME LifecycleInv, [Next]_vars PROVE LifecycleInv'
  OBVIOUS
<1>1. CASE Start \/ Opens \/ Joined \/ StopStops
  BY <1>1, QuietSteps
<1>2. CASE Listens \/ StopCloses \/ Incoming
  BY <1>2, ListensKeeps, StopClosesKeeps, IncomingKeeps
<1>3. CASE MainRuns
  <2>1. thread[Main] = "new" /\ Main \in Pool
    BY <1>3, ConstantsAssumption DEF MainRuns, LifecycleInv, Threading
  <2> QED
    BY <1>3, <2>1, RunKeeps DEF MainRuns
<1>4. ASSUME NEW t \in Pool, Spawn(t) \/ UserRuns(t) \/ RunReturns(t) PROVE LifecycleInv'
  BY <1>4, RunKeeps DEF Spawn, UserRuns, RunReturns
<1>5. ASSUME NEW t \in Pool, TakeAccept(t) PROVE LifecycleInv'
  BY <1>5, HandlerKeeps DEF TakeAccept
<1>6. ASSUME NEW t \in Pool, AcceptHandler(t) PROVE LifecycleInv'
  BY <1>6, HandlerKeeps DEF AcceptHandler
<1>7. ASSUME NEW t \in Pool, Serve(t) \/ Served(t) PROVE LifecycleInv'
  BY <1>7, HandlerKeeps DEF Serve, Served
<1>8. CASE UNCHANGED vars
  <2>1. InAccept' = InAccept /\ InChain' = InChain /\ InLoad' = InLoad
    BY <1>8, CountSame DEF vars
  <2> QED
    BY <1>8, <2>1, AcceptsIs
       DEF vars, LifecycleInv, TypeOK, Load, Accepting, Chain, Threading, Stopping
<1> QED
  BY <1>1, <1>2, <1>3, <1>4, <1>5, <1>6, <1>7, <1>8 DEF Next

-----------------------------------------------------------------------------
(* The theorems *)

(* The variables keep their types, the bound on connections included. *)
THEOREM LifecycleTypeCorrect == Spec => []TypeOK
<1>1. LifecycleInv => TypeOK
  BY DEF LifecycleInv
<1> QED
  BY LifecycleInit, LifecycleStep, <1>1, PTL DEF Spec

(* Whatever the accepts bring, a server that listens has another one       *)
(* outstanding: no interleaving of handlers and stop() ends the chain.     *)
THEOREM ListeningAccepts == Spec => []KeepsAccepting
<1>1. LifecycleInv => KeepsAccepting
  <2> SUFFICES ASSUME LifecycleInv, acceptor = "listening" PROVE Accepts > 0
    BY DEF KeepsAccepting
  <2>1. Chain > 0
    BY DEF LifecycleInv, Accepting
  <2> QED
    BY <2>1, ChainInAccept, AcceptsIs, CountNats, Numbers DEF LifecycleInv, Chain
<1> QED
  BY LifecycleInit, LifecycleStep, <1>1, PTL DEF Spec

(* An accept never becomes two: there are no more of them than calls of    *)
(* start() that listened.                                                  *)
THEOREM AcceptsStayBounded == Spec => []AcceptsBounded
<1>1. LifecycleInv => AcceptsBounded
  BY DEF LifecycleInv, Accepting, AcceptsBounded
<1> QED
  BY LifecycleInit, LifecycleStep, <1>1, PTL DEF Spec

(* A pool never ends by itself: when start() returns, a stop() has closed  *)
(* the acceptor or come before open(), and every thread is done.           *)
THEOREM StartReturnsStopped == Spec => []ReturnsStopped
<1>1. LifecycleInv => ReturnsStopped
  BY DEF LifecycleInv, Threading, Outside, Stopping, ReturnsStopped
<1> QED
  BY LifecycleInit, LifecycleStep, <1>1, PTL DEF Spec
=============================================================================
