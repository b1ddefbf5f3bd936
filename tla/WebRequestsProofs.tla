-------------------------- MODULE WebRequestsProofs --------------------------
(***************************************************************************)
(* Proofs about the requests of std.http-server and std.rpc, for any       *)
(* requests, routes, providers and payloads: every lease is for one call   *)
(* and does not outlive its target, every request is answered once, and    *)
(* stop() leaves none behind.                                              *)
(***************************************************************************)
EXTENDS WebRequests, FiniteSetTheorems, SequenceTheorems, WellFoundedInduction, TLAPS

USE OneShotAssumption, HttpAssumption, BridgeAssumption, WebAssumption

\* The shape of the state.
Shapes ==
    /\ DOMAIN plug = Plug /\ \A p \in Plug : DOMAIN plug[p] = {"state", "gen"}
    /\ DOMAIN running = Plug
    /\ DOMAIN req = Req /\ \A r \in Req : DOMAIN req[r] = {"pc", "to", "answers", "open"}
    /\ DOMAIN bridge = {"pc", "todo", "out"}

\* A lease is of a provider that is there, in its present generation, and its
\* borrower is at the call it was taken for.
LeasePoints ==
    \A l \in leases :
        /\ l = [of |-> l.of, gen |-> l.gen, by |-> l.by]
        /\ l.of \in Plug /\ plug[l.of].state # "off" /\ l.gen = plug[l.of].gen
        /\ \/ l.by \in Req /\ req[l.by].pc \in {"called", "answered"} /\ req[l.by].to = l.of
           \/ l.by = "rpc" /\ bridge.pc = "called" /\ l.of = Head(bridge.todo)

\* A provider executes only what somebody who leases it waits for.
RunPoints ==
    \A p \in Plug : running[p] # Nobody =>
        /\ \E l \in leases : l.of = p /\ l.by = running[p]
        /\ running[p] \in Req => req[running[p]].pc = "called"

\* The bridge runs inside an invocation of std.rpc.
BridgePoints == running["rpc"] = Nobody => bridge.pc = "idle"

LeaseInv == Shapes /\ LeasePoints /\ RunPoints /\ BridgePoints

\* The rack: providers come, are unloaded and end calls.
LEMMA RackStep ==
    ASSUME LeaseInv, UNCHANGED <<req, bridge>>,
           PlugNext \/ (\E l \in leases : Revoked(l)) \/ (\E p \in Plug \ {"rpc"} : InvokeEnds(p))
    PROVE  LeaseInv'
  <1> USE DEF LeaseInv
  <1>1. ASSUME NEW p \in Plug, Comes(p) PROVE LeaseInv'
    <2>1. \A l \in leases : l.of # p
      BY <1>1 DEF Comes, LeasePoints
    <2> QED
      BY <1>1, <2>1 DEF Comes, Shapes, LeasePoints, RunPoints, BridgePoints
  <1>2. ASSUME NEW p \in Plug, UnloadBegins(p) PROVE LeaseInv'
    BY <1>2 DEF UnloadBegins, Shapes, LeasePoints, RunPoints, BridgePoints
  <1>3. ASSUME NEW p \in Plug, UnloadEnds(p) PROVE LeaseInv'
    <2>1. CASE LeasesOn(p) = {}
      <3>1. \A l \in leases : l.of # p
        BY <2>1 DEF LeasesOn
      <3> QED
        BY <1>3, <2>1, <3>1 DEF UnloadEnds, Shapes, LeasePoints, RunPoints, BridgePoints
    <2>2. CASE LeasesOn(p) # {}
      BY <1>3, <2>2 DEF UnloadEnds, Shapes, LeasePoints, RunPoints, BridgePoints
    <2> QED
      BY <2>1, <2>2
  <1>4. ASSUME NEW l \in leases, Revoked(l) PROVE LeaseInv'
    <2>1. /\ UNCHANGED <<plug, running>>
          /\ \/ leases' = leases
             \/ leases' = leases \ {l} /\ running[l.of] # l.by
      BY <1>4 DEF Revoked, Revokes
    <2>2. CASE leases' = leases
      BY <2>1, <2>2 DEF Shapes, LeasePoints, RunPoints, BridgePoints
    <2>3. CASE leases' = leases \ {l} /\ running[l.of] # l.by
      <3>1. Shapes' /\ LeasePoints' /\ BridgePoints'
        BY <2>1, <2>3 DEF Shapes, LeasePoints, BridgePoints
      <3>2. RunPoints'
        BY <2>1, <2>3 DEF RunPoints
      <3> QED
        BY <3>1, <3>2
    <2> QED
      BY <2>1, <2>2, <2>3
  <1>5. ASSUME NEW p \in Plug \ {"rpc"}, InvokeEnds(p) PROVE LeaseInv'
    BY <1>5 DEF InvokeEnds, Shapes, LeasePoints, RunPoints, BridgePoints
  <1> QED
    BY <1>1, <1>2, <1>3, <1>4, <1>5 DEF PlugNext

\* The bridge, one entry after the other.
LEMMA BridgeStep ==
    ASSUME LeaseInv, BridgeNext, UNCHANGED httpVars
    PROVE  LeaseInv'
  <1> USE DEF LeaseInv, httpVars
  <1>1. CASE EntryBegins /\ ~Offered(Head(bridge.todo))
    <2>1. /\ bridge.pc = "entry" /\ UNCHANGED <<plug, running, leases>>
          /\ bridge' = [pc |-> "entry", todo |-> Tail(bridge.todo), out |-> Append(bridge.out, Head(bridge.todo))]
      BY <1>1 DEF EntryBegins, Envelope, plugVars
    <2> QED
      BY <2>1 DEF Shapes, LeasePoints, RunPoints, BridgePoints
  <1>2. CASE EntryBegins /\ Offered(Head(bridge.todo))
    <2> DEFINE p == Head(bridge.todo)
               new == [of |-> p, gen |-> plug[p].gen, by |-> "rpc"]
    <2>1. /\ p \in Plug /\ plug[p].state = "active" /\ bridge.pc = "entry"
          /\ bridge' = [bridge EXCEPT !.pc = "called"] /\ leases' = leases \cup {new}
          /\ \/ running' = running
             \/ running[p] = Nobody /\ running' = [running EXCEPT ![p] = "rpc"]
          /\ UNCHANGED <<plug, req>>
      BY <1>2 DEF EntryBegins, Offered, BorrowsAndCalls
    <2>2. bridge'.pc = "called" /\ bridge'.todo = bridge.todo /\ Shapes'
      BY <2>1 DEF Shapes
    <2>3. running["rpc"] # Nobody /\ running'["rpc"] = running["rpc"]
      BY <2>1 DEF BridgePoints, Shapes
    <2>4. LeasePoints'
      BY <2>1, <2>2 DEF LeasePoints
    <2>5. RunPoints'
      <3>1. new \in leases' /\ new.of = p /\ new.by = "rpc" /\ "rpc" \notin Req
        BY <2>1
      <3>2. ASSUME NEW q \in Plug, running'[q] = running[q], running[q] # Nobody
            PROVE  /\ \E l \in leases' : l.of = q /\ l.by = running'[q]
                   /\ running'[q] \in Req => req'[running'[q]].pc = "called"
        BY <2>1, <3>2 DEF RunPoints
      <3>3. \A q \in Plug : \/ running'[q] = running[q]
                            \/ q = p /\ running'[q] = "rpc"
        BY <2>1 DEF Shapes
      <3> QED
        BY <3>1, <3>2, <3>3 DEF RunPoints
    <2> QED
      BY <2>2, <2>3, <2>4, <2>5 DEF BridgePoints
  <1>3. CASE EntryEnds
    <2>1. /\ bridge.pc = "called" /\ running[Head(bridge.todo)] # "rpc" /\ leases' = leases \ LeasesBy("rpc")
          /\ bridge' = [pc |-> "entry", todo |-> Tail(bridge.todo), out |-> Append(bridge.out, Head(bridge.todo))]
          /\ UNCHANGED <<plug, running, req>>
      BY <1>3 DEF EntryEnds, Envelope, LeaseGoesBack, Returns
    <2>2. \A p \in Plug : running[p] # "rpc"
      BY <2>1 DEF RunPoints, LeasePoints, Nobody
    <2>3. RunPoints'
      BY <2>1, <2>2 DEF RunPoints, LeasesBy
    <2>4. Shapes' /\ LeasePoints' /\ BridgePoints'
      BY <2>1 DEF Shapes, LeasePoints, LeasesBy, BridgePoints
    <2> QED
      BY <2>3, <2>4
  <1>4. CASE BridgeEnds
    BY <1>4 DEF BridgeEnds, InvokeEnds, Shapes, LeasePoints, RunPoints, BridgePoints
  <1> QED
    BY <1>1, <1>2, <1>3, <1>4 DEF BridgeNext

\* The requests.
LEMMA ForwardStep ==
    ASSUME LeaseInv, NEW r \in Req, BodyForwarded(r)
    PROVE  LeaseInv'
  <1> USE DEF LeaseInv
  <1> DEFINE p == req[r].to
             new == [of |-> p, gen |-> plug[p].gen, by |-> r]
  <1>1. /\ req[r].pc = "body" /\ \A q \in Plug : running[q] # r /\ \A l \in leases : l.by # r
    BY DEF BodyForwarded, BodyRead, RunPoints, LeasePoints
  <1>2. CASE ~Offered(p)
    <2>1. UNCHANGED <<plug, running, leases>> /\ Answers(r, req[r].open)
      BY <1>2 DEF BodyForwarded, BodyRead, plugVars
    <2>2. bridge' = bridge
      BY <1>1, <2>1 DEF BodyForwarded, BridgePoints
    <2> QED
      BY <1>1, <2>1, <2>2 DEF Answers, Shapes, LeasePoints, RunPoints, BridgePoints
  <1>3. CASE Offered(p)
    <2>1. /\ p \in Plug /\ plug[p].state = "active" /\ leases' = leases \cup {new} /\ plug' = plug
          /\ req' = [req EXCEPT ![r].pc = "called"]
          /\ \/ running' = running
             \/ running[p] = Nobody /\ running' = [running EXCEPT ![p] = r]
      BY <1>3 DEF BodyForwarded, BodyRead, Offered, BorrowsAndCalls
    <2>2. Shapes'
      <3>1. DOMAIN bridge' = {"pc", "todo", "out"}
        BY DEF BodyForwarded, BridgeBegins, Shapes
      <3> QED
        BY <2>1, <3>1 DEF Shapes
    <2>3. \/ running'["rpc"] = running["rpc"] /\ bridge' = bridge
          \/ running'["rpc"] = r /\ running["rpc"] = Nobody
      BY <1>1, <2>1 DEF BodyForwarded, Shapes
    <2>4. bridge' = bridge \/ bridge.pc = "idle"
      BY <2>3 DEF BridgePoints
    <2>5. req'[r].pc = "called" /\ req'[r].to = p /\ \A q \in Req \ {r} : req'[q] = req[q]
      BY <2>1 DEF Shapes
    <2>6. LeasePoints'
      BY <1>1, <2>1, <2>4, <2>5 DEF LeasePoints
    <2>7. RunPoints'
      <3>1. new \in leases' /\ new.of = p /\ new.by = r
        BY <2>1
      <3>2. ASSUME NEW q \in Plug, running'[q] = running[q], running[q] # Nobody
            PROVE  /\ \E l \in leases' : l.of = q /\ l.by = running'[q]
                   /\ running'[q] \in Req => req'[running'[q]].pc = "called"
        BY <1>1, <2>1, <2>5, <3>2 DEF RunPoints
      <3>3. \A q \in Plug : \/ running'[q] = running[q]
                            \/ q = p /\ running'[q] = r
        BY <2>1 DEF Shapes
      <3> QED
        BY <2>5, <3>1, <3>2, <3>3 DEF RunPoints
    <2>8. BridgePoints'
      BY <2>3 DEF BridgePoints
    <2> QED
      BY <2>2, <2>6, <2>7, <2>8
  <1> QED
    BY <1>2, <1>3

LEMMA RequestStep ==
    ASSUME LeaseInv, HttpNext, UNCHANGED bridge
    PROVE  LeaseInv'
  <1> USE DEF LeaseInv
  <1>1. ASSUME UNCHANGED <<plug, running, leases, req>> PROVE LeaseInv'
    BY <1>1 DEF Shapes, LeasePoints, RunPoints, BridgePoints
  <1>2. ASSUME NEW r \in Req, UNCHANGED <<plug, running, leases>>,
               req[r].pc \in {"idle", "connected", "body", "called", "done"},
               \A p \in Plug : running[p] # r, DOMAIN req' = Req, DOMAIN req'[r] = {"pc", "to", "answers", "open"},
               \A q \in Req \ {r} : req'[q] = req[q],
               \/ req[r].pc # "called"
               \/ req'[r].pc = "answered" /\ req'[r].to = req[r].to
        PROVE  LeaseInv'
    BY <1>2 DEF Shapes, LeasePoints, RunPoints, BridgePoints
  <1>3. ASSUME NEW r \in Req, Accepts(r) \/ \E url \in Url, method \in Method : Sends(r, url, method)
        PROVE  LeaseInv'
    <2>1. req[r].pc \in {"idle", "connected"} /\ UNCHANGED <<plug, running, leases>>
      BY <1>3 DEF Accepts, Sends, plugVars
    <2>2. /\ DOMAIN req' = Req /\ DOMAIN req'[r] = {"pc", "to", "answers", "open"}
          /\ \A q \in Req \ {r} : req'[q] = req[q]
      BY <1>3 DEF Accepts, Sends, Answers, Shapes
    <2>3. \A p \in Plug : running[p] # r
      BY <2>1 DEF RunPoints
    <2> QED
      BY <1>2, <2>1, <2>2, <2>3
  <1>4. ASSUME NEW r \in Req, BodyBad(r) \/ CallAnswered(r) PROVE LeaseInv'
    <2>1. req[r].pc \in {"body", "called"} /\ UNCHANGED <<plug, running, leases>> /\ \E open : Answers(r, open)
      BY <1>4 DEF BodyBad, CallAnswered, plugVars
    <2>2. /\ DOMAIN req' = Req /\ DOMAIN req'[r] = {"pc", "to", "answers", "open"}
          /\ \A q \in Req \ {r} : req'[q] = req[q]
          /\ req'[r].pc = "answered" /\ req'[r].to = req[r].to
      BY <2>1 DEF Answers, Shapes
    <2>3. ASSUME NEW p \in Plug, running[p] = r PROVE FALSE
      <3>1. req[r].pc = "called" /\ r # Nobody
        BY <2>3 DEF RunPoints
      <3>2. PICK l \in leases : l.of = p /\ l.by = r
        BY <2>3, <3>1 DEF RunPoints
      <3>3. req[r].to = p
        BY <3>2 DEF LeasePoints
      <3> QED
        BY <1>4, <2>3, <3>1, <3>3 DEF BodyBad, CallAnswered
    <2> QED
      BY <1>2, <2>1, <2>2, <2>3
  <1>5. ASSUME NEW r \in Req, TaskEnds(r) PROVE LeaseInv'
    <2>1. /\ req[r].pc = "answered" /\ leases' = leases \ LeasesBy(r) /\ UNCHANGED <<plug, running>>
          /\ req' = [req EXCEPT ![r].pc = "done", ![r].to = "none"]
      BY <1>5 DEF TaskEnds, LeaseGoesBack, Returns
    <2>2. \A p \in Plug : running[p] # r
      BY <2>1 DEF RunPoints
    <2>3. \A l \in leases' : l \in leases /\ l.by # r
      BY <2>1 DEF LeasesBy
    <2>4. \A q \in Req \ {r} : req'[q] = req[q]
      BY <2>1 DEF Shapes
    <2>5. Shapes' /\ BridgePoints'
      BY <2>1 DEF Shapes, BridgePoints
    <2>6. LeasePoints'
      BY <2>1, <2>3, <2>4 DEF LeasePoints
    <2>7. RunPoints'
      <3>1. ASSUME NEW q \in Plug, running[q] # Nobody
            PROVE  /\ \E l \in leases' : l.of = q /\ l.by = running[q]
                   /\ running[q] \in Req => req'[running[q]].pc = "called"
        <4>1. PICK l \in leases : l.of = q /\ l.by = running[q]
          BY <3>1 DEF RunPoints
        <4>2. l \in leases'
          BY <2>1, <2>2, <4>1 DEF LeasesBy
        <4> QED
          BY <2>2, <2>4, <3>1, <4>1, <4>2 DEF RunPoints
      <3>2. running' = running
        BY <2>1
      <3> QED
        BY <3>1, <3>2 DEF RunPoints
    <2> QED
      BY <2>5, <2>6, <2>7
  <1>6. ASSUME NEW route \in Route, RouteAdded(route), UNCHANGED plugVars PROVE LeaseInv'
    BY <1>1, <1>6 DEF RouteAdded, plugVars
  <1>7. ASSUME NEW i \in 1 .. Cardinality(Route), RouteRemoved(i), UNCHANGED plugVars PROVE LeaseInv'
    BY <1>1, <1>7 DEF RouteRemoved, plugVars
  <1>8. CASE Listens \/ StopBegins \/ Closed \/ StopEnds
    BY <1>1, <1>8 DEF Listens, StopBegins, Closed, StopEnds, plugVars
  <1>9. ASSUME NEW r \in Req, Leaves(r) PROVE LeaseInv'
    <2>1. /\ UNCHANGED <<plug, running, leases>>
          /\ req[r].pc \in {"connected", "called", "done"}
          /\ req' = [req EXCEPT ![r].open = FALSE, ![r].pc = IF @ = "connected" THEN "idle" ELSE @]
      BY <1>9 DEF Leaves, plugVars
    <2>2. Shapes'
      BY <2>1 DEF Shapes
    <2>3. \A q \in Req : req'[q].to = req[q].to /\ (req[q].pc # "connected" => req'[q].pc = req[q].pc)
      BY <2>1 DEF Shapes
    <2>4. \A q \in Req : req[q].pc \in {"called", "answered"} => req'[q].pc = req[q].pc
      BY <2>3
    <2>5. LeasePoints'
      <3>1. leases' = leases /\ plug' = plug /\ bridge' = bridge
        BY <2>1
      <3>2. ASSUME NEW l \in leases
            PROVE  \/ l.by \in Req /\ req'[l.by].pc \in {"called", "answered"} /\ req'[l.by].to = l.of
                   \/ l.by = "rpc" /\ bridge.pc = "called" /\ l.of = Head(bridge.todo)
        <4>1. CASE l.by \in Req /\ req[l.by].pc \in {"called", "answered"} /\ req[l.by].to = l.of
          BY <2>3, <2>4, <4>1
        <4>2. CASE l.by = "rpc" /\ bridge.pc = "called" /\ l.of = Head(bridge.todo)
          BY <4>2
        <4> QED
          BY <3>2, <4>1, <4>2 DEF LeasePoints
      <3>3. \A l \in leases : l.of \in Plug /\ l.gen = plug[l.of].gen
        BY DEF LeasePoints
      <3> QED
        BY <3>1, <3>2, <3>3 DEF LeasePoints
    <2>6. RunPoints'
      <3>1. leases' = leases /\ running' = running
        BY <2>1
      <3>2. ASSUME NEW p \in Plug, running[p] \in Req, running[p] # Nobody
            PROVE  req'[running[p]].pc = "called"
        <4>1. req[running[p]].pc = "called"
          BY <3>2 DEF RunPoints
        <4> QED
          BY <2>4, <3>2, <4>1
      <3> QED
        BY <3>1, <3>2 DEF RunPoints
    <2>7. BridgePoints'
      BY <2>1 DEF BridgePoints
    <2> QED
      BY <2>2, <2>5, <2>6, <2>7
  <1> QED
    BY <1>3, <1>4, <1>5, <1>6, <1>7, <1>8, <1>9 DEF HttpNext

THEOREM LeasesPaired == Spec => []LeaseInv
  <1>1. Init => LeaseInv
    BY DEF Init, InitRack, InitHttp, InitBridge, LeaseInv, Shapes, LeasePoints, RunPoints, BridgePoints
  <1>2. LeaseInv /\ [Next]_vars => LeaseInv'
    <2>1. LeaseInv /\ UNCHANGED vars => LeaseInv'
      BY DEF LeaseInv, Shapes, LeasePoints, RunPoints, BridgePoints, vars, plugVars, httpVars
    <2>2. LeaseInv /\ BridgeNext /\ UNCHANGED httpVars => LeaseInv'
      BY BridgeStep
    <2>3. LeaseInv /\ HttpNext /\ UNCHANGED bridge => LeaseInv'
      BY RequestStep
    <2>4. LeaseInv /\ (\E r \in Req : BodyForwarded(r)) => LeaseInv'
      BY ForwardStep
    <2>5. ASSUME LeaseInv, UNCHANGED <<httpVars, bridge>>,
                 PlugNext \/ (\E l \in leases : Revoked(l)) \/ (\E p \in Plug \ {"rpc"} : InvokeEnds(p))
          PROVE  LeaseInv'
      BY <2>5, RackStep DEF httpVars
    <2> QED
      BY <2>1, <2>2, <2>3, <2>4, <2>5 DEF Next
  <1> QED
    BY <1>1, <1>2, PTL DEF Spec

\* Leases that agree on their borrower are one.
LEMMA OneLease ==
    ASSUME LeaseInv, NEW by \in Req \cup {"rpc"}
    PROVE  Cardinality(LeasesBy(by)) <= 1
  <1>1. \A l, m \in LeasesBy(by) : l = m
    BY DEF LeasesBy, LeaseInv, LeasePoints
  <1>2. CASE LeasesBy(by) = {}
    BY <1>2, FS_EmptySet
  <1>3. ASSUME NEW l \in LeasesBy(by) PROVE Cardinality(LeasesBy(by)) <= 1
    <2>1. LeasesBy(by) = {l}
      BY <1>1
    <2> QED
      BY <2>1, FS_Singleton
  <1> QED
    BY <1>2, <1>3

\* A lease of std.http-server or std.rpc is for one call, its target cannot be
\* unloaded under it, and no new generation meets it.
THEOREM OneShotLeases == Spec => []LeasesAreOneShot
  <1>1. LeaseInv => LeasesAreOneShot
    <2> SUFFICES ASSUME LeaseInv PROVE LeasesAreOneShot
      OBVIOUS
    <2>1. \A r \in Req : LeasesBy(r) # {} => req[r].pc \in {"called", "answered"}
      BY DEF LeaseInv, LeasePoints, LeasesBy
    <2>2. LeasesBy("rpc") # {} => bridge.pc = "called"
      BY DEF LeaseInv, LeasePoints, LeasesBy
    <2>3. \A p \in Plug : plug[p].state = "off" => running[p] = Nobody /\ LeasesOn(p) = {}
      BY DEF LeaseInv, LeasePoints, RunPoints, LeasesOn
    <2>4. \A l \in leases : l.gen = plug[l.of].gen
      BY DEF LeaseInv, LeasePoints
    <2> QED
      BY <2>1, <2>2, <2>3, <2>4, OneLease DEF LeasesAreOneShot
  <1> QED
    BY <1>1, LeasesPaired, PTL

-----------------------------------------------------------------------------
(* Answers and stop()                                                      *)

\* When the server is closed no connection is left, when it has stopped no task is.
AnswerPoints ==
    /\ \A r \in Req : /\ req[r].pc \in {"idle", "connected", "body", "called", "answered", "done"}
                      /\ req[r].answers = (IF req[r].pc \in {"answered", "done"} THEN 1 ELSE 0)
                      /\ req[r].pc \in {"connected", "body"} => req[r].open
    /\ srv \in {"draining", "stopped"} => \A r \in Req : ~req[r].open
    /\ srv = "stopped" => \A r \in Req : req[r].pc \notin Pending

LEMMA AnswersStep ==
    ASSUME Shapes, AnswerPoints, [Next]_vars
    PROVE  AnswerPoints'
  <1> USE DEF Shapes, AnswerPoints, Pending, Closing
  <1>1. ASSUME UNCHANGED <<srv, req>> PROVE AnswerPoints'
    BY <1>1
  <1>2. ASSUME NEW r \in Req, NEW url \in Url, NEW method \in Method, Sends(r, url, method)
        PROVE  AnswerPoints'
    <2>1. req[r].pc = "connected" /\ req[r].open /\ srv' = srv /\ srv \notin {"draining", "stopped"}
      BY <1>2 DEF Sends
    <2>2. CASE Answers(r, TRUE)
      BY <2>1, <2>2 DEF Answers
    <2>3. ASSUME NEW to, req' = [req EXCEPT ![r].pc = "body", ![r].to = to] PROVE AnswerPoints'
      BY <2>1, <2>3
    <2> QED
      BY <1>2, <2>2, <2>3 DEF Sends
  <1>3. ASSUME NEW r \in Req, BodyBad(r) \/ CallAnswered(r) PROVE AnswerPoints'
    <2>1. CASE BodyBad(r)
      BY <2>1 DEF BodyBad, Answers
    <2>2. CASE CallAnswered(r)
      BY <2>2 DEF CallAnswered, Answers
    <2> QED
      BY <1>3, <2>1, <2>2
  <1>4. ASSUME NEW r \in Req, TaskEnds(r) PROVE AnswerPoints'
    BY <1>4 DEF TaskEnds
  <1>5. ASSUME NEW r \in Req, BodyForwarded(r) PROVE AnswerPoints'
    <2>1. /\ req[r].pc = "body" /\ srv' = srv
          /\ Answers(r, req[r].open) \/ req' = [req EXCEPT ![r].pc = "called"]
      BY <1>5 DEF BodyForwarded, BodyRead
    <2> QED
      BY <2>1 DEF Answers
  <1>6. CASE Listens \/ StopBegins \/ Closed \/ StopEnds
    BY <1>6 DEF Listens, StopBegins, Closed, StopEnds, NonePending
  <1>7. ASSUME NEW r \in Req, Accepts(r) PROVE AnswerPoints'
    BY <1>7 DEF Accepts
  <1>8. ASSUME NEW r \in Req, Leaves(r) PROVE AnswerPoints'
    BY <1>8 DEF Leaves
  <1>9. CASE HttpNext
    <2>1. ASSUME NEW route \in Route, RouteAdded(route) PROVE AnswerPoints'
      BY <1>1, <2>1 DEF RouteAdded
    <2>2. ASSUME NEW i \in 1 .. Cardinality(Route), RouteRemoved(i) PROVE AnswerPoints'
      BY <1>1, <2>2 DEF RouteRemoved
    <2> QED
      BY <1>2, <1>3, <1>4, <1>6, <1>9, <1>7, <1>8, <2>1, <2>2 DEF HttpNext
  <1>10. CASE UNCHANGED httpVars
    BY <1>1, <1>10 DEF httpVars
  <1> QED
    BY <1>5, <1>9, <1>10 DEF Next, vars

\* A request is answered once, and stop() returns when no task and no lease of a
\* request is left.
THEOREM StopLeavesNothing == Spec => []StopWaits
  <1>1. Init => AnswerPoints
    BY DEF Init, InitHttp, AnswerPoints
  <1>2. LeaseInv /\ AnswerPoints /\ [Next]_vars => AnswerPoints'
    BY AnswersStep DEF LeaseInv
  <1>3. LeaseInv /\ AnswerPoints => StopWaits
    <2> SUFFICES ASSUME LeaseInv, AnswerPoints PROVE StopWaits
      OBVIOUS
    <2>1. ASSUME srv = "stopped", NEW r \in Req PROVE req[r].pc \in {"idle", "done"} /\ LeasesBy(r) = {}
      <3>1. req[r].pc \in {"idle", "done"}
        BY <2>1 DEF AnswerPoints, Pending
      <3> QED
        BY <3>1 DEF LeaseInv, LeasePoints, LeasesBy
    <2> QED
      BY <2>1 DEF StopWaits, AnswerPoints
  <1> QED
    BY <1>1, <1>2, <1>3, LeasesPaired, PTL DEF Spec

-----------------------------------------------------------------------------
(* The order of routes                                                     *)

Routed == routes \in Seq(Route)

LEMMA RoutedStep ==
    ASSUME Routed, [Next]_vars
    PROVE  Routed'
  <1> USE DEF Routed
  <1>1. ASSUME NEW route \in Route, RouteAdded(route) PROVE Routed'
    BY <1>1 DEF RouteAdded
  <1>2. ASSUME NEW i \in 1 .. Cardinality(Route), RouteRemoved(i) PROVE Routed'
    <2>1. i \in 1 .. Len(routes) /\ routes' = SubSeq(routes, 1, i - 1) \o SubSeq(routes, i + 1, Len(routes))
      BY <1>2 DEF RouteRemoved, RemoveAt
    <2>2. SubSeq(routes, 1, i - 1) \in Seq(Route) /\ SubSeq(routes, i + 1, Len(routes)) \in Seq(Route)
      BY <2>1
    <2> QED
      BY <2>1, <2>2
  <1>3. ASSUME NEW r \in Req, NEW url \in Url, NEW method \in Method, Sends(r, url, method) PROVE Routed'
    BY <1>3 DEF Sends
  <1>4. ASSUME NEW r \in Req, Accepts(r) \/ BodyBad(r) \/ CallAnswered(r) \/ TaskEnds(r) \/ Leaves(r) PROVE Routed'
    BY <1>4 DEF Accepts, BodyBad, CallAnswered, TaskEnds, Leaves
  <1>5. ASSUME NEW r \in Req, BodyForwarded(r) PROVE Routed'
    BY <1>5 DEF BodyForwarded, BodyRead
  <1>6. CASE Listens \/ StopBegins \/ Closed \/ StopEnds
    <2>1. routes' = routes \/ routes' = <<>>
      BY <1>6 DEF Listens, StopBegins, Closed, StopEnds
    <2>2. <<>> \in Seq(Route)
      BY EmptySeq
    <2> QED
      BY <2>1, <2>2
  <1>7. CASE UNCHANGED httpVars
    BY <1>7 DEF httpVars
  <1> QED
    BY <1>1, <1>2, <1>3, <1>4, <1>5, <1>6, <1>7 DEF Next, HttpNext, vars

\* FirstOf() is what it says.
LEMMA FirstIsFirst ==
    ASSUME NEW hits \in SUBSET Nat, hits # {}
    PROVE  FirstOf(hits) \in hits /\ \A j \in hits : FirstOf(hits) <= j
  <1>1. PICK i \in hits : \A j \in hits : ~(<<j, i>> \in OpToRel(<, Nat))
    BY NatLessThanWellFounded, WFMin
  <1>2. \A j \in hits : i <= j
    <2> SUFFICES ASSUME NEW j \in hits, j < i PROVE FALSE
      OBVIOUS
    <2>1. <<j, i>> \in OpToRel(<, Nat)
      BY DEF OpToRel
    <2> QED
      BY <1>1, <2>1
  <1> QED
    BY <1>2 DEF FirstOf

\* A request is never taken by a route behind one that matches as much.
THEOREM EarlierServes == Spec => EarlierRouteServes
  <1> DEFINE Earlier(r) ==
        req[r].pc = "connected" /\ req'[r].pc = "body" =>
          \E i \in DOMAIN routes :
            /\ routes[i].to = req'[r].to
            /\ ~\E j \in 1 .. i - 1 : /\ routes[j].method = routes[i].method
                                      /\ routes[i].urls \subseteq routes[j].urls
  <1>1. ASSUME Shapes, Routed, [Next]_vars, NEW r \in Req PROVE Earlier(r)
    <2> SUFFICES ASSUME req[r].pc = "connected", req'[r].pc = "body" PROVE Earlier(r)
      OBVIOUS
    <2>1. PICK url \in Url, method \in Method : Sends(r, url, method)
      <3>1. ASSUME NEW q \in Req, Accepts(q) \/ BodyBad(q) \/ CallAnswered(q) \/ TaskEnds(q) \/ Leaves(q)
            PROVE  FALSE
        BY <1>1, <3>1 DEF Accepts, BodyBad, CallAnswered, TaskEnds, Leaves, Answers, Shapes
      <3>2. ASSUME NEW q \in Req, BodyForwarded(q) PROVE FALSE
        BY <1>1, <3>2 DEF BodyForwarded, BodyRead, Answers, Shapes
      <3>3. ASSUME NEW q \in Req \ {r}, NEW url \in Url, NEW method \in Method, Sends(q, url, method)
            PROVE  FALSE
        BY <1>1, <3>3 DEF Sends, Answers, Shapes
      <3>4. ASSUME UNCHANGED req PROVE FALSE
        BY <3>4
      <3>5. ASSUME NEW route \in Route, RouteAdded(route) PROVE FALSE
        BY <3>4, <3>5 DEF RouteAdded
      <3>6. ASSUME NEW i \in 1 .. Cardinality(Route), RouteRemoved(i) PROVE FALSE
        BY <3>4, <3>6 DEF RouteRemoved
      <3>7. CASE Listens \/ StopBegins \/ Closed \/ StopEnds
        BY <3>4, <3>7 DEF Listens, StopBegins, Closed, StopEnds
      <3>8. CASE UNCHANGED httpVars
        BY <3>4, <3>8 DEF httpVars
      <3> QED
        BY <1>1, <3>1, <3>2, <3>3, <3>5, <3>6, <3>7, <3>8 DEF Next, HttpNext, vars
    <2> DEFINE hits == {i \in {k \in DOMAIN routes : url \in routes[k].urls} : routes[i].method = method}
               first == FirstOf(hits)
    <2>2. hits \in SUBSET Nat /\ DOMAIN routes = 1 .. Len(routes) /\ Len(routes) \in Nat
      BY <1>1 DEF Routed
    <2>3. hits # {} /\ req' = [req EXCEPT ![r].pc = "body", ![r].to = routes[first].to]
      BY <1>1, <2>1 DEF Sends, Answers, Shapes
    <2>4. first \in hits /\ \A j \in hits : first <= j
      BY <2>2, <2>3, FirstIsFirst
    <2> HIDE DEF first
    <2>5. ASSUME NEW j \in 1 .. first - 1, routes[j].method = routes[first].method,
                 routes[first].urls \subseteq routes[j].urls
          PROVE  FALSE
      <3>1. j \in DOMAIN routes /\ j < first
        BY <2>2, <2>4
      <3>2. j \in hits
        BY <2>4, <2>5, <3>1
      <3> QED
        BY <2>2, <2>4, <3>1, <3>2
    <2>6. req'[r].to = routes[first].to
      BY <1>1, <2>3 DEF Shapes
    <2> QED
      BY <2>4, <2>5, <2>6
  <1>2. Init => Routed
    BY DEF Init, InitHttp, Routed
  <1>3. LeaseInv /\ Routed /\ [Next]_vars => [\A r \in Req : Earlier(r)]_vars
    BY <1>1 DEF LeaseInv
  <1>4. Spec => []Routed
    BY <1>2, RoutedStep, PTL DEF Spec
  <1> QED
    BY <1>3, <1>4, LeasesPaired, PTL DEF Spec, EarlierRouteServes
=============================================================================
