------------------------- MODULE SyncNetworkProofs -------------------------
(***************************************************************************)
(* Proofs about the nodes of SyncProtocol: they ask one thing at a time of *)
(* a connection, and m_peersCount counts the connections that have shaken  *)
(* hands.                                                                  *)
(***************************************************************************)
EXTENDS SyncProtocolProofs, FiniteSetTheorems

-----------------------------------------------------------------------------
(* One request or answer under way.                                        *)

\* Half of SyncIsDriven holds whatever the network looks like: a handler that
\* may read the next message (readCommand) has asked for one thing at most, and
\* one that is not synchronizing for nothing.  An answer can therefore never be
\* taken for the answer to another request.
AskedOnce ==
  \A e \in Ends : ctx[e].phase # "closed" =>
    /\ Pending(e) <= 1
    /\ ctx[e].m_state # "synchronizing" => Pending(e) = 0

LEMMA FewIsFew ==
  ASSUME NEW s, IsSeq(s), NEW T
  PROVE  LET I == {i \in DOMAIN s : s[i].type \in T}
         IN  /\ ~Has(s, T) => Cardinality(I) = 0
             /\ Single(s, T) => Cardinality(I) \in {0, 1}
<1> DEFINE I == {i \in DOMAIN s : s[i].type \in T}
<1>1. DOMAIN s = 1 .. Len(s)
  BY Indices
<1>2. ASSUME ~Has(s, T) PROVE Cardinality(I) = 0
  <2>1. I = {}
    BY <1>1, <1>2 DEF Has
  <2>2. QED
    BY <2>1, FS_EmptySet
<1>3. ASSUME Single(s, T), I # {} PROVE Cardinality(I) = 1
  <2>1. PICK i \in I : TRUE
    BY <1>3
  <2>2. I = {i}
    BY <1>1, <1>3, <2>1 DEF Single
  <2>3. QED
    BY Zenon, <2>2, FS_Singleton
<1>4. QED
  BY Zenon, <1>2, <1>3, FS_EmptySet

\* request_missing_objects and processObjects never ask again before the answer:
\* an end that may read has one request or answer under way at most.
THEOREM AskedOnceInvariant == Spec => []AskedOnce
<1>1. ASSUME LinkInv PROVE AskedOnce
  <2> SUFFICES ASSUME NEW e \in Ends, ctx[e].phase # "closed"
               PROVE  /\ Pending(e) <= 1
                      /\ ctx[e].m_state # "synchronizing" => Pending(e) = 0
    BY DEF AskedOnce
  <2> DEFINE w == wire[e]
             wp == wire[Peer(e)]
             asked == Cardinality({i \in DOMAIN w : w[i].type \in Requests})
             answered == Cardinality({i \in DOMAIN wp : wp[i].type \in Answers})
  <2>1. Pending(e) = asked + answered
    BY DEF Pending, Requests, Answers
  <2>2. IsSeq(w) /\ IsSeq(wp) /\ OneRequestOK(ctx[e], w, wp)
    BY <1>1, PairAt DEF LinkInv, EndOK
  <2>3. /\ ~Has(w, Requests) => asked = 0
        /\ Single(w, Requests) => asked \in {0, 1}
        /\ ~Has(wp, Answers) => answered = 0
        /\ Single(wp, Answers) => answered \in {0, 1}
    BY Zenon, <2>2, FewIsFew
  <2> HIDE DEF asked, answered
  <2> HIDE DEF w, wp
  <2>4. CASE ctx[e].m_state = "synchronizing" /\ ctx[e].task = NoTask
    <3>1. asked \in {0, 1} /\ answered \in {0, 1} /\ (asked = 0 \/ answered = 0)
      BY <2>2, <2>3, <2>4, Zenon DEF OneRequestOK
    <3>2. QED
      BY <2>1, <2>4, <3>1
  <2>5. CASE ~(ctx[e].m_state = "synchronizing" /\ ctx[e].task = NoTask)
    <3>1. asked = 0 /\ answered = 0
      BY <2>2, <2>3, <2>5, Zenon DEF OneRequestOK
    <3>2. QED
      BY <2>1, <3>1
  <2>6. QED
    BY <2>4, <2>5
<1>2. LinkInv => AskedOnce
  BY <1>1
<1>3. QED
  BY <1>2, LinksAreInvariant, PTL

-----------------------------------------------------------------------------
(* The peer count.                                                         *)

\* Nobody dials into another network.  handle_handshake drops such a dialler in
\* the state shutdown, and onConnectionClosed counts it out although
\* process_payload_sync_data never counted it in.
SameNetwork == \A l \in Links : l[1] \in Foreign <=> l[2] \in Foreign

Shaken(c) == c.phase = "open" /\ c.m_state # "befor_handshake"
Shaking(n) == {e \in EndsOf(n) : ctx[e].phase = "open" /\ ctx[e].m_state # "befor_handshake"}

IsCounters(nd) ==
  nd = [m_observedHeight |-> nd.m_observedHeight, m_peersCount |-> nd.m_peersCount,
        m_synchronized |-> nd.m_synchronized]

CountInv ==
  /\ node = [n \in Nodes |-> node[n]]
  /\ \A n \in Nodes : IsCounters(node[n]) /\ node[n].m_peersCount = Cardinality(Shaking(n))

\* What a context counts for.
Counts(c) == IF Shaken(c) THEN 1 ELSE 0

LEMMA FiniteEnds == ASSUME NEW n PROVE IsFiniteSet(Shaking(n)) /\ Cardinality(Shaking(n)) \in Nat
<1>1. IsFiniteSet(Nodes \X Links)
  BY FS_Product, NetworkAssumption DEF IsNetwork
<1>2. Shaking(n) \subseteq Nodes \X Links
  BY DEF Shaking, EndsOf, Ends
<1>3. IsFiniteSet(Shaking(n))
  BY <1>1, <1>2, FS_Subset
<1>4. QED
  BY <1>3, FS_CardinalityType

LEMMA Recounted ==
  ASSUME LinkInv, CountInv, NEW e \in Ends, NEW c1, NEW nd, IsCounters(nd),
         ctx' = [ctx EXCEPT ![e] = c1], node' = [node EXCEPT ![NodeOf(e)] = nd],
         nd.m_peersCount = node[NodeOf(e)].m_peersCount - Counts(ctx[e]) + Counts(c1)
  PROVE  CountInv'
<1> DEFINE n == NodeOf(e)
<1>1. n \in Nodes /\ e[1] = n
  BY Geometry DEF NodeOf
<1>2. ctx'[e] = c1 /\ \A f \in Ends : f # e => ctx'[f] = ctx[f]
  BY DEF LinkInv
<1>3. node' = [k \in Nodes |-> node'[k]] /\ node'[n] = nd /\ \A k \in Nodes : k # n => node'[k] = node[k]
  BY <1>1 DEF CountInv
<1>4. ASSUME NEW k \in Nodes, k # n PROVE Shaking(k)' = Shaking(k)
  <2>1. \A f \in EndsOf(k) : f \in Ends /\ f # e
    BY <1>1, <1>4 DEF EndsOf
  <2>2. QED
    BY <1>2, <2>1 DEF Shaking
<1>5. Cardinality(Shaking(n)') = Cardinality(Shaking(n)) - Counts(ctx[e]) + Counts(c1)
  <2>1. e \in EndsOf(n) /\ EndsOf(n) \subseteq Ends
    BY <1>1 DEF EndsOf
  <2>2. e \in Shaking(n) <=> Shaken(ctx[e])
    BY <2>1 DEF Shaking, Shaken
  <2>3. Shaking(n)' = IF Shaken(c1) THEN Shaking(n) \cup {e} ELSE Shaking(n) \ {e}
    BY <1>2, <2>1 DEF Shaking, Shaken
  <2>4. IsFiniteSet(Shaking(n)) /\ Cardinality(Shaking(n)) \in Nat
    BY FiniteEnds
  <2>5. /\ Cardinality(Shaking(n) \cup {e})
             = IF e \in Shaking(n) THEN Cardinality(Shaking(n)) ELSE Cardinality(Shaking(n)) + 1
        /\ Cardinality(Shaking(n) \ {e})
             = IF e \in Shaking(n) THEN Cardinality(Shaking(n)) - 1 ELSE Cardinality(Shaking(n))
    BY Zenon, <2>4, FS_AddElement, FS_RemoveElement
  <2>6. CASE Shaken(c1)
    <3>1. Cardinality(Shaking(n)') = Cardinality(Shaking(n) \cup {e})
      BY <2>3, <2>6
    <3>2. QED
      BY <2>2, <2>4, <2>5, <2>6, <3>1 DEF Counts
  <2>7. CASE ~Shaken(c1)
    <3>1. Cardinality(Shaking(n)') = Cardinality(Shaking(n) \ {e})
      BY <2>3, <2>7
    <3>2. QED
      BY <2>2, <2>4, <2>5, <2>7, <3>1 DEF Counts
  <2>8. QED
    BY <2>6, <2>7
<1>6. node[n].m_peersCount = Cardinality(Shaking(n))
  BY <1>1 DEF CountInv
<1>7. ASSUME NEW k \in Nodes
      PROVE  IsCounters(node'[k]) /\ node'[k].m_peersCount = Cardinality(Shaking(k)')
  <2>1. CASE k = n
    BY <1>3, <1>5, <1>6, <2>1
  <2>2. CASE k # n
    BY <1>3, <1>4, <2>2 DEF CountInv
  <2>3. QED
    BY <2>1, <2>2
<1>8. QED
  BY <1>3, <1>7 DEF CountInv

\* onConnectionClosed.
LEMMA CountsOut ==
  ASSUME LinkInv, CountInv, NEW e \in Ends, NEW c, NEW nd, NEW out, CloseEnd(e, c, nd, out),
         IsCounters(nd), nd.m_peersCount = node[NodeOf(e)].m_peersCount,
         Shaken(ctx[e]) <=> c.m_state # "befor_handshake"
  PROVE  CountInv'
<1> DEFINE nd1 == onConnectionClosed(e, c, nd)
           h == recalculateMaxObservedHeight(e)
<1>1. ctx' = [ctx EXCEPT ![e] = Closed] /\ node' = [node EXCEPT ![NodeOf(e)] = nd1]
  BY DEF CloseEnd
<1>2. nd.m_peersCount \in Int
  BY Geometry, FiniteEnds DEF CountInv
<1> DEFINE k == IF c.m_state # "befor_handshake" THEN nd.m_peersCount - 1 ELSE nd.m_peersCount
<1>3. nd1 = [m_observedHeight |-> h, m_peersCount |-> k, m_synchronized |-> nd.m_synchronized]
  <2>1. nd1 = [nd EXCEPT !.m_observedHeight = h, !.m_peersCount = k]
    BY DEF onConnectionClosed
  <2> HIDE DEF nd1, h, k
  <2>2. QED
    BY Zenon, <2>1 DEF IsCounters
<1>4. Counts(Closed) = 0
  BY DEF Counts, Shaken, Closed
<1> HIDE DEF nd1, h
<1>5. IsCounters(nd1) /\ nd1.m_peersCount = node[NodeOf(e)].m_peersCount - Counts(ctx[e]) + Counts(Closed)
  BY <1>2, <1>3, <1>4 DEF IsCounters, Counts
<1>6. QED
  BY Zenon, <1>1, <1>5, Recounted

\* A handler goes back to its loop.
LEMMA CountsOn ==
  ASSUME LinkInv, CountInv, NEW e \in Ends, NEW c, AsLeft(c), NEW nd, NEW out, NEW bcast,
         NEW rest, Done(e, c, nd, out, bcast, rest), IsCounters(nd),
         nd.m_peersCount = node[NodeOf(e)].m_peersCount - Counts(ctx[e]) + 1
  PROVE  CountInv'
<1> DEFINE h == LoopHead(NodeOf(e), c)
<1>1. h.c.phase = "open" /\ h.c.m_state # "befor_handshake"
  BY Headed
<1>2. ctx' = [ctx EXCEPT ![e] = h.c] /\ node' = [node EXCEPT ![NodeOf(e)] = nd]
  BY Zenon DEF Done, AsLeft
<1> HIDE DEF h
<1>3. Counts(h.c) = 1
  BY <1>1 DEF Counts, Shaken
<1>4. QED
  BY Zenon, <1>2, <1>3, Recounted

\* The same count of peers.
SameCount(nd, n) == IsCounters(nd) /\ nd.m_peersCount = node[n].m_peersCount

LEMMA CountersOf ==
  ASSUME CountInv, NEW e \in Ends
  PROVE  /\ NodeOf(e) \in Nodes /\ IsCounters(node[NodeOf(e)])
         /\ SameCount(node[NodeOf(e)], NodeOf(e))
         /\ node[NodeOf(e)].m_peersCount \in Int
BY Geometry, FiniteEnds DEF CountInv, SameCount

LEMMA ObservedCount ==
  ASSUME CountInv, NEW e \in Ends, NEW height
  PROVE  SameCount(updateObservedHeight(e, height), NodeOf(e))
<1> DEFINE nd == node[NodeOf(e)]
           u == updateObservedHeight(e, height)
<1>1. IsCounters(nd)
  BY CountersOf
<1>2. \E h : u = [nd EXCEPT !.m_observedHeight = h]
  BY DEF updateObservedHeight
<1>3. PICK h : u = [nd EXCEPT !.m_observedHeight = h]
  BY Zenon, <1>2
<1> HIDE DEF nd, u
<1>4. u = [m_observedHeight |-> h, m_peersCount |-> nd.m_peersCount,
           m_synchronized |-> nd.m_synchronized]
  BY <1>1, <1>3 DEF IsCounters
<1>5. IsCounters(u) /\ u.m_peersCount = nd.m_peersCount
  BY <1>4 DEF IsCounters
<1>6. QED
  BY <1>5 DEF SameCount, nd, u

LEMMA SyncDataCount ==
  ASSUME CountInv, NEW e \in Ends, NEW data, NEW is_inital \in BOOLEAN,
         is_inital \/ ctx[e].m_state # "befor_handshake"
  PROVE  LET nd == process_payload_sync_data(e, data, is_inital).nd
         IN  /\ IsCounters(nd)
             /\ nd.m_peersCount = node[NodeOf(e)].m_peersCount + (IF is_inital THEN 1 ELSE 0)
<1> DEFINE u == updateObservedHeight(e, data.height)
           st == StateAfterSyncData(e, data, is_inital)
           r == process_payload_sync_data(e, data, is_inital)
           s == u.m_synchronized \/ (is_inital /\ st = "pool_sync_required")
           k == IF is_inital THEN u.m_peersCount + 1 ELSE u.m_peersCount
<1>1. IsCounters(u) /\ u.m_peersCount = node[NodeOf(e)].m_peersCount
  BY ObservedCount DEF SameCount
<1>2. r.nd = [u EXCEPT !.m_synchronized = s, !.m_peersCount = k]
  BY DEF process_payload_sync_data
<1> HIDE DEF u, st, s, r, k
<1>3. r.nd = [m_observedHeight |-> u.m_observedHeight, m_peersCount |-> k, m_synchronized |-> s]
  BY Zenon, <1>1, <1>2 DEF IsCounters
<1>4. node[NodeOf(e)].m_peersCount \in Int
  BY CountersOf
<1>5. IsCounters(r.nd) /\ r.nd.m_peersCount = k
  BY <1>3 DEF IsCounters
<1>6. k = node[NodeOf(e)].m_peersCount + (IF is_inital THEN 1 ELSE 0)
  BY <1>1, <1>4 DEF k
<1>7. QED
  BY <1>5, <1>6 DEF r

LEMMA MissingCount ==
  ASSUME NEW n, NEW m, NEW c, NEW nd, NEW check, SameCount(nd, n)
  PROVE  SameCount(request_missing_objects(m, c, nd, check).nd, n)
<1> DEFINE u == request_missing_objects(m, c, nd, check).nd
<1>1. u = nd \/ u = [nd EXCEPT !.m_synchronized = TRUE]
  BY DEF request_missing_objects
<1> HIDE DEF u
<1>2. CASE u = [nd EXCEPT !.m_synchronized = TRUE]
  <2>1. u = [m_observedHeight |-> nd.m_observedHeight, m_peersCount |-> nd.m_peersCount,
             m_synchronized |-> TRUE]
    BY Zenon, <1>2 DEF SameCount, IsCounters
  <2>2. IsCounters(u) /\ u.m_peersCount = nd.m_peersCount
    BY <2>1 DEF IsCounters
  <2>3. SameCount(u, n)
    BY <2>2 DEF SameCount
  <2>4. QED
    BY <2>3 DEF u
<1>3. QED
  BY <1>1, <1>2 DEF u

\* A handler in the middle of a connection: it goes on, or shuts down.
LEMMA StaysCounted ==
  ASSUME LinkInv, CountInv, NEW e \in Ends, Shaken(ctx[e]), NEW c, NEW nd, NEW out,
         NEW bcast, NEW rest, Done(e, c, nd, out, bcast, rest), SameCount(nd, NodeOf(e)),
         AsLeft(c) \/ c.m_state = "shutdown"
  PROVE  CountInv'
<1>1. CASE AsLeft(c)
  <2>1. nd.m_peersCount = node[NodeOf(e)].m_peersCount - Counts(ctx[e]) + 1
    BY CountersOf DEF SameCount, Counts
  <2>2. QED
    BY <1>1, <2>1, CountsOn DEF SameCount
<1>2. CASE c.m_state = "shutdown"
  <2>1. CloseEnd(e, c, nd, out)
    BY <1>2 DEF Done
  <2>2. QED
    BY <1>2, <2>1, CountsOut DEF SameCount
<1>3. QED
  BY <1>1, <1>2

LEMMA processObjectsCount ==
  ASSUME LinkInv, CountInv, NEW e \in Ends, Shaken(ctx[e]), NEW c, IsContext(c),
         c.phase = "open", c.m_state = "synchronizing", NEW nd, SameCount(nd, NodeOf(e)),
         NEW blocks, NEW rest, processObjects(e, c, nd, blocks, rest)
  PROVE  CountInv'
<1> DEFINE n == NodeOf(e)
           b == Head(blocks)
           idle == [c EXCEPT !.task = NoTask]
           r == request_missing_objects(n, idle, nd, TRUE)
<1>1. idle = [phase |-> "open", m_state |-> "synchronizing",
              m_needed_objects |-> c.m_needed_objects,
              m_requested_objects |-> c.m_requested_objects,
              m_remote_blockchain_height |-> c.m_remote_blockchain_height,
              m_last_response_height |-> c.m_last_response_height,
              task |-> NoTask]
  BY Tasked
<1>2. IsContext(idle) /\ idle.phase = "open" /\ idle.m_state = "synchronizing" /\ idle.task = NoTask
  BY <1>1 DEF IsContext, NoTask
<1>3. CASE blocks = << >>
  <2>1. Done(e, r.c, r.nd, r.out, << >>, rest)
    BY Zenon, <1>3 DEF processObjects
  <2> HIDE DEF idle
  <2>2. AsLeft(r.c) /\ SameCount(r.nd, NodeOf(e))
    BY Zenon, <1>2, AsksForMissing, MissingCount
  <2> HIDE DEF r
  <2>3. QED
    BY <2>1, <2>2, StaysCounted
<1>4. CASE blocks # << >> /\ b \in known[n]
  <2>1. Done(e, Idle(c), nd, << >>, << >>, rest)
    BY <1>4 DEF processObjects
  <2>2. Idle(c) = [phase |-> "open", m_state |-> "idle",
                   m_needed_objects |-> << >>, m_requested_objects |-> {},
                   m_remote_blockchain_height |-> c.m_remote_blockchain_height,
                   m_last_response_height |-> c.m_last_response_height,
                   task |-> NoTask]
    BY Idled
  <2>3. AsLeft(Idle(c))
    BY <2>2 DEF AsLeft, IsContext, Clear, NoTask
  <2>4. QED
    BY <2>1, <2>3, StaysCounted
<1>5. CASE blocks # << >> /\ b \notin known[n] /\ ~IsLinked(n, b)
  <2>1. Done(e, [idle EXCEPT !.m_state = "shutdown"], nd, << >>, << >>, rest)
    BY <1>5 DEF processObjects
  <2>2. [idle EXCEPT !.m_state = "shutdown"].m_state = "shutdown"
    BY <1>1
  <2> HIDE DEF idle
  <2>3. QED
    BY Zenon, <2>1, <2>2, StaysCounted
<1>6. CASE blocks # << >> /\ b \notin known[n] /\ IsLinked(n, b)
  <2> DEFINE t == [kind |-> "import", blocks |-> Tail(blocks)]
             c1 == [c EXCEPT !.task = t]
  <2>1. ctx' = [ctx EXCEPT ![e] = c1] /\ node' = [node EXCEPT ![NodeOf(e)] = nd]
    BY <1>6 DEF processObjects
  <2> HIDE DEF t
  <2>2. c1.phase = "open" /\ c1.m_state = "synchronizing"
    BY Tasked
  <2> HIDE DEF c1
  <2>3. nd.m_peersCount = node[NodeOf(e)].m_peersCount - Counts(ctx[e]) + Counts(c1)
    BY <2>2, CountersOf DEF SameCount, Counts, Shaken
  <2>4. QED
    BY Zenon, <2>1, <2>3, Recounted DEF SameCount
<1>7. QED
  BY <1>3, <1>4, <1>5, <1>6

LEMMA UnderWayCounted ==
  ASSUME LinkInv, NEW e \in Ends, NEW type, type \notin Opening, Reads(e, type)
  PROVE  /\ Shaken(ctx[e]) /\ AsLeft(ctx[e]) /\ IsContext(ctx[e]) /\ ctx[e].phase = "open"
         /\ (type \in Answers => ctx[e].m_state = "synchronizing")
BY UnderWay DEF Shaken, AsLeft, Fresh

LEMMA ImportingCounted ==
  ASSUME LinkInv, NEW e \in Ends, ctx[e].task.kind \in {"import", "ping"}
  PROVE  Shaken(ctx[e]) /\ IsContext(ctx[e]) /\ ctx[e].phase = "open" /\ ContextOK(ctx[e])
<1>1. ContextOK(ctx[e])
  BY PairAt
<1>2. ctx[e].task # NoTask
  BY DEF NoTask
<1>3. ctx[e].phase # "closed" /\ ctx[e].phase # "dialing"
  BY Zenon, <1>1, <1>2, Opened DEF ContextOK
<1>4. QED
  BY <1>1, <1>3 DEF ContextOK, IsContext, Shaken

\* The handlers that leave the count alone.
LEMMA ServingCount ==
  ASSUME LinkInv, CountInv, NEW e \in Ends,
         \/ handle_request_chain(e) \/ handle_request_get_objects(e)
         \/ handle_notify_new_transactions(e) \/ handleRequestTxPool(e)
  PROVE  CountInv'
<1>1. PICK type, out, bcast : /\ type \notin Opening /\ Reads(e, type)
                              /\ Handled(e, ctx[e], node[NodeOf(e)], out, bcast)
  <2>1. CASE handle_request_chain(e)
    BY <2>1 DEF handle_request_chain, Opening
  <2>2. CASE handle_request_get_objects(e)
    BY Zenon, <2>2 DEF handle_request_get_objects, Opening
  <2>3. CASE handle_notify_new_transactions(e)
    BY Zenon, <2>3 DEF handle_notify_new_transactions, Opening
  <2>4. CASE handleRequestTxPool(e)
    BY Zenon, <2>4 DEF handleRequestTxPool, Opening
  <2>5. QED
    BY <2>1, <2>2, <2>3, <2>4
<1>2. QED
  BY Zenon, <1>1, UnderWayCounted, CountersOf, StaysCounted DEF Handled

LEMMA TimedSyncCount ==
  ASSUME LinkInv, CountInv, NEW e \in Ends, handle_timed_sync(e) \/ handleTimedSyncResponse(e)
  PROVE  CountInv'
<1> DEFINE data == Msg(e).data
           r == process_payload_sync_data(e, data, FALSE)
<1>1. PICK type, out : /\ type \notin Opening /\ Reads(e, type)
                       /\ Handled(e, r.c, r.nd, out, << >>)
  <2>1. CASE handle_timed_sync(e)
    BY Zenon, <2>1 DEF handle_timed_sync, Opening
  <2>2. CASE handleTimedSyncResponse(e)
    BY Zenon, <2>2 DEF handleTimedSyncResponse, Opening
  <2>3. QED
    BY Zenon, <2>1, <2>2
<1>2. Shaken(ctx[e]) /\ AsLeft(ctx[e]) /\ ctx[e].phase = "open"
  BY Zenon, <1>1, UnderWayCounted
<1>3. FALSE \in BOOLEAN
  OBVIOUS
<1>4. AsLeft(r.c)
  BY Zenon, <1>2, <1>3, SyncDataContext DEF AsLeft, Shaken
<1>5. /\ IsCounters(r.nd)
      /\ r.nd.m_peersCount = node[NodeOf(e)].m_peersCount + (IF FALSE THEN 1 ELSE 0)
  BY Zenon, <1>2, <1>3, SyncDataCount DEF Shaken
<1> HIDE DEF r
<1>6. SameCount(r.nd, NodeOf(e))
  BY <1>5, CountersOf DEF SameCount
<1>7. QED
  BY <1>1, <1>2, <1>4, <1>6, StaysCounted DEF Handled

LEMMA DownloadCount ==
  ASSUME LinkInv, CountInv, NEW e \in Ends,
         handle_response_chain_entry(e) \/ handle_response_get_objects(e) \/ ImportNext(e)
  PROVE  CountInv'
<1> DEFINE n == NodeOf(e)
           m == Msg(e)
<1>1. SameCount(node[n], n) /\ \A h : SameCount(updateObservedHeight(e, h), n)
  BY CountersOf, ObservedCount
<1>2. ASSUME NEW s, IsContext(s), Shaken(ctx[e]), NEW nd, SameCount(nd, n),
             Handled(e, [s EXCEPT !.m_state = "shutdown"], nd, << >>, << >>)
      PROVE  CountInv'
  <2>1. [s EXCEPT !.m_state = "shutdown"].m_state = "shutdown"
    BY <1>2 DEF IsContext
  <2>2. QED
    BY Zenon, <1>2, <2>1, StaysCounted DEF Handled
<1>3. CASE handle_response_chain_entry(e)
  <2> DEFINE missing(b) == b \notin known[n]
             h == m.total_height
             l == m.start_height + Len(m.ids) - 1
             o == ctx[e].m_needed_objects \o SelectSeq(m.ids, missing)
             c == [ctx[e] EXCEPT !.m_remote_blockchain_height = h,
                                 !.m_last_response_height = l, !.m_needed_objects = o]
             r == request_missing_objects(n, c, node[n], FALSE)
  <2>1. Reads(e, "chain_entry") /\ "chain_entry" \notin Opening /\ "chain_entry" \in Answers
    BY <1>3 DEF handle_response_chain_entry, Opening, Answers
  <2>2. /\ Shaken(ctx[e]) /\ AsLeft(ctx[e]) /\ IsContext(ctx[e]) /\ ctx[e].phase = "open"
        /\ ctx[e].m_state = "synchronizing"
    BY <2>1, UnderWayCounted
  <2>3. \/ Handled(e, [ctx[e] EXCEPT !.m_state = "shutdown"], node[n], << >>, << >>)
        \/ Handled(e, r.c, r.nd, r.out, << >>)
    BY Zenon, <1>3 DEF handle_response_chain_entry
  <2> HIDE DEF h, l, o
  <2>4. IsContext(c) /\ c.phase = "open" /\ c.m_state = "synchronizing" /\ c.task = NoTask
    <3>1. c = [ctx[e] EXCEPT !.m_remote_blockchain_height = h,
                             !.m_last_response_height = l, !.m_needed_objects = o]
      OBVIOUS
    <3> HIDE DEF c
    <3>2. c = [phase |-> ctx[e].phase, m_state |-> ctx[e].m_state, m_needed_objects |-> o,
               m_requested_objects |-> ctx[e].m_requested_objects,
               m_remote_blockchain_height |-> h,
               m_last_response_height |-> l, task |-> ctx[e].task]
      BY Zenon, <2>2, <3>1 DEF IsContext
    <3>3. QED
      BY Zenon, <2>2, <3>2 DEF IsContext, AsLeft
  <2> HIDE DEF c
  <2>5. AsLeft(r.c) /\ SameCount(r.nd, n)
    BY Zenon, <1>1, <2>4, AsksForMissing, MissingCount
  <2> HIDE DEF r
  <2>6. QED
    BY <1>1, <1>2, <2>2, <2>3, <2>5, StaysCounted DEF Handled
<1>4. CASE handle_response_get_objects(e)
  <2> DEFINE c == [ctx[e] EXCEPT !.m_remote_blockchain_height = m.height]
             c0 == [c EXCEPT !.m_requested_objects = {}]
             nd == updateObservedHeight(e, m.height)
  <2>1. Reads(e, "objects") /\ "objects" \notin Opening /\ "objects" \in Answers
    BY <1>4 DEF handle_response_get_objects, Opening, Answers
  <2>2. /\ Shaken(ctx[e]) /\ AsLeft(ctx[e]) /\ IsContext(ctx[e]) /\ ctx[e].phase = "open"
        /\ ctx[e].m_state = "synchronizing"
    BY <2>1, UnderWayCounted
  <2>3. \/ Handled(e, [ctx[e] EXCEPT !.m_state = "shutdown"], node[n], << >>, << >>)
        \/ Handled(e, Idle(c), nd, << >>, << >>)
        \/ Handled(e, [c EXCEPT !.m_state = "shutdown"], nd, << >>, << >>)
        \/ processObjects(e, c0, nd, m.blocks, Tail(wire[Peer(e)]))
    BY <1>4 DEF handle_response_get_objects
  <2>4. SameCount(nd, n)
    BY <1>1
  <2>5. c = [phase |-> "open", m_state |-> "synchronizing",
             m_needed_objects |-> ctx[e].m_needed_objects,
             m_requested_objects |-> ctx[e].m_requested_objects,
             m_remote_blockchain_height |-> m.height,
             m_last_response_height |-> ctx[e].m_last_response_height, task |-> ctx[e].task]
    BY <2>2, Heard
  <2> HIDE DEF c, nd
  <2>6. IsContext(c) /\ c.phase = "open" /\ c.m_state = "synchronizing"
    BY <2>2, <2>5 DEF IsContext
  <2>7. c0 = [phase |-> "open", m_state |-> "synchronizing",
              m_needed_objects |-> ctx[e].m_needed_objects, m_requested_objects |-> {},
              m_remote_blockchain_height |-> m.height,
              m_last_response_height |-> ctx[e].m_last_response_height, task |-> ctx[e].task]
    BY <2>5
  <2> HIDE DEF c0
  <2>8. IsContext(c0) /\ c0.phase = "open" /\ c0.m_state = "synchronizing"
    BY <2>2, <2>7 DEF IsContext
  <2>9. AsLeft(Idle(c))
    <3>1. Idle(c) = [phase |-> "open", m_state |-> "idle",
                     m_needed_objects |-> << >>, m_requested_objects |-> {},
                     m_remote_blockchain_height |-> c.m_remote_blockchain_height,
                     m_last_response_height |-> c.m_last_response_height,
                     task |-> NoTask]
      BY <2>6, Idled
    <3>2. QED
      BY <3>1 DEF AsLeft, IsContext, Clear, NoTask
  <2>10. CASE Handled(e, [ctx[e] EXCEPT !.m_state = "shutdown"], node[n], << >>, << >>)
    BY <1>1, <1>2, <2>2, <2>10
  <2>11. CASE Handled(e, Idle(c), nd, << >>, << >>)
    BY <2>2, <2>4, <2>9, <2>11, StaysCounted DEF Handled
  <2>12. CASE Handled(e, [c EXCEPT !.m_state = "shutdown"], nd, << >>, << >>)
    BY <1>2, <2>2, <2>4, <2>6, <2>12
  <2>13. CASE processObjects(e, c0, nd, m.blocks, Tail(wire[Peer(e)]))
    BY <2>2, <2>4, <2>8, <2>13, processObjectsCount
  <2>14. QED
    BY <2>3, <2>10, <2>11, <2>12, <2>13
<1>5. CASE ImportNext(e)
  <2>1. /\ ctx[e].task.kind = "import"
        /\ processObjects(e, ctx[e], node[n], ctx[e].task.blocks, wire[Peer(e)])
    BY <1>5 DEF ImportNext
  <2>2. /\ Shaken(ctx[e]) /\ IsContext(ctx[e]) /\ ctx[e].phase = "open"
        /\ ctx[e].m_state = "synchronizing"
    BY <2>1, ImportingCounted DEF ContextOK
  <2>3. QED
    BY <1>1, <2>1, <2>2, processObjectsCount
<1>6. QED
  BY <1>3, <1>4, <1>5

LEMMA NewBlockCount ==
  ASSUME LinkInv, CountInv, NEW e \in Ends, handle_notify_new_block(e) PROVE CountInv'
<1> DEFINE m == Msg(e)
           c == [ctx[e] EXCEPT !.m_remote_blockchain_height = m.height]
           c0 == [c EXCEPT !.m_state = "synchronizing"]
           nd == updateObservedHeight(e, m.height)
<1>1. Reads(e, "new_block") /\ "new_block" \notin Opening
  BY DEF handle_notify_new_block, Opening
<1>2. /\ Shaken(ctx[e]) /\ AsLeft(ctx[e]) /\ IsContext(ctx[e]) /\ ctx[e].phase = "open"
      /\ ctx[e].task = NoTask
  BY <1>1, UnderWayCounted DEF AsLeft
<1>3. PICK out, bcast : Handled(e, c, nd, out, bcast) \/ Handled(e, c0, nd, out, bcast)
  BY DEF handle_notify_new_block
<1>4. SameCount(nd, NodeOf(e))
  BY ObservedCount
<1>5. c = [phase |-> ctx[e].phase, m_state |-> ctx[e].m_state,
           m_needed_objects |-> ctx[e].m_needed_objects,
           m_requested_objects |-> ctx[e].m_requested_objects,
           m_remote_blockchain_height |-> m.height,
           m_last_response_height |-> ctx[e].m_last_response_height, task |-> ctx[e].task]
  BY SMTT(30), <1>2, Heard
<1> HIDE DEF c, nd
<1>6. AsLeft(c) /\ IsContext(c) /\ c.phase = "open" /\ c.task = NoTask
  BY <1>2, <1>5 DEF IsContext, AsLeft, Clear
<1>7. c0 = [phase |-> c.phase, m_state |-> "synchronizing",
            m_needed_objects |-> c.m_needed_objects,
            m_requested_objects |-> c.m_requested_objects,
            m_remote_blockchain_height |-> c.m_remote_blockchain_height,
            m_last_response_height |-> c.m_last_response_height, task |-> c.task]
  BY <1>6, Stated
<1> HIDE DEF c0
<1>8. AsLeft(c0)
  BY <1>6, <1>7 DEF AsLeft, IsContext
<1>9. QED
  BY <1>2, <1>3, <1>4, <1>6, <1>8, StaysCounted DEF Handled

LEMMA handle_handshakeCount ==
  ASSUME SameNetwork, LinkInv, CountInv, NEW e \in Ends, handle_handshake(e) PROVE CountInv'
<1> DEFINE data == Msg(e).data
           r == process_payload_sync_data(e, data, TRUE)
           c1 == [r.c EXCEPT !.task.kind = "ping"]
<1>1. /\ Pair(Dialler(e), ctx[e], ctx[Peer(e)], wire[e], wire[Peer(e)])
      /\ Dialler(e) \in BOOLEAN /\ Peer(e) \in Ends /\ Peer(e) # e /\ ContextOK(ctx[e])
      /\ IsSeq(wire[Peer(e)])
  BY PairAt
<1>2. /\ ctx[e].phase # "closed" /\ ctx[e].task = NoTask
      /\ wire[Peer(e)] # << >> /\ Head(wire[Peer(e)]).type = "handshake"
  BY DEF handle_handshake, Reads
<1>3. NodeOf(e) \in Foreign <=> NodeOf(Peer(e)) \in Foreign
  <2>1. e[2] \in Links /\ (e[1] = e[2][1] \/ e[1] = e[2][2])
    BY DEF Ends
  <2>2. CASE Dialler(e)
    BY <2>1, <2>2 DEF SameNetwork, NodeOf, Peer, Dialler
  <2>3. CASE ~Dialler(e)
    BY <2>1, <2>3 DEF SameNetwork, NodeOf, Peer, Dialler
  <2>4. QED
    BY <2>2, <2>3
<1>4. (NodeOf(e) \in Foreign) = (NodeOf(Peer(e)) \in Foreign)
  BY <1>3
<1>5. ctx' = [ctx EXCEPT ![e] = c1] /\ node' = [node EXCEPT ![NodeOf(e)] = r.nd]
  BY Zenon, <1>4 DEF handle_handshake
<1>6. ctx[e].phase = "open" /\ ctx[e].m_state = "befor_handshake"
  <2>1. Has(wire[Peer(e)], {"handshake"})
    BY SMTT(30), <1>1, <1>2, Received
  <2>2. HandshakeOK(~Dialler(e), ctx[Peer(e)], ctx[e], wire[Peer(e)], wire[e])
    BY <1>1 DEF Pair, EndOK
  <2>3. QED
    BY <2>1, <2>2 DEF HandshakeOK
<1>7. /\ IsContext(r.c) /\ r.c.phase = "open"
      /\ r.c.m_state \in {"sync_required", "pool_sync_required"}
  <2>1. IsContext(ctx[e]) /\ (ctx[e].m_state # "synchronizing" => Clear(ctx[e]))
    BY <1>1 DEF ContextOK
  <2>2. TRUE \in BOOLEAN
    OBVIOUS
  <2>3. AsLeft(r.c) /\ r.c.m_state \in {"sync_required", "pool_sync_required"}
    BY Zenon, <1>2, <1>6, <2>1, <2>2, SyncDataContext
  <2>4. QED
    BY Zenon, <2>3 DEF AsLeft
<1>8. IsCounters(r.nd) /\ r.nd.m_peersCount = node[NodeOf(e)].m_peersCount + (IF TRUE THEN 1 ELSE 0)
  <2>1. TRUE \in BOOLEAN
    OBVIOUS
  <2>2. QED
    BY Zenon, <2>1, SyncDataCount
<1> HIDE DEF r
<1>9. c1.phase = "open" /\ c1.m_state # "befor_handshake"
  BY <1>7 DEF IsContext
<1> HIDE DEF c1
<1>10. r.nd.m_peersCount = node[NodeOf(e)].m_peersCount - Counts(ctx[e]) + Counts(c1)
  BY <1>6, <1>8, <1>9, CountersOf DEF Counts, Shaken
<1>11. QED
  BY Zenon, <1>5, <1>8, <1>10, Recounted

LEMMA HandshakeReplyCount ==
  ASSUME LinkInv, CountInv, NEW e \in Ends, HandshakeReply(e) PROVE CountInv'
<1> DEFINE c == [ctx[e] EXCEPT !.task = NoTask]
<1>1. ctx[e].task.kind = "ping" /\ \E out : Done(e, c, node[NodeOf(e)], out, << >>, wire[Peer(e)])
  BY DEF HandshakeReply
<1>2. Shaken(ctx[e]) /\ IsContext(ctx[e]) /\ ctx[e].phase = "open" /\ ContextOK(ctx[e])
  BY <1>1, ImportingCounted
<1>3. /\ c = [phase |-> ctx[e].phase, m_state |-> ctx[e].m_state,
              m_needed_objects |-> ctx[e].m_needed_objects,
              m_requested_objects |-> ctx[e].m_requested_objects,
              m_remote_blockchain_height |-> ctx[e].m_remote_blockchain_height,
              m_last_response_height |-> ctx[e].m_last_response_height,
              task |-> NoTask]
  BY <1>2, Tasked
<1> HIDE DEF c
<1>4. AsLeft(c)
  BY <1>1, <1>2, <1>3 DEF AsLeft, ContextOK, IsContext, Clear, NoTask
<1>5. QED
  BY <1>1, <1>2, <1>4, StaysCounted, CountersOf

LEMMA HandshakeDoneCount ==
  ASSUME LinkInv, CountInv, NEW e \in Ends, HandshakeDone(e) PROVE CountInv'
<1> DEFINE data == Msg(e).data
           r == process_payload_sync_data(e, data, TRUE)
           c == [r.c EXCEPT !.phase = "open"]
<1>1. /\ Pair(Dialler(e), ctx[e], ctx[Peer(e)], wire[e], wire[Peer(e)])
      /\ Dialler(e) \in BOOLEAN /\ Peer(e) \in Ends /\ ContextOK(ctx[e])
      /\ IsSeq(wire[Peer(e)])
  BY PairAt
<1>2. /\ ctx[e].phase # "closed" /\ ctx[e].task = NoTask
      /\ wire[Peer(e)] # << >> /\ Head(wire[Peer(e)]).type = "handshake_reply"
      /\ Done(e, c, r.nd, << >>, << >>, Tail(wire[Peer(e)]))
  BY Zenon DEF HandshakeDone, Reads, Handled
<1>3. ctx[e].phase = "dialing" /\ ctx[e].m_state = "befor_handshake"
  <2>1. Has(wire[Peer(e)], {"handshake_reply"})
    BY <1>1, <1>2, Received
  <2>2. HandshakeOK(~Dialler(e), ctx[Peer(e)], ctx[e], wire[Peer(e)], wire[e])
    BY <1>1 DEF Pair, EndOK
  <2>3. ctx[e].phase = "dialing"
    BY <2>1, <2>2 DEF HandshakeOK
  <2>4. QED
    BY Zenon, <1>1, <2>3, Opened DEF ContextOK
<1>4. /\ r.c = [phase |-> ctx[e].phase, m_state |-> r.c.m_state,
                m_needed_objects |-> ctx[e].m_needed_objects,
                m_requested_objects |-> ctx[e].m_requested_objects,
                m_remote_blockchain_height |-> data.height,
                m_last_response_height |-> ctx[e].m_last_response_height,
                task |-> NoTask]
      /\ r.c.m_state \in {"sync_required", "pool_sync_required"}
  <2>1. IsContext(ctx[e]) /\ (ctx[e].m_state # "synchronizing" => Clear(ctx[e]))
    BY <1>1 DEF ContextOK
  <2>2. TRUE \in BOOLEAN
    OBVIOUS
  <2>3. QED
    BY Zenon, <1>2, <1>3, <2>1, <2>2, SyncDataContext
<1>5. IsCounters(r.nd) /\ r.nd.m_peersCount = node[NodeOf(e)].m_peersCount + (IF TRUE THEN 1 ELSE 0)
  <2>1. TRUE \in BOOLEAN
    OBVIOUS
  <2>2. QED
    BY Zenon, <2>1, SyncDataCount
<1> HIDE DEF r
<1>6. c = [phase |-> "open", m_state |-> r.c.m_state,
           m_needed_objects |-> ctx[e].m_needed_objects,
           m_requested_objects |-> ctx[e].m_requested_objects,
           m_remote_blockchain_height |-> data.height,
           m_last_response_height |-> ctx[e].m_last_response_height,
           task |-> NoTask]
  BY <1>4
<1> HIDE DEF c
<1>7. AsLeft(c)
  BY <1>1, <1>3, <1>4, <1>6 DEF AsLeft, ContextOK, IsContext, Clear, NoTask
<1>8. r.nd.m_peersCount = node[NodeOf(e)].m_peersCount - Counts(ctx[e]) + 1
  BY <1>3, <1>5, CountersOf DEF Counts, Shaken
<1>9. QED
  BY <1>2, <1>5, <1>7, <1>8, CountsOn

LEMMA DialCount ==
  ASSUME LinkInv, CountInv, NEW l \in Links, Dial(l) PROVE CountInv'
<1> DEFINE e == <<l[1], l>>
<1>1. e \in Ends
  BY NetworkAssumption DEF Ends, IsNetwork
<1> HIDE DEF e
<1>2. Peer(e) \in Ends /\ Peer(e) # e
  BY <1>1, Geometry
<1>3. /\ ctx[e].phase = "closed" /\ ctx[Peer(e)].phase = "closed"
      /\ ctx' = [ctx EXCEPT ![e].phase = "dialing", ![Peer(e)].phase = "open"]
      /\ node' = node
  BY DEF Dial, e
<1>4. ctx[e] = Closed /\ ctx[Peer(e)] = Closed
  BY <1>1, <1>2, <1>3 DEF LinkInv, EndOK, ContextOK
<1>5. /\ ctx'[e] = [Closed EXCEPT !.phase = "dialing"]
      /\ ctx'[Peer(e)] = [Closed EXCEPT !.phase = "open"]
      /\ \A f \in Ends \ {e, Peer(e)} : ctx'[f] = ctx[f]
  <2>1. ctx = [f \in Ends |-> ctx[f]]
    BY DEF LinkInv
  <2>2. QED
    BY <1>1, <1>2, <1>3, <1>4, <2>1
<1>6. ~Shaken(ctx[e]) /\ ~Shaken(ctx[Peer(e)]) /\ ~Shaken(ctx'[e]) /\ ~Shaken(ctx'[Peer(e)])
  BY <1>4, <1>5, Opened DEF Shaken
<1>7. \A f \in Ends : Shaken(ctx'[f]) <=> Shaken(ctx[f])
  BY <1>5, <1>6
<1>8. \A n \in Nodes : Shaking(n)' = Shaking(n)
  BY <1>7 DEF Shaking, Shaken, EndsOf
<1>9. QED
  BY <1>3, <1>8 DEF CountInv

LEMMA CountStep ==
  ASSUME SameNetwork, LinkInv, CountInv, [Next]_vars PROVE CountInv'
<1>1. ASSUME ctx' = ctx, node' = node PROVE CountInv'
  BY <1>1 DEF CountInv, Shaking
<1>2. ASSUME NEW e \in Ends, ctx[e].phase = "open",
             CloseEnd(e, ctx[e], node[NodeOf(e)], << >>)
      PROVE  CountInv'
  BY <1>2, CountsOut, CountersOf DEF Shaken, SameCount
<1>3. ASSUME NEW e \in Ends, connectionHandler(e) PROVE CountInv'
  <2>1. CASE handle_handshake(e) \/ HandshakeReply(e) \/ HandshakeDone(e)
    BY <2>1, handle_handshakeCount, HandshakeReplyCount, HandshakeDoneCount
  <2>2. CASE handle_timed_sync(e) \/ handleTimedSyncResponse(e)
    BY <2>2, TimedSyncCount
  <2>3. CASE \/ handle_request_chain(e) \/ handle_request_get_objects(e)
             \/ handle_notify_new_transactions(e) \/ handleRequestTxPool(e)
    BY <2>3, ServingCount
  <2>4. CASE handle_response_chain_entry(e) \/ handle_response_get_objects(e) \/ ImportNext(e)
    BY <2>4, DownloadCount
  <2>5. CASE handle_notify_new_block(e)
    BY <2>5, NewBlockCount
  <2>6. CASE ReadEof(e)
    BY <1>2, <2>6 DEF ReadEof
  <2>7. QED
    BY <1>3, <2>1, <2>2, <2>3, <2>4, <2>5, <2>6 DEF connectionHandler
<1>4. ASSUME NEW e \in Ends, DialFails(e) PROVE CountInv'
  <2>1. ctx[e].phase = "dialing" /\ ctx' = [ctx EXCEPT ![e] = Closed] /\ node' = node
    BY <1>4 DEF DialFails
  <2>2. Counts(ctx[e]) = 0 /\ Counts(Closed) = 0
    BY <2>1, Opened DEF Counts, Shaken
  <2>3. NodeOf(e) \in Nodes /\ IsCounters(node[NodeOf(e)]) /\ node[NodeOf(e)].m_peersCount \in Int
    BY CountersOf
  <2>4. node' = [node EXCEPT ![NodeOf(e)] = node[NodeOf(e)]]
    BY <2>1, <2>3 DEF CountInv
  <2>5. node[NodeOf(e)].m_peersCount
          = node[NodeOf(e)].m_peersCount - Counts(ctx[e]) + Counts(Closed)
    BY <2>2, <2>3
  <2>6. QED
    BY Zenon, <2>1, <2>3, <2>4, <2>5, Recounted
<1>5. ASSUME NEW e \in Ends, interrupt(e) PROVE CountInv'
  BY <1>2, <1>5 DEF interrupt
<1>6. ASSUME NEW l \in Links, Dial(l) PROVE CountInv'
  BY <1>6, DialCount
<1>7. ASSUME NEW n \in Nodes, timedSync(n) \/ externalRelayNotifyToAll(n) PROVE CountInv'
  BY <1>1, <1>7 DEF timedSync, externalRelayNotifyToAll
<1>8. ASSUME NEW n \in Nodes, NEW b \in Blocks, handle_block_found(n, b) PROVE CountInv'
  BY <1>1, <1>8 DEF handle_block_found
<1>9. ASSUME NEW n \in Nodes, NEW t \in Txs, relay_transactions(n, t) PROVE CountInv'
  BY <1>1, <1>9 DEF relay_transactions
<1>10. CASE UNCHANGED vars
  BY <1>1, <1>10 DEF vars
<1>11. QED
  BY <1>3, <1>4, <1>5, <1>6, <1>7, <1>8, <1>9, <1>10 DEF Next

\* m_peersCount is the number of connections that have shaken hands, however
\* connections are opened, refused, broken and closed, as long as nobody dials
\* into another network.
THEOREM PeersCountedInvariant ==
  ASSUME SameNetwork
  PROVE  Spec => []PeersCounted
<1>1. Init => CountInv
  <2> SUFFICES ASSUME Init PROVE CountInv
    OBVIOUS
  <2>1. ASSUME NEW n \in Nodes PROVE Shaking(n) = {}
    <3>1. \A e \in EndsOf(n) : ctx[e] = Closed
      BY DEF Init, EndsOf
    <3>2. QED
      BY <3>1, Opened DEF Shaking
  <2>2. Cardinality({}) = 0
    BY FS_EmptySet
  <2>3. ASSUME NEW n \in Nodes PROVE IsCounters(node[n]) /\ node[n].m_peersCount = 0
    BY DEF Init, IsCounters
  <2>4. node = [n \in Nodes |-> node[n]]
    BY DEF Init
  <2>5. QED
    BY <2>1, <2>2, <2>3, <2>4 DEF CountInv
<1>2. LinkInv /\ CountInv /\ [Next]_vars => CountInv'
  BY CountStep
<1>3. CountInv => PeersCounted
  BY DEF CountInv, PeersCounted, Shaking
<1>4. QED
  BY <1>1, <1>2, <1>3, LinksAreInvariant, PTL DEF Spec
=============================================================================
