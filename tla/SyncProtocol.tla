---------------------------- MODULE SyncProtocol ----------------------------
(***************************************************************************)
(* The synchronisation protocol between daemons: the message handlers of   *)
(* CryptoNoteProtocolHandler, the connection loops of P2p/NetNode that     *)
(* call them, and the timers that open connections and compare tops.       *)
(*                                                                         *)
(* Every node runs the same code.  Its block storage is used as            *)
(* HeaviestChain promises it.  One dispatcher thread serves all            *)
(* connections of a node, so a handler is one step except where it yields: *)
(* after each imported block, and for the back ping of a handshake.        *)
(* A link is a pair of nodes <<dialler, listener>>; it carries one TCP     *)
(* connection at a time, whose two ends have a context each.               *)
(***************************************************************************)
EXTENDS Integers, Sequences, FiniteSets, Functions

CONSTANTS
  Nodes,
  Links,                  \* subset of Nodes \X Nodes
  Foreign,                \* nodes with another network id
  Blocks, ancestry, cumulative_difficulty, start,   \* see HeaviestChain
  Txs,
  Finds,                  \* who mines what, and sends which transaction
  BLOCKS_IDS_SYNCHRONIZING_DEFAULT_COUNT,
  BLOCKS_SYNCHRONIZING_DEFAULT_COUNT,
  MaxDrops                \* bound: connections that break or are refused

Ends == {e \in Nodes \X Links : e[1] = e[2][1] \/ e[1] = e[2][2]}

IsNetwork ==
  /\ IsFiniteSet(Nodes) /\ IsFiniteSet(Links)
  /\ Links \subseteq Nodes \X Nodes
  /\ \A l \in Links : l[1] # l[2]
  /\ Foreign \subseteq Nodes
  /\ ancestry \in [Blocks -> Seq(Blocks)]
  /\ cumulative_difficulty \in [Blocks -> Nat]
  /\ \A b \in Blocks : ancestry[b] # << >> =>
       LET p == ancestry[b][Len(ancestry[b])] IN ancestry[b] = Append(ancestry[p], p)
  /\ start \in [Nodes -> Blocks]
  /\ Finds \subseteq Nodes \X (Blocks \cup Txs)
  /\ BLOCKS_IDS_SYNCHRONIZING_DEFAULT_COUNT \in Nat \ {0}
  /\ BLOCKS_SYNCHRONIZING_DEFAULT_COUNT \in Nat \ {0}
  /\ MaxDrops \in Nat

ASSUME NetworkAssumption == IsNetwork

VARIABLES
  tip, known,  \* the block storage of each node, see HeaviestChain
  pool,        \* [Nodes -> SUBSET Txs]: the transaction pool
  ctx,         \* [Ends -> context of the connection]
  wire,        \* [Ends -> messages sent by this end and not yet read]
  node,        \* [Nodes -> counters of the protocol handler]
  spawned,     \* [Nodes -> relays posted to the dispatcher by other threads]
  drops

chainVars == <<tip, known>>
vars == <<tip, known, pool, ctx, wire, node, spawned, drops>>

Chain == INSTANCE HeaviestChain

-----------------------------------------------------------------------------
(* The block storage as the handlers see it.                               *)

Path(b) == Append(ancestry[b], b)
MainChain(n) == Path(tip[n])
get_current_blockchain_height(n) == Len(ancestry[tip[n]])
Parent(b) == ancestry[b][Len(ancestry[b])]

\* A block that passes the checks (is one of Blocks) and is not orphaned.
IsLinked(n, b) == b \in Blocks /\ ancestry[b] # << >> /\ Parent(b) \in known[n]

\* addNewBlock of a block that is new and not orphaned, as HeaviestChain allows
\* it: a valid block becomes the tip when it is the heavier one.
addNewBlock(n, b) ==
  /\ known' = [known EXCEPT ![n] = @ \cup {b}]
  /\ tip' = IF Chain!IsHeavier(b, tip[n]) THEN [tip EXCEPT ![n] = b] ELSE tip

\* Blocks at distance 0, 1, 3, 7 ... from the tail, and the genesis block.
buildSparseChain(n) ==
  LET c == MainChain(n)
      N == Len(c)
      steps == Cardinality({k \in 0 .. N : 2 ^ k <= N})
      sparse == [k \in 1 .. steps |-> c[N + 1 - 2 ^ (k - 1)]]
  IN  IF sparse[steps] = c[1] THEN sparse ELSE Append(sparse, c[1])

\* The position, counted from 0, of the first of ids that is in the main chain.
findSupplement(n, ids) ==
  LET c == MainChain(n)
      i == CHOOSE k \in DOMAIN ids :
             /\ ids[k] \in Range(c)
             /\ \A j \in 1 .. k - 1 : ids[j] \notin Range(c)
  IN  Len(ancestry[ids[i]])

\* Fault: the block both chains share is left out.
IdsAfter(n, offset, count) ==
  LET c == MainChain(n)
  IN  SubSeq(c, offset + 2, IF offset + count < Len(c) THEN offset + count ELSE Len(c))
getBlockIds(n, offset, count) ==
  LET c == MainChain(n)
  IN  SubSeq(c, offset + 1, IF offset + count < Len(c) THEN offset + count ELSE Len(c))

-----------------------------------------------------------------------------
(* Connections and messages.                                               *)

NodeOf(e)  == e[1]
Dialler(e) == e[1] = e[2][1]
Peer(e)    == <<IF Dialler(e) THEN e[2][2] ELSE e[2][1], e[2]>>
EndsOf(n)  == {e \in Ends : e[1] = n}

\* A context.  phase: closed; dialing, when a dialler waits for the reply to
\* its handshake; open, when it is in m_connections.  task is what a handler
\* that yielded still has to do.
NoTask == [kind |-> "none", blocks |-> << >>]
Closed == [phase |-> "closed", m_state |-> "befor_handshake",
           m_needed_objects |-> << >>, m_requested_objects |-> {},
           m_remote_blockchain_height |-> 0, m_last_response_height |-> 0,
           task |-> NoTask]

Eof == [type |-> "eof"]
SyncData(n) == [height |-> get_current_blockchain_height(n) + 1, top |-> tip[n]]
NewBlock(b, h) == [type |-> "new_block", block |-> b, height |-> h]
NewTxs(T) == [type |-> "new_transactions", txs |-> T]
Payload(kind, n) == [type |-> kind, data |-> SyncData(n)]
RequestChain(n) == [type |-> "request_chain", ids |-> buildSparseChain(n)]
RequestTxPool(n) == [type |-> "request_tx_pool", txs |-> pool[n]]

\* The next message e will read, when its loop is back at readCommand.
Reads(e, type) ==
  /\ ctx[e].phase # "closed" /\ ctx[e].task = NoTask
  /\ wire[Peer(e)] # << >> /\ Head(wire[Peer(e)]).type = type
Msg(e) == Head(wire[Peer(e)])

\* relay_notify_to_all: the ends of n a notification goes to.
RelayTargets(n, excluded) ==
  {e \in EndsOf(n) \ excluded :
     ctx[e].phase = "open" /\ ctx[e].m_state \in {"normal", "synchronizing"}}

-----------------------------------------------------------------------------
(* Observed height, peer count, end of a connection.                       *)

Max2(a, b) == IF a < b THEN b ELSE a

recalculateMaxObservedHeight(e) ==
  LET n == NodeOf(e)
      heights == {ctx[f].m_remote_blockchain_height :
                    f \in {g \in EndsOf(n) \ {e} : ctx[g].phase = "open"}}
      local == get_current_blockchain_height(n) + 1
  IN  CHOOSE h \in heights \cup {local} : \A x \in heights \cup {local} : x <= h

\* updateObservedHeight, before the context takes the new height over.
updateObservedHeight(e, peerHeight) ==
  LET n == NodeOf(e)
      remote == ctx[e].m_remote_blockchain_height
  IN  [node[n] EXCEPT !.m_observedHeight =
         IF peerHeight > remote THEN Max2(@, peerHeight)
         ELSE IF peerHeight # remote /\ remote = @
         THEN recalculateMaxObservedHeight(e)
         ELSE @]

\* Fault: a connection that never completed its handshake is not told apart.
CountEveryClose(e, c, nd) ==
  [nd EXCEPT !.m_observedHeight = recalculateMaxObservedHeight(e),
             !.m_peersCount = @ - 1]

\* onConnectionClosed for a context that ends as c, with the node at nd.
onConnectionClosed(e, c, nd) ==
  [nd EXCEPT !.m_observedHeight = recalculateMaxObservedHeight(e),
             !.m_peersCount = IF c.m_state # "befor_handshake" THEN @ - 1 ELSE @]

\* connectionHandler leaves its loop: the peer still reads a part of what was
\* sent, then the end of the stream.
CloseEnd(e, c, nd, out) ==
  /\ ctx' = [ctx EXCEPT ![e] = Closed]
  /\ node' = [node EXCEPT ![NodeOf(e)] = onConnectionClosed(e, c, nd)]
  /\ IF ctx[Peer(e)].phase = "closed"
     THEN wire' = [wire EXCEPT ![e] = << >>, ![Peer(e)] = << >>]
     ELSE \E k \in 0 .. Len(wire[e] \o out) :
            wire' = [wire EXCEPT ![e] = Append(SubSeq(wire[e] \o out, 1, k), Eof),
                                 ![Peer(e)] = << >>]

\* Fault: a new connection does not ask for the peer's pool.
NoPoolSync(n, c) ==
  CASE c.m_state = "sync_required" ->
         [c |-> [c EXCEPT !.m_state = "synchronizing"], out |-> <<RequestChain(n)>>]
    [] c.m_state = "pool_sync_required" ->
         [c |-> [c EXCEPT !.m_state = "normal"], out |-> << >>]
    [] OTHER -> [c |-> c, out |-> << >>]

\* The loop head of connectionHandler acts on the two states that ask for it.
LoopHead(n, c) ==
  CASE c.m_state = "sync_required" ->
         [c |-> [c EXCEPT !.m_state = "synchronizing"], out |-> <<RequestChain(n)>>]
    [] c.m_state = "pool_sync_required" ->
         [c |-> [c EXCEPT !.m_state = "normal"], out |-> <<RequestTxPool(n)>>]
    [] OTHER -> [c |-> c, out |-> << >>]

\* A handler of e is done with its message (rest is what is left to read): c
\* is the context, nd the node's counters, out what it sent to the peer,
\* bcast what it relayed to the node's other connections.
Done(e, c, nd, out, bcast, rest) ==
  LET n == NodeOf(e)
      head == LoopHead(n, c)
      others == RelayTargets(n, {e})
  IN  IF c.m_state = "shutdown"
      THEN CloseEnd(e, c, nd, out)
      ELSE /\ ctx' = [ctx EXCEPT ![e] = head.c]
           /\ node' = [node EXCEPT ![n] = nd]
           /\ wire' = [f \in Ends |->
                         IF f = Peer(e) THEN rest
                         ELSE IF ctx[Peer(f)].phase = "closed" THEN << >>
                         ELSE IF f = e THEN wire[f] \o (out \o head.out)
                         ELSE IF f \in others THEN wire[f] \o bcast
                         ELSE wire[f]]

Handled(e, c, nd, out, bcast) == Done(e, c, nd, out, bcast, Tail(wire[Peer(e)]))

-----------------------------------------------------------------------------
(* Handshake and timed synchronisation.                                    *)

\* Fault: a connection whose top block is known is normal at once, also when
\* the handler was in the middle of a synchronisation.
StateFromTop(e, data, is_inital) ==
  IF data.top \in known[NodeOf(e)]
  THEN IF is_inital THEN "pool_sync_required" ELSE "normal"
  ELSE "sync_required"

\* Fault: only a handshake starts a synchronisation.
SyncAtHandshakeOnly(e, data, is_inital) ==
  IF ctx[e].m_state = "synchronizing" THEN "synchronizing"
  ELSE IF data.top \in known[NodeOf(e)] \/ ~is_inital
  THEN IF is_inital THEN "pool_sync_required" ELSE "normal"
  ELSE "sync_required"

\* The state process_payload_sync_data gives to a context.
StateAfterSyncData(e, data, is_inital) ==
  IF ctx[e].m_state = "synchronizing" THEN "synchronizing"
  ELSE IF data.top \in known[NodeOf(e)]
  THEN IF is_inital THEN "pool_sync_required" ELSE "normal"
  ELSE "sync_required"

process_payload_sync_data(e, data, is_inital) ==
  LET st == StateAfterSyncData(e, data, is_inital)
      nd == updateObservedHeight(e, data.height)
  IN  IF ctx[e].m_state = "befor_handshake" /\ ~is_inital
      THEN [c |-> ctx[e], nd |-> node[NodeOf(e)]]
      ELSE [c |-> [ctx[e] EXCEPT !.m_state = st,
                                 !.m_remote_blockchain_height = data.height],
            nd |-> [nd EXCEPT
                      !.m_synchronized = @ \/ (is_inital /\ st = "pool_sync_required"),
                      !.m_peersCount = IF is_inital THEN @ + 1 ELSE @]]

\* try_to_connect_and_handshake_with_new_peer: the listener accepts, the
\* dialler sends the handshake.
Dial(l) ==
  LET e == <<l[1], l>>
      foreign == (l[1] \in Foreign) # (l[2] \in Foreign)
  IN  /\ ctx[e].phase = "closed" /\ ctx[Peer(e)].phase = "closed"
      /\ foreign => drops < MaxDrops
      /\ drops' = IF foreign THEN drops + 1 ELSE drops
      /\ ctx' = [ctx EXCEPT ![e].phase = "dialing", ![Peer(e)].phase = "open"]
      /\ wire' = [wire EXCEPT ![e] = <<Payload("handshake", NodeOf(e))>>]
      /\ UNCHANGED <<chainVars, pool, node, spawned>>

\* handle_handshake up to the back ping.  A dialler of another network is
\* dropped before the handler knows it.
handle_handshake(e) ==
  /\ Reads(e, "handshake")
  /\ IF (NodeOf(e) \in Foreign) # (NodeOf(Peer(e)) \in Foreign)
     THEN Handled(e, [ctx[e] EXCEPT !.m_state = "shutdown"], node[NodeOf(e)],
                  << >>, << >>)
     ELSE LET r == process_payload_sync_data(e, Msg(e).data, TRUE)
          IN  /\ ctx' = [ctx EXCEPT ![e] = [r.c EXCEPT !.task.kind = "ping"]]
              /\ node' = [node EXCEPT ![NodeOf(e)] = r.nd]
              /\ wire' = [wire EXCEPT ![Peer(e)] = Tail(@)]
  /\ UNCHANGED <<chainVars, pool, spawned, drops>>

\* try_ping returned, or failed: the reply carries the top of this moment.
HandshakeReply(e) ==
  /\ ctx[e].task.kind = "ping"
  /\ Done(e, [ctx[e] EXCEPT !.task = NoTask], node[NodeOf(e)],
          <<Payload("handshake_reply", NodeOf(e))>>, << >>, wire[Peer(e)])
  /\ UNCHANGED <<chainVars, pool, spawned, drops>>

\* The dialler's handshake() returns and the connection is registered.
HandshakeDone(e) ==
  /\ Reads(e, "handshake_reply")
  /\ LET r == process_payload_sync_data(e, Msg(e).data, TRUE)
     IN  Handled(e, [r.c EXCEPT !.phase = "open"], r.nd, << >>, << >>)
  /\ UNCHANGED <<chainVars, pool, spawned, drops>>

\* The connection is refused, closed by the listener or timed out before.
DialFails(e) ==
  /\ ctx[e].phase = "dialing"
  /\ \/ Reads(e, "eof") /\ UNCHANGED drops
     \/ drops < MaxDrops /\ drops' = drops + 1
  /\ ctx' = [ctx EXCEPT ![e] = Closed]
  /\ wire' = [wire EXCEPT ![Peer(e)] = << >>,
                          ![e] = IF ctx[Peer(e)].phase = "closed" THEN << >>
                                 ELSE Append(@, Eof)]
  /\ UNCHANGED <<chainVars, pool, node, spawned>>

\* timedSyncLoop.  The interval is a minute; the bound is one round in flight
\* in the network.
timedSync(n) ==
  LET targets == {e \in EndsOf(n) : ctx[e].phase = "open"
                                    /\ ctx[e].m_state \in {"normal", "idle"}}
      pending(e) == {m \in Range(wire[e]) : m.type = "timed_sync"}
      replies(e) == {m \in Range(wire[Peer(e)]) : m.type = "timed_sync_reply"}
  IN  /\ targets # {}
      /\ \A e \in Ends : pending(e) \cup replies(e) = {}
      /\ wire' = [e \in Ends |->
                    IF e \in targets /\ ctx[Peer(e)].phase # "closed"
                    THEN Append(wire[e], Payload("timed_sync", n)) ELSE wire[e]]
      /\ UNCHANGED <<chainVars, pool, ctx, node, spawned, drops>>

handle_timed_sync(e) ==
  /\ Reads(e, "timed_sync")
  /\ LET r == process_payload_sync_data(e, Msg(e).data, FALSE)
     IN  Handled(e, r.c, r.nd, <<Payload("timed_sync_reply", NodeOf(e))>>, << >>)
  /\ UNCHANGED <<chainVars, pool, spawned, drops>>

handleTimedSyncResponse(e) ==
  /\ Reads(e, "timed_sync_reply")
  /\ LET r == process_payload_sync_data(e, Msg(e).data, FALSE)
     IN  Handled(e, r.c, r.nd, << >>, << >>)
  /\ UNCHANGED <<chainVars, pool, spawned, drops>>

-----------------------------------------------------------------------------
(* Download of missing blocks.                                             *)

\* The needed objects a request takes off the list: up to the point where
\* enough of them are wanted, blocks that arrived in the meantime left out.
Wanted(n, needed, check_having_blocks) ==
  LET want(b) == ~(check_having_blocks /\ b \in known[n])
      wanted(k) == Cardinality({i \in 1 .. k : want(needed[i])})
      taken == CHOOSE k \in 0 .. Len(needed) :
                 /\ k = Len(needed) \/ wanted(k) = BLOCKS_SYNCHRONIZING_DEFAULT_COUNT
                 /\ \A j \in 0 .. k - 1 : wanted(j) # BLOCKS_SYNCHRONIZING_DEFAULT_COUNT
  IN  [ids |-> SelectSeq(SubSeq(needed, 1, taken), want),
       rest |-> SubSeq(needed, taken + 1, Len(needed))]

\* request_missing_objects: the objects that are known to be needed, or more
\* ids, or the end of the synchronisation.  In the last case the code only
\* logs an error when the heights disagree.
request_missing_objects(n, c, nd, check_having_blocks) ==
  LET w == Wanted(n, c.m_needed_objects, check_having_blocks)
      last == c.m_last_response_height
      top == c.m_remote_blockchain_height - 1
  IN  IF c.m_needed_objects # << >>
      THEN [c |-> [c EXCEPT !.m_needed_objects = w.rest,
                            !.m_requested_objects = @ \cup Range(w.ids)],
            out |-> <<[type |-> "get_objects", ids |-> w.ids]>>, nd |-> nd]
      ELSE IF last < top
      THEN [c |-> c, out |-> <<RequestChain(n)>>, nd |-> nd]
      ELSE IF last = top /\ c.m_requested_objects = {}
      THEN [c |-> [c EXCEPT !.m_state = "normal"], out |-> <<RequestTxPool(n)>>,
            nd |-> [nd EXCEPT !.m_synchronized = TRUE]]
      ELSE [c |-> c, out |-> << >>, nd |-> nd]

handle_request_chain(e) ==
  LET n == NodeOf(e)
      offset == findSupplement(n, Msg(e).ids)
  IN  /\ Reads(e, "request_chain")
      /\ Handled(e, ctx[e], node[n],
           <<[type |-> "chain_entry",
              ids |-> getBlockIds(n, offset, BLOCKS_IDS_SYNCHRONIZING_DEFAULT_COUNT),
              start_height |-> offset,
              total_height |-> get_current_blockchain_height(n) + 1]>>, << >>)
      /\ UNCHANGED <<chainVars, pool, spawned, drops>>

handle_response_chain_entry(e) ==
  LET n == NodeOf(e)
      m == Msg(e)
      missing(b) == b \notin known[n]
      c == [ctx[e] EXCEPT
              !.m_remote_blockchain_height = m.total_height,
              !.m_last_response_height = m.start_height + Len(m.ids) - 1,
              !.m_needed_objects = @ \o SelectSeq(m.ids, missing)]
      r == request_missing_objects(n, c, node[n], FALSE)
  IN  /\ Reads(e, "chain_entry")
      /\ IF m.ids = << >> \/ m.ids[1] \notin known[n]
         THEN Handled(e, [ctx[e] EXCEPT !.m_state = "shutdown"], node[n], << >>, << >>)
         ELSE Handled(e, r.c, r.nd, r.out, << >>)
      /\ UNCHANGED <<chainVars, pool, spawned, drops>>

\* handleGetObjects finds the blocks of the main chain only.
handle_request_get_objects(e) ==
  LET n == NodeOf(e)
      main(b) == b \in Range(MainChain(n))
  IN  /\ Reads(e, "get_objects")
      /\ Handled(e, ctx[e], node[n],
           <<[type |-> "objects", blocks |-> SelectSeq(Msg(e).ids, main),
              height |-> get_current_blockchain_height(n) + 1]>>, << >>)
      /\ UNCHANGED <<chainVars, pool, spawned, drops>>

\* Fault: the lists of an idle connection are not cleared.
IdleKeepsLists(c) == [c EXCEPT !.m_state = "idle", !.task = NoTask]

\* The blocks come from another connection: this one is suspended.
Idle(c) == [c EXCEPT !.m_state = "idle", !.m_needed_objects = << >>,
                     !.m_requested_objects = {}, !.task = NoTask]

\* processObjects: the next of the delivered blocks is imported and the handler
\* yields; after the last one it asks for more.
processObjects(e, c, nd, blocks, rest) ==
  LET n == NodeOf(e)
      b == Head(blocks)
      idle == [c EXCEPT !.task = NoTask]
      r == request_missing_objects(n, idle, nd, TRUE)
  IN  IF blocks = << >>
      THEN Done(e, r.c, r.nd, r.out, << >>, rest) /\ UNCHANGED chainVars
      ELSE IF b \in known[n]
      THEN Done(e, Idle(c), nd, << >>, << >>, rest) /\ UNCHANGED chainVars
      ELSE IF ~IsLinked(n, b)
      THEN Done(e, [idle EXCEPT !.m_state = "shutdown"], nd, << >>, << >>, rest)
           /\ UNCHANGED chainVars
      ELSE /\ addNewBlock(n, b)
           /\ ctx' = [ctx EXCEPT ![e] = [c EXCEPT !.task = [kind |-> "import",
                                                           blocks |-> Tail(blocks)]]]
           /\ node' = [node EXCEPT ![n] = nd]
           /\ wire' = [wire EXCEPT ![Peer(e)] = rest]

\* handle_response_get_objects with the import of the first block.
handle_response_get_objects(e) ==
  LET n == NodeOf(e)
      m == Msg(e)
      requested == ctx[e].m_requested_objects
      c == [ctx[e] EXCEPT !.m_remote_blockchain_height = m.height]
      nd == updateObservedHeight(e, m.height)
      shutdown(s) == [s EXCEPT !.m_state = "shutdown"]
  IN  /\ Reads(e, "objects")
      /\ IF ctx[e].m_last_response_height > m.height
         THEN Handled(e, shutdown(ctx[e]), node[n], << >>, << >>) /\ UNCHANGED chainVars
         ELSE IF Len(m.blocks) > 1 /\ m.blocks[1] \in requested /\ m.blocks[2] \in known[n]
         THEN Handled(e, Idle(c), nd, << >>, << >>) /\ UNCHANGED chainVars
         ELSE IF Range(m.blocks) # requested
         THEN Handled(e, shutdown(c), nd, << >>, << >>) /\ UNCHANGED chainVars
         ELSE processObjects(e, [c EXCEPT !.m_requested_objects = {}], nd, m.blocks,
                             Tail(wire[Peer(e)]))
      /\ UNCHANGED <<pool, spawned, drops>>

ImportNext(e) ==
  /\ ctx[e].task.kind = "import"
  /\ processObjects(e, ctx[e], node[NodeOf(e)], ctx[e].task.blocks, wire[Peer(e)])
  /\ UNCHANGED <<pool, spawned, drops>>

-----------------------------------------------------------------------------
(* Relayed blocks and transactions.                                        *)

\* A block is relayed when it becomes the tip; an orphan starts a
\* synchronisation with the peer it came from.
handle_notify_new_block(e) ==
  LET n == NodeOf(e)
      m == Msg(e)
      b == m.block
      c == [ctx[e] EXCEPT !.m_remote_blockchain_height = m.height]
      nd == updateObservedHeight(e, m.height)
      main == Chain!IsHeavier(b, tip[n])
      switched == main /\ Parent(b) # tip[n]
  IN  /\ Reads(e, "new_block")
      /\ IF c.m_state # "normal" \/ b \in known[n]
         THEN Handled(e, c, nd, << >>, << >>) /\ UNCHANGED chainVars
         ELSE IF IsLinked(n, b)
         THEN /\ addNewBlock(n, b)
              /\ Handled(e, c, nd, IF switched THEN <<RequestTxPool(n)>> ELSE << >>,
                         IF main THEN <<m>> ELSE << >>)
         ELSE /\ Handled(e, [c EXCEPT !.m_state = "synchronizing"], nd,
                         <<RequestChain(n)>>, << >>)
              /\ UNCHANGED chainVars
      /\ UNCHANGED <<pool, spawned, drops>>

\* Transactions that are new to the pool are kept and relayed.
handle_notify_new_transactions(e) ==
  LET n == NodeOf(e)
      fresh == Msg(e).txs \ pool[n]
      normal == ctx[e].m_state = "normal"
  IN  /\ Reads(e, "new_transactions")
      /\ pool' = IF normal THEN [pool EXCEPT ![n] = @ \cup fresh] ELSE pool
      /\ Handled(e, ctx[e], node[n], << >>,
                 IF normal /\ fresh # {} THEN <<NewTxs(fresh)>> ELSE << >>)
      /\ UNCHANGED <<chainVars, spawned, drops>>

handleRequestTxPool(e) ==
  LET n == NodeOf(e)
      added == pool[n] \ Msg(e).txs
  IN  /\ Reads(e, "request_tx_pool")
      /\ Handled(e, ctx[e], node[n],
                 IF added # {} THEN <<NewTxs(added)>> ELSE << >>, << >>)
      /\ UNCHANGED <<chainVars, pool, spawned, drops>>

\* handle_block_found on a miner's thread: the relay of a block that is on the
\* main chain is posted to the dispatcher.
handle_block_found(n, b) ==
  /\ <<n, b>> \in Finds /\ \A k \in Nodes : b \notin known[k]
  /\ IsLinked(n, b)
  /\ addNewBlock(n, b)
  /\ spawned' = IF Chain!IsHeavier(b, tip[n])
                THEN [spawned EXCEPT ![n] = Append(@, NewBlock(b, Len(ancestry[b]) + 1))]
                ELSE spawned
  /\ UNCHANGED <<pool, ctx, wire, node, drops>>

\* A transaction of the local wallet: on_send_raw_tx on the RPC server.
relay_transactions(n, t) ==
  /\ <<n, t>> \in Finds /\ \A k \in Nodes : t \notin pool[k]
  /\ pool' = [pool EXCEPT ![n] = @ \cup {t}]
  /\ spawned' = [spawned EXCEPT ![n] = Append(@, NewTxs({t}))]
  /\ UNCHANGED <<chainVars, ctx, wire, node, drops>>

\* externalRelayNotifyToAll, when the dispatcher runs what was posted.
externalRelayNotifyToAll(n) ==
  LET targets == RelayTargets(n, {})
  IN  /\ spawned[n] # << >>
      /\ spawned' = [spawned EXCEPT ![n] = Tail(@)]
      /\ wire' = [e \in Ends |-> IF e \in targets /\ ctx[Peer(e)].phase # "closed"
                                 THEN Append(wire[e], Head(spawned[n])) ELSE wire[e]]
      /\ UNCHANGED <<chainVars, pool, ctx, node, drops>>

-----------------------------------------------------------------------------
\* The peer has closed the connection.
ReadEof(e) ==
  /\ ctx[e].phase = "open" /\ Reads(e, "eof")
  /\ CloseEnd(e, ctx[e], node[NodeOf(e)], << >>)
  /\ UNCHANGED <<chainVars, pool, spawned, drops>>

\* The connection breaks: a write timed out, the queue of messages to write is
\* full, the peer is unreachable.
interrupt(e) ==
  /\ ctx[e].phase = "open" /\ ctx[e].task = NoTask
  /\ drops < MaxDrops /\ drops' = drops + 1
  /\ CloseEnd(e, ctx[e], node[NodeOf(e)], << >>)
  /\ UNCHANGED <<chainVars, pool, spawned>>

Init ==
  /\ Chain!Init
  /\ pool = [n \in Nodes |-> {}]
  /\ ctx = [e \in Ends |-> Closed]
  /\ wire = [e \in Ends |-> << >>]
  /\ node = [n \in Nodes |-> [m_observedHeight |-> 0, m_peersCount |-> 0,
                              m_synchronized |-> FALSE]]
  /\ spawned = [n \in Nodes |-> << >>]
  /\ drops = 0

\* What the connection loop of e does next.
connectionHandler(e) ==
  \/ handle_handshake(e) \/ HandshakeReply(e) \/ HandshakeDone(e)
  \/ handle_timed_sync(e) \/ handleTimedSyncResponse(e)
  \/ handle_request_chain(e) \/ handle_response_chain_entry(e)
  \/ handle_request_get_objects(e) \/ handle_response_get_objects(e) \/ ImportNext(e)
  \/ handle_notify_new_block(e) \/ handle_notify_new_transactions(e)
  \/ handleRequestTxPool(e) \/ ReadEof(e)

Next ==
  \/ \E e \in Ends : connectionHandler(e) \/ DialFails(e) \/ interrupt(e)
  \/ \E l \in Links : Dial(l)
  \/ \E n \in Nodes : timedSync(n) \/ externalRelayNotifyToAll(n)
  \/ \E n \in Nodes, b \in Blocks : handle_block_found(n, b)
  \/ \E n \in Nodes, t \in Txs : relay_transactions(n, t)

Spec == Init /\ [][Next]_vars

\* Connection loops and timers are contexts of the dispatcher, which serves
\* them in turn; a dialler tries again.  The timer of timedSyncLoop fires every
\* minute, whatever else goes on: strong fairness makes up for the bound on the
\* rounds in flight.  Nobody is forced to mine.
FairSpec ==
  /\ Spec
  /\ \A e \in Ends : WF_vars(connectionHandler(e)) /\ WF_vars(DialFails(e) /\ drops' = drops)
  /\ \A l \in Links : WF_vars(Dial(l))
  /\ \A n \in Nodes : SF_vars(timedSync(n)) /\ WF_vars(externalRelayNotifyToAll(n))

-----------------------------------------------------------------------------
(* Properties.                                                             *)

\* Messages of a synchronisation that e has asked for and not yet handled.
Pending(e) ==
  LET asked == {i \in DOMAIN wire[e] : wire[e][i].type \in {"request_chain", "get_objects"}}
      answered == {i \in DOMAIN wire[Peer(e)] :
                     wire[Peer(e)][i].type \in {"chain_entry", "objects"}}
  IN  Cardinality(asked) + Cardinality(answered)

Linked(e) == ctx[e].phase = "open" /\ ctx[Peer(e)].phase = "open"

\* A synchronisation never stalls and is never started twice: as long as both
\* ends are open, an end that is synchronizing (handle_notify_new_block,
\* start_sync, request_missing_objects) is importing or waits for exactly one
\* answer, and one that is not waits for none.
SyncIsDriven ==
  \A e \in Ends : Linked(e) /\ ctx[e].task = NoTask =>
    Pending(e) = IF ctx[e].m_state = "synchronizing" THEN 1 ELSE 0

\* The assertions of start_sync: the lists of needed and requested objects are
\* empty whenever a connection that is not synchronizing may start to.
ListsAreClear ==
  \A e \in Ends : ctx[e].m_state # "synchronizing" =>
    ctx[e].m_needed_objects = << >> /\ ctx[e].m_requested_objects = {}

\* m_peersCount, which process_payload_sync_data and onConnectionClosed keep on
\* their own, is the number of connections that have shaken hands.
PeersCounted ==
  \A n \in Nodes : node[n].m_peersCount =
    Cardinality({e \in EndsOf(n) : ctx[e].phase = "open"
                                  /\ ctx[e].m_state # "befor_handshake"})

\* No node drops an honest peer for what its other connections or its miner
\* did in the meantime: while processObjects yields, blocks on their way may be
\* imported from elsewhere, announced or mined, and the answers still match
\* what was asked.  The one reason to close a connection from this side is a
\* peer that left the branch the requested blocks are on.
HonestPeersKept ==
  [][\A e \in Ends :
       (Linked(e) /\ ctx'[e].phase = "closed" /\ drops' = drops) =>
         \E b \in ctx[e].m_requested_objects : b \notin Range(MainChain(NodeOf(Peer(e))))]_vars

\* All nodes end with main chains of the same weight, whichever way the blocks
\* took and whatever connection broke.
NodesConverge ==
  <>[](\A m, n \in Nodes : cumulative_difficulty[tip[m]] = cumulative_difficulty[tip[n]])

\* A transaction reaches every pool although nobody sends it twice, provided no
\* connection is idle while a pool lacks it.  What a connection ignores before it
\* is normal (handle_notify_new_transactions) and what is lost when it breaks,
\* requestMissingPoolTransactions gets at the handshake or at the end of the
\* download.  Not so on an idle connection: it neither relays nor accepts
\* transactions, and process_payload_sync_data makes it normal without asking
\* for the pool, so a transaction that passed by in between may never come.
PoolsAgree ==
  [](\A e \in Ends : ctx[e].m_state = "idle" => \A m, n \in Nodes : pool[m] = pool[n]) =>
    <>[](\A m, n \in Nodes : pool[m] = pool[n])
=============================================================================
