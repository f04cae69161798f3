------------------------- MODULE SyncProtocolProofs -------------------------
(***************************************************************************)
(* Proofs about the connections of SyncProtocol, for every finite network, *)
(* every block tree and every batch size: what the two ends of a link      *)
(* remember fits what is on its two wires.  The handshake goes first in    *)
(* either direction and only once; an end waits for one answer at most;    *)
(* and one that is not synchronizing has nothing needed or requested.      *)
(*                                                                         *)
(* LinkInv is the inductive invariant.  Every handler is shown to keep it  *)
(* by one of a few lemmas about a pair of ends (Served, Left, Dialled,     *)
(* HandshakeTaken, HandshakeAnswered, HandshakeReturned, ImportStarts,     *)
(* ImportGoesOn, ImportEnds, OneSide), which know nothing of the network.  *)
(***************************************************************************)
EXTENDS SyncProtocol, SequenceTheorems, TLAPS

-----------------------------------------------------------------------------
(* Sequences of messages, of whatever set.                                 *)

IsSeq(s) == s \in Seq(Range(s))

LEMMA SeqOver ==
  ASSUME NEW S, NEW s \in Seq(S) PROVE IsSeq(s)
BY SeqOfRange DEF IsSeq

LEMMA Indices ==
  ASSUME NEW s, IsSeq(s)
  PROVE  Len(s) \in Nat /\ DOMAIN s = 1 .. Len(s) /\ (s = << >> <=> Len(s) = 0)
BY DEF IsSeq

LEMMA Empty == IsSeq(<< >>) /\ Len(<< >>) = 0
BY DEF IsSeq

LEMMA One == ASSUME NEW m PROVE IsSeq(<<m>>) /\ Len(<<m>>) = 1 /\ <<m>>[1] = m
<1>1. <<m>> \in Seq({m})
  OBVIOUS
<1>2. QED BY Zenon, <1>1, SeqOver

LEMMA Joined ==
  ASSUME NEW s, IsSeq(s), NEW t, IsSeq(t)
  PROVE  /\ IsSeq(s \o t)
         /\ Len(s \o t) = Len(s) + Len(t)
         /\ \A i \in 1 .. Len(s) : (s \o t)[i] = s[i]
         /\ \A i \in 1 .. Len(t) : (s \o t)[Len(s) + i] = t[i]
<1> DEFINE S == Range(s) \cup Range(t)
<1>1. s \in Seq(S) /\ t \in Seq(S)
  BY SeqMonotonic DEF IsSeq
<1>2. s \o t \in Seq(S)
  BY <1>1, ConcatProperties
<1>3. IsSeq(s \o t)
  BY Zenon, <1>2, SeqOver
<1>4. QED
  BY <1>1, <1>3, ConcatProperties, LenProperties

LEMMA Appended ==
  ASSUME NEW s, IsSeq(s), NEW m
  PROVE  /\ IsSeq(Append(s, m))
         /\ Len(Append(s, m)) = Len(s) + 1
         /\ \A i \in 1 .. Len(s) : Append(s, m)[i] = s[i]
         /\ Append(s, m)[Len(s) + 1] = m
<1> DEFINE S == Range(s) \cup {m}
<1>1. s \in Seq(S) /\ m \in S
  BY SeqMonotonic DEF IsSeq
<1>2. Append(s, m) \in Seq(S)
  BY <1>1, AppendProperties
<1>3. IsSeq(Append(s, m))
  BY Zenon, <1>2, SeqOver
<1>4. QED
  BY <1>1, <1>3, AppendProperties

LEMMA Rest ==
  ASSUME NEW s, IsSeq(s), s # << >>
  PROVE  /\ Head(s) = s[1] /\ IsSeq(Tail(s)) /\ Len(Tail(s)) = Len(s) - 1
         /\ \A i \in 1 .. Len(s) - 1 : Tail(s)[i] = s[i + 1]
<1>1. s \in Seq(Range(s))
  BY DEF IsSeq
<1> HIDE DEF Range
<1>2. Tail(s) \in Seq(Range(s))
  BY <1>1, HeadTailProperties
<1>3. IsSeq(Tail(s))
  BY Zenon, <1>2, SeqOver
<1>4. QED
  BY <1>1, <1>3, HeadTailProperties

LEMMA Beginning ==
  ASSUME NEW s, IsSeq(s), NEW k \in 0 .. Len(s)
  PROVE  /\ IsSeq(SubSeq(s, 1, k)) /\ Len(SubSeq(s, 1, k)) = k
         /\ \A i \in 1 .. k : SubSeq(s, 1, k)[i] = s[i]
<1>1. s \in Seq(Range(s))
  BY DEF IsSeq
<1> HIDE DEF Range
<1>2. k \in Int /\ \A i \in 1 .. k : s[i] \in Range(s)
  BY <1>1, ElementOfSeq, LenProperties
<1>3. SubSeq(s, 1, k) \in Seq(Range(s))
  BY <1>1, <1>2, SubSeqProperties
<1>4. IsSeq(SubSeq(s, 1, k))
  BY Zenon, <1>3, SeqOver
<1>5. QED
  BY <1>2, <1>4, SubSeqProperties, LenProperties, <1>1

-----------------------------------------------------------------------------
(* Which types of messages are on a wire.                                  *)

Has(s, T) == \E i \in 1 .. Len(s) : s[i].type \in T
Single(s, T) == \A i, j \in 1 .. Len(s) : s[i].type \in T /\ s[j].type \in T => i = j
OnlyFirst(s, T) == \A i \in 1 .. Len(s) : s[i].type \in T => i = 1
Only(s, T) == \A i \in 1 .. Len(s) : s[i].type \in T
Starts(s, T) == s # << >> => s[1].type \in T

LEMMA EmptyWire ==
  ASSUME NEW T
  PROVE  /\ ~Has(<< >>, T) /\ Single(<< >>, T) /\ OnlyFirst(<< >>, T)
         /\ Only(<< >>, T) /\ Starts(<< >>, T)
BY Empty DEF Has, Single, OnlyFirst, Only, Starts

LEMMA NoneIsFew ==
  ASSUME NEW s, IsSeq(s), NEW T, ~Has(s, T)
  PROVE  Single(s, T) /\ OnlyFirst(s, T)
BY DEF Has, Single, OnlyFirst

\* What is appended to a wire.
LEMMA Sent ==
  ASSUME NEW s, IsSeq(s), NEW t, IsSeq(t), NEW T
  PROVE  /\ Has(s \o t, T) <=> Has(s, T) \/ Has(t, T)
         /\ ~Has(t, T) => (Single(s \o t, T) <=> Single(s, T))
         /\ ~Has(s, T) => (Single(s \o t, T) <=> Single(t, T))
         /\ ~Has(t, T) => (OnlyFirst(s \o t, T) <=> OnlyFirst(s, T))
         /\ Only(s, T) /\ Only(t, T) => Only(s \o t, T)
         /\ s # << >> => (Starts(s \o t, T) <=> Starts(s, T))
         /\ s \o t = << >> <=> s = << >> /\ t = << >>
<1> DEFINE u == s \o t
<1>1. /\ IsSeq(u) /\ Len(s) \in Nat /\ Len(t) \in Nat /\ Len(u) = Len(s) + Len(t)
      /\ \A i \in 1 .. Len(s) : u[i] = s[i]
      /\ \A i \in 1 .. Len(t) : u[Len(s) + i] = t[i]
  BY Joined, Indices
<1>2. /\ s = << >> <=> Len(s) = 0
      /\ t = << >> <=> Len(t) = 0
      /\ u = << >> <=> Len(u) = 0
  BY <1>1, Indices
<1> HIDE DEF u
<1>3. \A i \in 1 .. Len(u) : i \in 1 .. Len(s) \/ (i - Len(s) \in 1 .. Len(t) /\ u[i] = t[i - Len(s)])
  <2> TAKE i \in 1 .. Len(u)
  <2>1. CASE i <= Len(s)
    BY <1>1, <2>1
  <2>2. CASE ~(i <= Len(s))
    <3>1. i - Len(s) \in 1 .. Len(t) /\ Len(s) + (i - Len(s)) = i
      BY <1>1, <2>2
    <3>2. QED
      BY <1>1, <3>1
  <2>3. QED
    BY <2>1, <2>2
<1>4. \A i \in 1 .. Len(s) : i \in 1 .. Len(u) /\ u[i] = s[i]
  BY <1>1
<1>5. \A i \in 1 .. Len(t) : Len(s) + i \in 1 .. Len(u) /\ u[Len(s) + i] = t[i]
  BY <1>1
<1>6. Has(u, T) <=> Has(s, T) \/ Has(t, T)
  BY Zenon, <1>3, <1>4, <1>5 DEF Has
<1>7. ASSUME ~Has(t, T) PROVE (Single(u, T) <=> Single(s, T)) /\ (OnlyFirst(u, T) <=> OnlyFirst(s, T))
  <2>1. \A i \in 1 .. Len(u) : u[i].type \in T => i \in 1 .. Len(s) /\ u[i] = s[i]
    BY <1>3, <1>4, <1>7 DEF Has
  <2>2. QED
    BY <2>1, <1>4 DEF Single, OnlyFirst
<1>8. ASSUME ~Has(s, T) PROVE Single(u, T) <=> Single(t, T)
  <2>1. \A i \in 1 .. Len(u) : u[i].type \in T => i - Len(s) \in 1 .. Len(t) /\ u[i] = t[i - Len(s)]
    BY <1>3, <1>4, <1>8 DEF Has
  <2>2. ASSUME Single(t, T) PROVE Single(u, T)
    <3> SUFFICES ASSUME NEW i \in 1 .. Len(u), NEW j \in 1 .. Len(u),
                        u[i].type \in T, u[j].type \in T
                 PROVE  i = j
      BY DEF Single
    <3>1. i - Len(s) = j - Len(s)
      BY Zenon, <2>1, <2>2 DEF Single
    <3>2. QED
      BY <3>1, <1>1
  <2>3. ASSUME Single(u, T) PROVE Single(t, T)
    <3> SUFFICES ASSUME NEW i \in 1 .. Len(t), NEW j \in 1 .. Len(t),
                        t[i].type \in T, t[j].type \in T
                 PROVE  i = j
      BY DEF Single
    <3>1. Len(s) + i = Len(s) + j
      BY Zenon, <1>5, <2>3 DEF Single
    <3>2. QED
      BY <3>1, <1>1
  <2>4. QED
    BY <2>2, <2>3
<1>9. Only(s, T) /\ Only(t, T) => Only(u, T)
  BY <1>3, <1>4 DEF Only
<1>10. s # << >> => (Starts(u, T) <=> Starts(s, T))
  BY <1>1, <1>2 DEF Starts
<1>11. u = << >> <=> s = << >> /\ t = << >>
  BY <1>1, <1>2
<1>12. QED
  BY <1>6, <1>7, <1>8, <1>9, <1>10, <1>11 DEF u

LEMMA Message ==
  ASSUME NEW m, NEW T
  PROVE  /\ IsSeq(<<m>>) /\ <<m>> # << >>
         /\ Has(<<m>>, T) <=> m.type \in T
         /\ Single(<<m>>, T) /\ OnlyFirst(<<m>>, T)
         /\ Only(<<m>>, T) <=> m.type \in T
         /\ Starts(<<m>>, T) <=> m.type \in T
<1>1. IsSeq(<<m>>) /\ Len(<<m>>) = 1 /\ <<m>>[1] = m
  BY One
<1>2. <<m>> # << >>
  BY <1>1, Indices
<1>3. 1 .. Len(<<m>>) = {1}
  BY <1>1
<1>4. QED
  BY <1>1, <1>2, <1>3 DEF Has, Single, OnlyFirst, Only, Starts

\* The first message of a wire is read.
LEMMA Received ==
  ASSUME NEW s, IsSeq(s), s # << >>, NEW T
  PROVE  /\ Has(Tail(s), T) => Has(s, T)
         /\ Single(s, T) => Single(Tail(s), T)
         /\ Single(s, T) /\ Head(s).type \in T => ~Has(Tail(s), T)
         /\ Head(s).type \in T => Has(s, T)
         /\ OnlyFirst(s, T) => ~Has(Tail(s), T)
         /\ Only(s, T) => Only(Tail(s), T)
         /\ Starts(s, T) <=> Head(s).type \in T
         /\ Only(s, T) => Head(s).type \in T
<1>1. /\ Head(s) = s[1] /\ IsSeq(Tail(s)) /\ Len(Tail(s)) = Len(s) - 1
      /\ \A i \in 1 .. Len(s) - 1 : Tail(s)[i] = s[i + 1]
  BY Rest
<1>2. Len(s) \in Nat \ {0}
  BY Indices
<1>3. \A i \in 1 .. Len(Tail(s)) : i + 1 \in 1 .. Len(s) /\ i + 1 # 1 /\ Tail(s)[i] = s[i + 1]
  BY <1>1, <1>2
<1>4. 1 \in 1 .. Len(s)
  BY <1>2
<1>5. Single(s, T) => Single(Tail(s), T)
  <2> SUFFICES ASSUME Single(s, T), NEW i \in 1 .. Len(Tail(s)), NEW j \in 1 .. Len(Tail(s)),
                      Tail(s)[i].type \in T, Tail(s)[j].type \in T
               PROVE  i = j
    BY DEF Single
  <2>1. i + 1 = j + 1
    BY <1>3 DEF Single
  <2>2. QED
    BY <2>1, <1>1, <1>2
<1>6. QED
  BY <1>1, <1>3, <1>4, <1>5 DEF Has, Single, OnlyFirst, Only, Starts

\* A part of a wire is lost with the connection.
LEMMA Cut ==
  ASSUME NEW s, IsSeq(s), NEW k \in 0 .. Len(s), NEW T
  PROVE  LET u == Append(SubSeq(s, 1, k), Eof)
         IN  /\ IsSeq(u) /\ u # << >>
             /\ "eof" \notin T =>
                  /\ Has(u, T) => Has(s, T)
                  /\ Single(s, T) => Single(u, T)
                  /\ OnlyFirst(s, T) => OnlyFirst(u, T)
             /\ "eof" \in T =>
                  /\ Only(s, T) => Only(u, T)
                  /\ Starts(s, T) => Starts(u, T)
<1> DEFINE r == SubSeq(s, 1, k)
           u == Append(r, Eof)
<1>1. IsSeq(r) /\ Len(r) = k /\ \A i \in 1 .. k : r[i] = s[i]
  BY Beginning
<1>2. k \in Nat /\ Len(s) \in Nat /\ k <= Len(s)
  BY Indices
<1>3. /\ IsSeq(u) /\ Len(u) = k + 1
      /\ \A i \in 1 .. Len(u) : (i = k + 1 /\ u[i].type = "eof") \/ (i \in 1 .. Len(s) /\ u[i] = s[i])
  <2>1. /\ IsSeq(u) /\ Len(u) = k + 1
        /\ \A i \in 1 .. k : u[i] = r[i]
        /\ u[k + 1] = Eof
    BY <1>1, Appended
  <2>2. Eof.type = "eof"
    BY DEF Eof
  <2> HIDE DEF u, r
  <2>3. QED
    BY <1>1, <1>2, <2>1, <2>2
<1>4. s # << >> <=> Len(s) # 0
  BY Indices
<1> HIDE DEF u, r
<1>5. u # << >>
  BY <1>2, <1>3, Indices
<1>6. 1 \in 1 .. Len(u)
  BY <1>2, <1>3
<1>7. ASSUME "eof" \in T, Starts(s, T) PROVE Starts(u, T)
  BY <1>2, <1>3, <1>4, <1>6, <1>7 DEF Starts
<1>8. QED
  BY Zenon, <1>3, <1>5, <1>7 DEF u, r, Has, Single, OnlyFirst, Only

-----------------------------------------------------------------------------
(* The two ends of a link.                                                 *)

LEMMA Geometry ==
  ASSUME NEW e \in Ends
  PROVE  /\ NodeOf(e) \in Nodes /\ e[2] \in Links /\ e = <<e[1], e[2]>>
         /\ Peer(e) \in Ends /\ Peer(Peer(e)) = e /\ Peer(e) # e
         /\ NodeOf(Peer(e)) # NodeOf(e)
         /\ Dialler(Peer(e)) <=> ~Dialler(e)
<1>1. /\ e \in Nodes \X Links /\ (e[1] = e[2][1] \/ e[1] = e[2][2])
      /\ e[2] \in Links /\ e[2][1] # e[2][2] /\ e[2][1] \in Nodes /\ e[2][2] \in Nodes
  BY NetworkAssumption DEF Ends, IsNetwork
<1>2. e = <<e[1], e[2]>>
  BY <1>1
<1>3. Dialler(e) \in BOOLEAN
  BY DEF Dialler
<1>4. CASE Dialler(e)
  <2>1. Peer(e) = <<e[2][2], e[2]>> /\ e[1] = e[2][1]
    BY <1>4 DEF Peer, Dialler
  <2>2. QED
    BY <1>1, <1>2, <1>4, <2>1 DEF Peer, Dialler, Ends, NodeOf
<1>5. CASE ~Dialler(e)
  <2>1. Peer(e) = <<e[2][1], e[2]>> /\ e[1] = e[2][2]
    BY <1>1, <1>5 DEF Peer, Dialler
  <2>2. QED
    BY <1>1, <1>2, <1>5, <2>1 DEF Peer, Dialler, Ends, NodeOf
<1>6. QED
  BY <1>3, <1>4, <1>5

-----------------------------------------------------------------------------
(* What holds of one end of a link: d says whether it dialled, c and w are *)
(* its context and its wire, cp and wp those of the peer.                  *)

IsContext(c) ==
  /\ c = [phase |-> c.phase, m_state |-> c.m_state,
          m_needed_objects |-> c.m_needed_objects,
          m_requested_objects |-> c.m_requested_objects,
          m_remote_blockchain_height |-> c.m_remote_blockchain_height,
          m_last_response_height |-> c.m_last_response_height,
          task |-> c.task]
  /\ c.task = [kind |-> c.task.kind, blocks |-> c.task.blocks]
  /\ c.phase \in {"closed", "dialing", "open"}

\* The handshake is under way: the listener has sent nothing yet.
Fresh(c) == c.m_state = "befor_handshake" \/ c.task.kind = "ping"

Clear(c) == c.m_needed_objects = << >> /\ c.m_requested_objects = {}

\* The states of a context and the tasks of a handler that yielded.
ContextOK(c) ==
  /\ IsContext(c)
  /\ c.m_state \in {"befor_handshake", "sync_required", "pool_sync_required",
                   "synchronizing", "normal", "idle"}
  /\ \/ c.task = NoTask
     \/ c.task.kind = "ping" \/ c.task.kind = "import"
  /\ c.m_state \in {"sync_required", "pool_sync_required"} <=> c.task.kind = "ping"
  /\ c.task.kind = "import" => c.m_state = "synchronizing"
  /\ c.phase = "closed" => c = Closed
  /\ c.phase = "dialing" => c = [Closed EXCEPT !.phase = "dialing"]
  /\ c.phase = "open" /\ c.m_state = "befor_handshake" => c = [Closed EXCEPT !.phase = "open"]
  /\ c.m_state # "synchronizing" => Clear(c)

Requests == {"request_chain", "get_objects"}
Answers == {"chain_entry", "objects"}

\* The handshake goes first in either direction, and only once.
HandshakeOK(d, c, cp, w, wp) ==
  /\ c.phase = "closed" => wp = << >>
  /\ c.phase = "dialing" => /\ d
                            /\ Starts(wp, {"handshake_reply", "eof"})
                            /\ wp = << >> => Fresh(cp)
  /\ c.phase = "open" /\ Fresh(c) => /\ ~d /\ w = << >> /\ cp.phase # "open"
                                    /\ Only(wp, {"handshake", "eof"})
  /\ OnlyFirst(w, {"handshake"})
  /\ Has(w, {"handshake"}) => d /\ cp.phase = "open" /\ cp.m_state = "befor_handshake"
  /\ OnlyFirst(w, {"handshake_reply"})
  /\ Has(w, {"handshake_reply"}) => ~d /\ cp.phase = "dialing"

\* An end waits for one answer at most, and for none when it is not synchronizing.
OneRequestOK(c, w, wp) ==
  IF c.m_state = "synchronizing" /\ c.task = NoTask
  THEN /\ Single(w, Requests) /\ Single(wp, Answers)
       /\ ~(Has(w, Requests) /\ Has(wp, Answers))
  ELSE ~Has(w, Requests) /\ ~Has(wp, Answers)

EndOK(d, c, cp, w, wp) ==
  /\ ContextOK(c) /\ IsSeq(w)
  /\ HandshakeOK(d, c, cp, w, wp)
  /\ c.phase # "closed" => OneRequestOK(c, w, wp)

LinkInv ==
  /\ ctx = [e \in Ends |-> ctx[e]] /\ wire = [e \in Ends |-> wire[e]]
  /\ \A e \in Ends : EndOK(Dialler(e), ctx[e], ctx[Peer(e)], wire[e], wire[Peer(e)])

\* The contexts of a new connection.
LEMMA Opened ==
  /\ ContextOK(Closed) /\ Closed.phase = "closed"
  /\ Closed.m_state = "befor_handshake" /\ Closed.task = NoTask
  /\ \A p \in {"dialing", "open"} :
       LET c == [Closed EXCEPT !.phase = p]
       IN  /\ ContextOK(c) /\ c.phase = p
           /\ c.m_state = "befor_handshake" /\ c.task = NoTask
<1>1. ContextOK(Closed) /\ Closed.phase = "closed" /\ Closed.m_state = "befor_handshake" /\ Closed.task = NoTask
  BY DEF ContextOK, IsContext, Closed, NoTask, Clear
<1>2. ASSUME NEW p \in {"dialing", "open"}, NEW c, c = [Closed EXCEPT !.phase = p]
      PROVE  ContextOK(c) /\ c.phase = p /\ c.m_state = "befor_handshake" /\ c.task = NoTask
  <2>1. c = [phase |-> p, m_state |-> "befor_handshake",
             m_needed_objects |-> << >>, m_requested_objects |-> {},
             m_remote_blockchain_height |-> 0, m_last_response_height |-> 0,
             task |-> NoTask]
    BY Zenon, <1>2 DEF Closed
  <2>2. IsContext(c) /\ c.m_state = "befor_handshake" /\ c.task = NoTask /\ Clear(c) /\ c.phase = p
    BY <2>1 DEF IsContext, NoTask, Clear
  <2>3. NoTask.kind = "none"
    BY DEF NoTask
  <2>4. QED
    BY <1>2, <2>2, <2>3 DEF ContextOK
<1>3. QED
  BY <1>1, <1>2

\* Both ends of a link.
Pair(d, c, cp, w, wp) == EndOK(d, c, cp, w, wp) /\ EndOK(~d, cp, c, wp, w)

\* The messages that open and end a connection.
Opening == {"eof", "handshake", "handshake_reply"}

\* A handler has read a message in the middle of a connection and answered it.
LEMMA Served ==
  ASSUME NEW d \in BOOLEAN, NEW c, NEW cp, NEW w, NEW wp, Pair(d, c, cp, w, wp),
         c.phase = "open", ~Fresh(c), c.task = NoTask,
         wp # << >>, Head(wp).type \notin Opening,
         NEW c1, ContextOK(c1), c1.phase = "open", c1.task = NoTask,
         c1.m_state \in {"normal", "idle", "synchronizing"},
         NEW out, IsSeq(out), ~Has(out, {"handshake"}), ~Has(out, {"handshake_reply"}),
         Has(out, Answers) => Single(out, Answers) /\ Head(wp).type \in Requests,
         Has(out, Requests) => /\ Single(out, Requests)
                               /\ c1.m_state = "synchronizing"
                               /\ (c.m_state # "synchronizing" \/ Head(wp).type \in Answers),
         c1.m_state # "synchronizing" /\ c.m_state = "synchronizing"
           => Head(wp).type \in Answers
  PROVE  Pair(d, c1, cp, IF cp.phase = "closed" THEN << >> ELSE w \o out, Tail(wp))
<1>1. IsSeq(w) /\ IsSeq(wp) /\ IsSeq(Tail(wp)) /\ ContextOK(c) /\ ContextOK(cp)
  BY Rest DEF Pair, EndOK
<1>2. ~Fresh(c1)
  BY DEF Fresh, NoTask
<1>3. Requests \cap Answers = {}
  BY DEF Requests, Answers
<1>4. /\ HandshakeOK(d, c, cp, w, wp) /\ HandshakeOK(~d, cp, c, wp, w)
      /\ OneRequestOK(c, w, wp) /\ (cp.phase # "closed" => OneRequestOK(cp, wp, w))
  BY DEF Pair, EndOK
<1> DEFINE w1 == IF cp.phase = "closed" THEN << >> ELSE w \o out
<1>5. IsSeq(w1)
  BY <1>1, Joined, Empty
<1>6. ~Fresh(cp) \/ cp.phase # "open"
  BY <1>4 DEF HandshakeOK
<1>7. HandshakeOK(d, c1, cp, w1, Tail(wp))
  <2>1. OnlyFirst(w1, {"handshake"}) /\ OnlyFirst(w1, {"handshake_reply"})
    BY <1>1, <1>4, Sent, EmptyWire DEF HandshakeOK
  <2>2. /\ Has(w1, {"handshake"}) => Has(w, {"handshake"})
        /\ Has(w1, {"handshake_reply"}) => Has(w, {"handshake_reply"})
    BY <1>1, Sent, EmptyWire
  <2>3. QED
    BY <1>2, <1>4, <2>1, <2>2 DEF HandshakeOK
<1>8. HandshakeOK(~d, cp, c1, Tail(wp), w1)
  <2>1. OnlyFirst(Tail(wp), {"handshake"}) /\ OnlyFirst(Tail(wp), {"handshake_reply"})
    BY <1>1, <1>4, Received, NoneIsFew DEF HandshakeOK
  <2>2. ~Has(Tail(wp), {"handshake"}) /\ ~Has(Tail(wp), {"handshake_reply"})
    BY <1>1, <1>4, Received DEF HandshakeOK
  <2>3. cp.phase = "closed" => w1 = << >>
    OBVIOUS
  <2>4. ASSUME cp.phase = "dialing"
        PROVE  ~d /\ Starts(w1, {"handshake_reply", "eof"}) /\ w1 # << >>
    <3>1. w # << >> /\ ~d /\ Starts(w, {"handshake_reply", "eof"})
      BY <1>4, <2>4 DEF HandshakeOK
    <3>2. w1 = w \o out
      BY <2>4
    <3>3. QED
      BY <3>1, <3>2, <1>1, Sent
  <2> HIDE DEF w1
  <2>5. QED
    BY <1>6, <2>1, <2>2, <2>3, <2>4 DEF HandshakeOK
<1>9. OneRequestOK(c1, w1, Tail(wp))
  <2>1. ASSUME Head(wp).type \in Answers
        PROVE  ~Has(w, Requests) /\ ~Has(Tail(wp), Answers)
    <3>1. Has(wp, Answers)
      BY <1>1, <2>1, Received
    <3>2. Single(wp, Answers) /\ ~Has(w, Requests)
      BY <3>1, <1>4 DEF OneRequestOK
    <3>3. QED
      BY <1>1, <2>1, <3>2, Received
  <2>2. ASSUME Head(wp).type \notin Answers
        PROVE  OneRequestOK(c, w, Tail(wp))
    BY <1>1, <1>4, Received DEF OneRequestOK
  <2>3. CASE Has(out, Requests)
    <3>1. ~Has(w, Requests) /\ ~Has(Tail(wp), Answers)
      BY <2>1, <2>2, <2>3 DEF OneRequestOK
    <3>2. Single(w1, Requests) /\ Single(Tail(wp), Answers)
      BY <1>1, <2>3, <3>1, Sent, NoneIsFew, EmptyWire
    <3>3. QED
      BY <3>1, <3>2, <2>3 DEF OneRequestOK
  <2>4. CASE ~Has(out, Requests)
    <3>1. /\ Has(w1, Requests) => Has(w, Requests)
          /\ Single(w, Requests) => Single(w1, Requests)
      BY <1>1, <2>4, Sent, EmptyWire
    <3>2. CASE Head(wp).type \in Answers
      BY <1>1, <2>1, <3>1, <3>2, NoneIsFew DEF OneRequestOK
    <3>3. CASE Head(wp).type \notin Answers
      BY <1>1, <2>2, <3>1, <3>3, NoneIsFew DEF OneRequestOK
    <3>4. QED
      BY <3>2, <3>3
  <2>5. QED
    BY <2>3, <2>4
<1>10. ASSUME cp.phase # "closed" PROVE OneRequestOK(cp, Tail(wp), w1)
  <2>1. OneRequestOK(cp, wp, w) /\ w1 = w \o out
    BY <1>4, <1>10
  <2>2. CASE Has(out, Answers)
    <3>1. Head(wp).type \in Requests /\ Has(wp, Requests)
      BY <1>1, <2>2, Received
    <3>2. /\ cp.m_state = "synchronizing" /\ cp.task = NoTask
          /\ Single(wp, Requests) /\ ~Has(w, Answers)
      BY <2>1, <3>1 DEF OneRequestOK
    <3>3. ~Has(Tail(wp), Requests)
      BY <1>1, <3>1, <3>2, Received
    <3>4. Single(w1, Answers) /\ Single(Tail(wp), Requests)
      BY <1>1, <2>1, <2>2, <3>2, <3>3, Sent, NoneIsFew
    <3>5. QED
      BY <3>2, <3>3, <3>4 DEF OneRequestOK
  <2>3. CASE ~Has(out, Answers)
    <3>1. /\ Has(w1, Answers) <=> Has(w, Answers)
          /\ Single(w1, Answers) <=> Single(w, Answers)
      BY <1>1, <2>1, <2>3, Sent
    <3>2. /\ Has(Tail(wp), Requests) => Has(wp, Requests)
          /\ Single(wp, Requests) => Single(Tail(wp), Requests)
      BY <1>1, Received
    <3>3. QED
      BY <2>1, <3>1, <3>2 DEF OneRequestOK
  <2>4. QED
    BY <2>2, <2>3
<1>11. QED
  BY <1>1, <1>5, <1>7, <1>8, <1>9, <1>10 DEF Pair, EndOK

LEMMA Mirrored ==
  ASSUME NEW d \in BOOLEAN, NEW c, NEW cp, NEW w, NEW wp
  PROVE  Pair(d, c, cp, w, wp) <=> Pair(~d, cp, c, wp, w)
<1>1. ~~d = d
  OBVIOUS
<1>2. QED
  BY <1>1 DEF Pair

\* Relays and timed synchronisations are sent into a connection under way.
LEMMA Relayed ==
  ASSUME NEW d \in BOOLEAN, NEW c, NEW cp, NEW w, NEW wp, Pair(d, c, cp, w, wp),
         c.phase = "open", ~Fresh(c), cp.phase # "closed",
         NEW t, IsSeq(t), ~Has(t, {"handshake"}), ~Has(t, {"handshake_reply"}),
         ~Has(t, Requests), ~Has(t, Answers)
  PROVE  Pair(d, c, cp, w \o t, wp)
<1>1. IsSeq(w) /\ IsSeq(wp) /\ ContextOK(c) /\ ContextOK(cp) /\ IsSeq(w \o t)
  BY Joined DEF Pair, EndOK
<1>2. /\ HandshakeOK(d, c, cp, w, wp) /\ HandshakeOK(~d, cp, c, wp, w)
      /\ OneRequestOK(c, w, wp) /\ OneRequestOK(cp, wp, w)
  BY DEF Pair, EndOK
<1>3. HandshakeOK(d, c, cp, w \o t, wp)
  BY <1>1, <1>2, Sent DEF HandshakeOK
<1>4. HandshakeOK(~d, cp, c, wp, w \o t)
  BY <1>1, <1>2, Sent DEF HandshakeOK
<1>5. OneRequestOK(c, w \o t, wp) /\ OneRequestOK(cp, wp, w \o t)
  BY <1>1, <1>2, Sent DEF OneRequestOK
<1>6. QED
  BY <1>1, <1>3, <1>4, <1>5 DEF Pair, EndOK

\* The loop of an end is left.
LEMMA Left ==
  ASSUME NEW d \in BOOLEAN, NEW c, NEW cp, NEW w, NEW wp, Pair(d, c, cp, w, wp),
         c.phase # "closed", NEW k \in 0 .. Len(w)
  PROVE  Pair(d, Closed, cp, IF cp.phase = "closed" THEN << >>
                             ELSE Append(SubSeq(w, 1, k), Eof), << >>)
<1> DEFINE w1 == IF cp.phase = "closed" THEN << >> ELSE Append(SubSeq(w, 1, k), Eof)
<1>1. IsSeq(w) /\ IsSeq(wp) /\ ContextOK(c) /\ ContextOK(cp)
  BY DEF Pair, EndOK
<1>2. /\ HandshakeOK(d, c, cp, w, wp) /\ HandshakeOK(~d, cp, c, wp, w)
      /\ OneRequestOK(c, w, wp) /\ (cp.phase # "closed" => OneRequestOK(cp, wp, w))
  BY DEF Pair, EndOK
<1>3. ContextOK(Closed) /\ Closed.phase = "closed" /\ Fresh(Closed)
  BY DEF ContextOK, IsContext, Closed, NoTask, Clear, Fresh
<1>4. ASSUME NEW T, "eof" \notin T
      PROVE  /\ IsSeq(w1)
             /\ Has(w1, T) => Has(w, T)
             /\ Single(w, T) => Single(w1, T)
             /\ OnlyFirst(w, T) => OnlyFirst(w1, T)
  BY <1>1, <1>4, Cut, EmptyWire, Empty
<1>5. ASSUME NEW T, "eof" \in T
      PROVE  /\ Only(w, T) => Only(w1, T)
             /\ Starts(w, T) => Starts(w1, T)
  BY <1>1, <1>5, Cut, EmptyWire
<1>6. cp.phase # "closed" => w1 # << >>
  BY Zenon, <1>1, Cut
<1>7. cp.phase = "closed" => w1 = << >>
  OBVIOUS
<1>8. "eof" \notin Requests \cup Answers
  BY DEF Requests, Answers
<1>9. IsSeq(w1) /\ IsSeq(<< >>)
  BY <1>4, <1>8, Empty
<1> HIDE DEF w1
<1>10. HandshakeOK(d, Closed, cp, w1, << >>)
  BY <1>2, <1>3, <1>4 DEF HandshakeOK
<1>11. HandshakeOK(~d, cp, Closed, << >>, w1)
  BY <1>2, <1>3, <1>5, <1>6, <1>7, EmptyWire DEF HandshakeOK
<1>12. ASSUME cp.phase # "closed" PROVE OneRequestOK(cp, << >>, w1)
  BY <1>2, <1>4, <1>8, <1>12, EmptyWire DEF OneRequestOK
<1>13. QED
  BY <1>1, <1>3, <1>9, <1>10, <1>11, <1>12 DEF Pair, EndOK, w1

\* A connection is opened.
LEMMA Dialled ==
  ASSUME NEW m, m.type = "handshake"
  PROVE  Pair(TRUE, [Closed EXCEPT !.phase = "dialing"], [Closed EXCEPT !.phase = "open"],
              <<m>>, << >>)
<1> DEFINE c == [Closed EXCEPT !.phase = "dialing"]
           cp == [Closed EXCEPT !.phase = "open"]
<1>1. /\ ContextOK(c) /\ c.phase = "dialing" /\ c.m_state = "befor_handshake" /\ c.task = NoTask
      /\ ContextOK(cp) /\ cp.phase = "open" /\ cp.m_state = "befor_handshake" /\ cp.task = NoTask
  BY Opened
<1>2. /\ IsSeq(<<m>>) /\ <<m>> # << >> /\ Only(<<m>>, {"handshake", "eof"})
      /\ OnlyFirst(<<m>>, {"handshake"}) /\ ~Has(<<m>>, {"handshake_reply"})
      /\ OnlyFirst(<<m>>, {"handshake_reply"})
      /\ ~Has(<<m>>, Requests) /\ ~Has(<<m>>, Answers) /\ IsSeq(<< >>)
  BY Message, Empty DEF Requests, Answers
<1> HIDE DEF c, cp
<1>3. HandshakeOK(TRUE, c, cp, <<m>>, << >>) /\ HandshakeOK(FALSE, cp, c, << >>, <<m>>)
  BY <1>1, <1>2, EmptyWire DEF HandshakeOK, Fresh
<1>4. OneRequestOK(c, <<m>>, << >>) /\ OneRequestOK(cp, << >>, <<m>>)
  BY <1>1, <1>2, EmptyWire DEF OneRequestOK
<1>5. Pair(TRUE, c, cp, <<m>>, << >>)
  BY Zenon, <1>1, <1>2, <1>3, <1>4 DEF Pair, EndOK
<1>6. QED
  BY Zenon, <1>5 DEF c, cp

\* The listener takes the handshake up and yields.
LEMMA HandshakeTaken ==
  ASSUME NEW d \in BOOLEAN, NEW c, NEW cp, NEW w, NEW wp, Pair(d, c, cp, w, wp),
         c.phase # "closed", wp # << >>, Head(wp).type = "handshake",
         NEW c1, ContextOK(c1), c1.phase = "open", c1.task.kind = "ping"
  PROVE  /\ c.phase = "open" /\ c.m_state = "befor_handshake"
         /\ Pair(d, c1, cp, w, Tail(wp))
<1>1. IsSeq(w) /\ IsSeq(wp) /\ IsSeq(Tail(wp)) /\ ContextOK(c) /\ ContextOK(cp)
  BY Rest DEF Pair, EndOK
<1>2. /\ HandshakeOK(d, c, cp, w, wp) /\ HandshakeOK(~d, cp, c, wp, w)
      /\ OneRequestOK(c, w, wp) /\ (cp.phase # "closed" => OneRequestOK(cp, wp, w))
  BY DEF Pair, EndOK
<1>3. c.phase = "open" /\ c.m_state = "befor_handshake"
  BY <1>1, <1>2, Received DEF HandshakeOK
<1>4. Fresh(c) /\ Fresh(c1)
  BY <1>3 DEF Fresh
<1>5. ~Has(Tail(wp), {"handshake"}) /\ ~Has(Tail(wp), {"handshake_reply"})
  BY <1>1, <1>2, Received DEF HandshakeOK
<1>6. OnlyFirst(Tail(wp), {"handshake"}) /\ OnlyFirst(Tail(wp), {"handshake_reply"})
  BY <1>1, <1>5, NoneIsFew
<1>7. HandshakeOK(d, c1, cp, w, Tail(wp))
  <2>1. Only(Tail(wp), {"handshake", "eof"})
    BY <1>1, <1>2, <1>3, <1>4, Received DEF HandshakeOK
  <2>2. w = << >> /\ ~d /\ cp.phase # "open"
    BY <1>2, <1>3, <1>4 DEF HandshakeOK
  <2>3. QED
    BY <2>1, <2>2, EmptyWire DEF HandshakeOK
<1>8. HandshakeOK(~d, cp, c1, Tail(wp), w)
  BY <1>2, <1>3, <1>4, <1>5, <1>6 DEF HandshakeOK
<1>9. c.m_state # "synchronizing" /\ c1.task # NoTask
  BY <1>3 DEF NoTask
<1>10. OneRequestOK(c1, w, Tail(wp))
  BY <1>1, <1>2, <1>9, Received DEF OneRequestOK
<1>11. ASSUME cp.phase # "closed" PROVE OneRequestOK(cp, Tail(wp), w)
  BY <1>1, <1>2, <1>11, Received DEF OneRequestOK
<1>12. QED
  BY <1>1, <1>3, <1>7, <1>8, <1>10, <1>11 DEF Pair, EndOK

\* The listener answers the handshake.
LEMMA HandshakeAnswered ==
  ASSUME NEW d \in BOOLEAN, NEW c, NEW cp, NEW w, NEW wp, Pair(d, c, cp, w, wp),
         c.task.kind = "ping",
         NEW c1, ContextOK(c1), c1.phase = "open", c1.task = NoTask,
         c1.m_state \in {"normal", "synchronizing"},
         NEW m, m.type = "handshake_reply",
         NEW out, IsSeq(out), ~Has(out, {"handshake"}), ~Has(out, {"handshake_reply"}),
         ~Has(out, Answers), Single(out, Requests),
         Has(out, Requests) => c1.m_state = "synchronizing"
  PROVE  Pair(d, c1, cp, IF cp.phase = "closed" THEN << >> ELSE w \o (<<m>> \o out), wp)
<1>1. IsSeq(w) /\ IsSeq(wp) /\ ContextOK(c) /\ ContextOK(cp)
  BY DEF Pair, EndOK
<1>2. /\ HandshakeOK(d, c, cp, w, wp) /\ HandshakeOK(~d, cp, c, wp, w)
      /\ (c.phase # "closed" => OneRequestOK(c, w, wp))
      /\ (cp.phase # "closed" => OneRequestOK(cp, wp, w))
  BY DEF Pair, EndOK
<1>3. c.phase = "open" /\ Fresh(c) /\ ~Fresh(c1)
  <2>1. NoTask.kind = "none"
    BY DEF NoTask
  <2>2. c.phase # "closed" /\ c.phase # "dialing"
    BY Zenon, <1>1, <2>1, Opened DEF ContextOK
  <2>3. QED
    BY <1>1, <2>1, <2>2 DEF ContextOK, IsContext, Fresh
<1>4. /\ w = << >> /\ ~d /\ cp.phase # "open" /\ Only(wp, {"handshake", "eof"})
  BY <1>2, <1>3 DEF HandshakeOK
<1> DEFINE w1 == IF cp.phase = "closed" THEN << >> ELSE w \o (<<m>> \o out)
<1>5. cp.phase # "closed" => w1 = <<m>> \o out
  <2>1. w \o <<m>> = <<m>>
    <3>1. <<m>> \in Seq({m}) /\ w = << >>
      BY <1>4
    <3>2. QED
      BY <3>1, ConcatEmptySeq
  <2>2. QED
    BY <2>1
<1>6. /\ IsSeq(<<m>>) /\ <<m>> # << >> /\ Starts(<<m>>, {"handshake_reply", "eof"})
      /\ OnlyFirst(<<m>>, {"handshake_reply"}) /\ ~Has(<<m>>, {"handshake"})
      /\ ~Has(<<m>>, Requests) /\ ~Has(<<m>>, Answers)
  BY Message DEF Requests, Answers
<1>7. cp.phase = "closed" => w1 = << >>
  OBVIOUS
<1> HIDE DEF w1
<1>8. IsSeq(w1) /\ ~Has(w1, {"handshake"}) /\ OnlyFirst(w1, {"handshake"}) /\ OnlyFirst(w1, {"handshake_reply"})
  <2>1. CASE cp.phase = "closed"
    BY <1>7, <2>1, EmptyWire, Empty
  <2>2. CASE cp.phase # "closed"
    <3>1. w1 = <<m>> \o out
      BY <1>5, <2>2
    <3>2. IsSeq(w1) /\ ~Has(w1, {"handshake"}) /\ OnlyFirst(w1, {"handshake_reply"})
      BY <1>6, <3>1, Sent, Joined
    <3>3. QED
      BY <3>2, NoneIsFew
  <2>3. QED
    BY <2>1, <2>2
<1>9. Single(w1, Requests) /\ ~Has(w1, Answers) /\ (Has(w1, Requests) => Has(out, Requests))
  <2>1. CASE cp.phase = "closed"
    BY <1>7, <2>1, EmptyWire
  <2>2. CASE cp.phase # "closed"
    <3>1. w1 = <<m>> \o out
      BY <1>5, <2>2
    <3>2. QED
      BY <1>6, <3>1, Sent
  <2>3. QED
    BY <2>1, <2>2
<1>10. cp.phase # "closed" => w1 # << >> /\ Starts(w1, {"handshake_reply", "eof"})
  <2> SUFFICES ASSUME cp.phase # "closed"
               PROVE  w1 # << >> /\ Starts(w1, {"handshake_reply", "eof"})
    OBVIOUS
  <2>1. w1 = <<m>> \o out
    BY <1>5
  <2>2. QED
    BY Zenon, <1>6, <2>1, Sent
<1>11. Has(w1, {"handshake_reply"}) => cp.phase = "dialing"
  BY <1>1, <1>4, <1>7, EmptyWire DEF ContextOK, IsContext
<1>12. HandshakeOK(d, c1, cp, w1, wp)
  BY <1>2, <1>3, <1>4, <1>8, <1>11 DEF HandshakeOK
<1>13. ~Has(wp, {"handshake"}) /\ ~Has(wp, {"handshake_reply"})
  <2>1. c.m_state # "befor_handshake"
    BY <1>1 DEF ContextOK
  <2>2. QED
    BY <1>2, <1>3, <2>1 DEF HandshakeOK
<1>14. HandshakeOK(~d, cp, c1, wp, w1)
  BY <1>2, <1>3, <1>4, <1>7, <1>10, <1>13 DEF HandshakeOK
<1>15. ~Has(wp, Answers) /\ Single(wp, Answers)
  <2>1. ~(Only(wp, {"handshake", "eof"}) /\ Has(wp, Answers))
    BY DEF Only, Has, Answers
  <2>2. QED
    BY <1>1, <1>4, <2>1, NoneIsFew
<1>16. OneRequestOK(c1, w1, wp)
  BY SMTT(30), <1>9, <1>15 DEF OneRequestOK
<1>17. ASSUME cp.phase # "closed" PROVE OneRequestOK(cp, wp, w1)
  BY <1>1, <1>2, <1>8, <1>9, <1>17, NoneIsFew DEF OneRequestOK
<1>18. QED
  BY <1>1, <1>8, <1>12, <1>14, <1>16, <1>17 DEF Pair, EndOK, w1

\* The dialler reads the reply: its connection is registered.
LEMMA HandshakeReturned ==
  ASSUME NEW d \in BOOLEAN, NEW c, NEW cp, NEW w, NEW wp, Pair(d, c, cp, w, wp),
         c.phase # "closed", wp # << >>, Head(wp).type = "handshake_reply",
         NEW c1, ContextOK(c1), c1.phase = "open", c1.task = NoTask,
         c1.m_state \in {"normal", "synchronizing"},
         NEW out, IsSeq(out), ~Has(out, {"handshake"}), ~Has(out, {"handshake_reply"}),
         ~Has(out, Answers), Single(out, Requests),
         Has(out, Requests) => c1.m_state = "synchronizing"
  PROVE  /\ c.phase = "dialing"
         /\ Pair(d, c1, cp, IF cp.phase = "closed" THEN << >> ELSE w \o out, Tail(wp))
<1>1. IsSeq(w) /\ IsSeq(wp) /\ IsSeq(Tail(wp)) /\ ContextOK(c) /\ ContextOK(cp)
  BY Rest DEF Pair, EndOK
<1>2. /\ HandshakeOK(d, c, cp, w, wp) /\ HandshakeOK(~d, cp, c, wp, w)
      /\ OneRequestOK(c, w, wp) /\ (cp.phase # "closed" => OneRequestOK(cp, wp, w))
  BY DEF Pair, EndOK
<1>3. Has(wp, {"handshake_reply"}) /\ c.phase = "dialing" /\ d
  BY Zenon, <1>1, <1>2, Received DEF HandshakeOK
<1>4. c.m_state = "befor_handshake" /\ ~Fresh(c1)
  <2>1. NoTask.kind = "none"
    BY DEF NoTask
  <2>2. QED
    BY Zenon, <1>1, <1>3, <2>1, Opened DEF ContextOK, Fresh
<1> DEFINE w1 == IF cp.phase = "closed" THEN << >> ELSE w \o out
<1>5. /\ IsSeq(w1) /\ (Has(w1, {"handshake"}) => Has(w, {"handshake"}))
      /\ (Has(w1, {"handshake_reply"}) => Has(w, {"handshake_reply"}))
  BY Zenon, <1>1, Sent, Joined, EmptyWire, Empty
<1>6. ~Has(w1, {"handshake"}) /\ ~Has(w1, {"handshake_reply"})
  <2>1. ~Has(w, {"handshake"})
    <3>1. ~(cp.phase = "open" /\ Fresh(cp))
      BY <1>2 DEF HandshakeOK
    <3>2. QED
      BY Zenon, <1>2, <3>1 DEF HandshakeOK, Fresh
  <2>2. QED
    BY Zenon, <1>2, <1>3, <1>5, <2>1 DEF HandshakeOK
<1>7. OnlyFirst(w1, {"handshake"}) /\ OnlyFirst(w1, {"handshake_reply"})
  BY <1>5, <1>6, NoneIsFew
<1>8. ~Has(w, Requests) /\ ~Has(wp, Answers) /\ ~Has(Tail(wp), Answers) /\ Single(Tail(wp), Answers)
  BY Zenon, <1>1, <1>2, <1>4, Received, NoneIsFew DEF OneRequestOK
<1>9. Single(w1, Requests) /\ (Has(w1, Requests) => Has(out, Requests))
  BY <1>1, <1>8, Sent, EmptyWire
<1>10. /\ (Has(w1, Answers) => Has(w, Answers))
       /\ (Single(w, Answers) => Single(w1, Answers))
  BY <1>1, Sent, EmptyWire
<1>11. cp.phase = "closed" => w1 = << >>
  OBVIOUS
<1> HIDE DEF w1
<1>12. HandshakeOK(d, c1, cp, w1, Tail(wp))
  BY <1>4, <1>6, <1>7 DEF HandshakeOK
<1>13. ~Has(Tail(wp), {"handshake"}) /\ ~Has(Tail(wp), {"handshake_reply"})
  BY Zenon, <1>1, <1>2, <1>3, Received DEF HandshakeOK
<1>14. OnlyFirst(Tail(wp), {"handshake"}) /\ OnlyFirst(Tail(wp), {"handshake_reply"})
  BY <1>1, <1>13, NoneIsFew
<1>15. cp.phase # "dialing" /\ ~(cp.phase = "open" /\ Fresh(cp))
  BY <1>2, <1>3 DEF HandshakeOK
<1>16. HandshakeOK(~d, cp, c1, Tail(wp), w1)
  BY <1>11, <1>13, <1>14, <1>15 DEF HandshakeOK
<1>17. OneRequestOK(c1, w1, Tail(wp))
  BY <1>8, <1>9 DEF OneRequestOK
<1>18. ASSUME cp.phase # "closed" PROVE OneRequestOK(cp, Tail(wp), w1)
  <2>1. /\ (Has(Tail(wp), Requests) => Has(wp, Requests))
        /\ (Single(wp, Requests) => Single(Tail(wp), Requests))
    BY Zenon, <1>1, Received
  <2>2. QED
    BY <1>2, <1>10, <1>18, <2>1 DEF OneRequestOK
<1>19. QED
  BY Zenon, <1>1, <1>3, <1>5, <1>12, <1>16, <1>17, <1>18 DEF Pair, EndOK, w1

\* Delivered blocks are imported: the handler yields after each of them.
LEMMA ImportStarts ==
  ASSUME NEW d \in BOOLEAN, NEW c, NEW cp, NEW w, NEW wp, Pair(d, c, cp, w, wp),
         c.phase = "open", ~Fresh(c), wp # << >>, Head(wp).type \in Answers,
         NEW c1, ContextOK(c1), c1.phase = "open", c1.task.kind = "import"
  PROVE  Pair(d, c1, cp, w, Tail(wp))
<1>1. IsSeq(w) /\ IsSeq(wp) /\ IsSeq(Tail(wp)) /\ ContextOK(c) /\ ContextOK(cp)
  BY Rest DEF Pair, EndOK
<1>2. /\ HandshakeOK(d, c, cp, w, wp) /\ HandshakeOK(~d, cp, c, wp, w)
      /\ OneRequestOK(c, w, wp) /\ (cp.phase # "closed" => OneRequestOK(cp, wp, w))
  BY DEF Pair, EndOK
<1>3. ~Fresh(c1) /\ c1.task # NoTask
  BY DEF ContextOK, Fresh, NoTask
<1>4. HandshakeOK(d, c1, cp, w, Tail(wp))
  BY <1>2, <1>3 DEF HandshakeOK
<1>5. ~Has(Tail(wp), {"handshake"}) /\ ~Has(Tail(wp), {"handshake_reply"})
  BY <1>1, <1>2, Received DEF HandshakeOK
<1>6. OnlyFirst(Tail(wp), {"handshake"}) /\ OnlyFirst(Tail(wp), {"handshake_reply"})
  BY <1>1, <1>5, NoneIsFew
<1>7. HandshakeOK(~d, cp, c1, Tail(wp), w)
  BY <1>2, <1>3, <1>5, <1>6 DEF HandshakeOK
<1>8. Has(wp, Answers)
  BY Zenon, <1>1, Received
<1>9. ~Has(w, Requests) /\ Single(wp, Answers)
  BY <1>2, <1>8 DEF OneRequestOK
<1>10. OneRequestOK(c1, w, Tail(wp))
  BY <1>1, <1>3, <1>9, Received DEF OneRequestOK
<1>11. ASSUME cp.phase # "closed" PROVE OneRequestOK(cp, Tail(wp), w)
  BY <1>1, <1>2, <1>11, Received DEF OneRequestOK
<1>12. QED
  BY <1>1, <1>4, <1>7, <1>10, <1>11 DEF Pair, EndOK

LEMMA ImportGoesOn ==
  ASSUME NEW d \in BOOLEAN, NEW c, NEW cp, NEW w, NEW wp, Pair(d, c, cp, w, wp),
         c.phase = "open", c.task.kind = "import",
         NEW c1, ContextOK(c1), c1.phase = "open", c1.task.kind = "import"
  PROVE  Pair(d, c1, cp, w, wp)
<1>1. ~Fresh(c) /\ ~Fresh(c1) /\ c.task # NoTask /\ c1.task # NoTask
  BY DEF Pair, EndOK, ContextOK, Fresh, NoTask
<1>2. /\ IsSeq(w) /\ IsSeq(wp) /\ ContextOK(cp)
      /\ HandshakeOK(d, c, cp, w, wp) /\ HandshakeOK(~d, cp, c, wp, w)
      /\ OneRequestOK(c, w, wp) /\ (cp.phase # "closed" => OneRequestOK(cp, wp, w))
  BY DEF Pair, EndOK
<1>3. HandshakeOK(d, c1, cp, w, wp)
  BY <1>1, <1>2 DEF HandshakeOK
<1>4. HandshakeOK(~d, cp, c1, wp, w)
  <2>1. ~Has(wp, {"handshake"})
    BY Zenon, <1>1, <1>2 DEF HandshakeOK, Fresh
  <2>2. QED
    BY <1>1, <1>2, <2>1 DEF HandshakeOK
<1>5. OneRequestOK(c1, w, wp)
  BY Zenon, <1>1, <1>2 DEF OneRequestOK
<1>6. QED
  BY <1>2, <1>3, <1>4, <1>5 DEF Pair, EndOK

LEMMA ImportEnds ==
  ASSUME NEW d \in BOOLEAN, NEW c, NEW cp, NEW w, NEW wp, Pair(d, c, cp, w, wp),
         c.phase = "open", c.task.kind = "import",
         NEW c1, ContextOK(c1), c1.phase = "open", c1.task = NoTask,
         c1.m_state \in {"normal", "idle", "synchronizing"},
         NEW out, IsSeq(out), ~Has(out, {"handshake"}), ~Has(out, {"handshake_reply"}),
         ~Has(out, Answers), Single(out, Requests),
         Has(out, Requests) => c1.m_state = "synchronizing"
  PROVE  Pair(d, c1, cp, IF cp.phase = "closed" THEN << >> ELSE w \o out, wp)
<1>1. IsSeq(w) /\ IsSeq(wp) /\ ContextOK(c) /\ ContextOK(cp)
  BY DEF Pair, EndOK
<1>2. /\ HandshakeOK(d, c, cp, w, wp) /\ HandshakeOK(~d, cp, c, wp, w)
      /\ OneRequestOK(c, w, wp) /\ (cp.phase # "closed" => OneRequestOK(cp, wp, w))
  BY Zenon DEF Pair, EndOK
<1>3. ~Fresh(c) /\ ~Fresh(c1) /\ c.task # NoTask
  BY <1>1 DEF ContextOK, Fresh, NoTask
<1> DEFINE w1 == IF cp.phase = "closed" THEN << >> ELSE w \o out
<1>4. ASSUME NEW T, ~Has(out, T)
      PROVE  /\ (Has(w1, T) => Has(w, T))
             /\ (Single(w, T) => Single(w1, T))
             /\ (OnlyFirst(w, T) => OnlyFirst(w1, T))
  BY <1>1, <1>4, Sent, EmptyWire
<1>5. ASSUME NEW T, w # << >>, cp.phase # "closed"
      PROVE  w1 # << >> /\ (Starts(w, T) => Starts(w1, T))
  BY SMTT(30), <1>1, <1>5, Sent
<1>6. IsSeq(w1)
  BY <1>1, Joined, Empty
<1>7. cp.phase = "closed" => w1 = << >>
  OBVIOUS
<1>8. ~Has(w, Requests) /\ ~Has(wp, Answers) /\ Single(wp, Answers)
  BY Zenon, <1>1, <1>2, <1>3, NoneIsFew DEF OneRequestOK
<1>9. Single(w1, Requests) /\ (Has(w1, Requests) => Has(out, Requests))
  BY <1>1, <1>8, Sent, EmptyWire
<1> HIDE DEF w1
<1>10. HandshakeOK(d, c1, cp, w1, wp)
  BY <1>2, <1>3, <1>4 DEF HandshakeOK
<1>11. HandshakeOK(~d, cp, c1, wp, w1)
  <2>1. ~(cp.phase = "open" /\ Fresh(cp))
    BY Zenon, <1>2 DEF HandshakeOK
  <2>2. cp.phase = "dialing" => w # << >> /\ Starts(w, {"handshake_reply", "eof"})
    BY <1>2, <1>3 DEF HandshakeOK
  <2>3. cp.phase = "dialing" => w1 # << >> /\ Starts(w1, {"handshake_reply", "eof"})
    BY <1>5, <2>2
  <2>4. ~Has(wp, {"handshake"})
    BY Zenon, <1>2, <1>3 DEF HandshakeOK, Fresh
  <2>5. QED
    BY Zenon, <1>2, <1>3, <1>7, <2>1, <2>3, <2>4 DEF HandshakeOK
<1>12. OneRequestOK(c1, w1, wp)
  BY Zenon, <1>8, <1>9 DEF OneRequestOK
<1>13. ASSUME cp.phase # "closed" PROVE OneRequestOK(cp, wp, w1)
  BY Zenon, <1>2, <1>4, <1>13 DEF OneRequestOK
<1>14. QED
  BY <1>1, <1>6, <1>10, <1>11, <1>12, <1>13 DEF Pair, EndOK, w1

-----------------------------------------------------------------------------
(* From one link to the network.                                           *)

LEMMA Regrouped ==
  ASSUME NEW s, IsSeq(s), NEW t, IsSeq(t), NEW u, IsSeq(u)
  PROVE  s \o t \o u = s \o (t \o u) /\ s \o << >> = s /\ << >> \o s = s
<1> DEFINE S == Range(s) \cup Range(t) \cup Range(u)
<1>1. s \in Seq(S) /\ t \in Seq(S) /\ u \in Seq(S)
  BY SeqMonotonic DEF IsSeq
<1> HIDE DEF S
<1>2. QED
  BY <1>1, ConcatAssociative, ConcatSimplifications

LEMMA SentOne ==
  ASSUME NEW s, IsSeq(s), NEW m
  PROVE  Append(s, m) = s \o <<m>>
<1> DEFINE S == Range(s) \cup {m}
<1>1. s \in Seq(S) /\ m \in S
  BY SeqMonotonic DEF IsSeq
<1> HIDE DEF S
<1>2. QED
  BY <1>1, AppendIsConcat

\* What relay_notify_to_all and timedSyncLoop send.
Aside(t) ==
  /\ IsSeq(t) /\ ~Has(t, {"handshake"}) /\ ~Has(t, {"handshake_reply"})
  /\ ~Has(t, Requests) /\ ~Has(t, Answers)

LEMMA AsideMessage ==
  /\ Aside(<< >>)
  /\ \A m : m.type \in {"new_block", "new_transactions", "request_tx_pool",
                       "timed_sync", "timed_sync_reply"} => Aside(<<m>>)
BY EmptyWire, Empty, Message DEF Aside, Requests, Answers

\* How a wire that is not the handler's own may change.
Elsewhere(c, cp, w, w1, t) ==
  \/ w1 = w
  \/ cp.phase = "closed" /\ w1 = << >>
  \/ c.phase = "open" /\ ~Fresh(c) /\ cp.phase # "closed" /\ w1 = w \o t

LEMMA OneSide ==
  ASSUME NEW d \in BOOLEAN, NEW c, NEW cp, NEW w, NEW wp, Pair(d, c, cp, w, wp),
         NEW w1, NEW t, Aside(t), Elsewhere(c, cp, w, w1, t)
  PROVE  Pair(d, c, cp, w1, wp)
<1>1. CASE cp.phase = "closed" /\ w1 = << >>
  <2>1. w = << >>
    BY <1>1 DEF Pair, EndOK, HandshakeOK
  <2>2. QED
    BY <1>1, <2>1
<1>2. CASE c.phase = "open" /\ ~Fresh(c) /\ cp.phase # "closed" /\ w1 = w \o t
  BY <1>2, Relayed DEF Aside
<1>3. QED
  BY <1>1, <1>2 DEF Elsewhere

\* The link of an end.
LEMMA PairAt ==
  ASSUME LinkInv, NEW e \in Ends
  PROVE  /\ Pair(Dialler(e), ctx[e], ctx[Peer(e)], wire[e], wire[Peer(e)])
         /\ Dialler(e) \in BOOLEAN /\ Peer(e) \in Ends /\ Peer(e) # e
         /\ ContextOK(ctx[e]) /\ IsSeq(wire[e]) /\ IsSeq(wire[Peer(e)])
<1>1. /\ Peer(e) \in Ends /\ Peer(e) # e /\ Peer(Peer(e)) = e
      /\ (Dialler(Peer(e)) <=> ~Dialler(e))
  BY Geometry
<1>2. Dialler(e) \in BOOLEAN /\ Dialler(Peer(e)) \in BOOLEAN
  BY DEF Dialler
<1>3. Dialler(Peer(e)) = ~Dialler(e)
  BY <1>1, <1>2
<1>4. QED
  BY <1>1, <1>2, <1>3 DEF LinkInv, Pair, EndOK

\* The wires of a connection the handler does not serve.
LEMMA Aloof ==
  ASSUME LinkInv, NEW t, Aside(t), NEW g \in Ends,
         Elsewhere(ctx[g], ctx[Peer(g)], wire[g], wire'[g], t),
         Elsewhere(ctx[Peer(g)], ctx[g], wire[Peer(g)], wire'[Peer(g)], t)
  PROVE  Pair(Dialler(g), ctx[g], ctx[Peer(g)], wire'[g], wire'[Peer(g)])
<1>1. Peer(g) \in Ends /\ Peer(Peer(g)) = g /\ (Dialler(Peer(g)) <=> ~Dialler(g))
  BY Geometry
<1>2. Dialler(g) \in BOOLEAN /\ Dialler(Peer(g)) \in BOOLEAN
  BY DEF Dialler
<1>3. Dialler(Peer(g)) = ~Dialler(g)
  BY <1>1, <1>2
<1>4. Pair(Dialler(g), ctx[g], ctx[Peer(g)], wire[g], wire[Peer(g)])
  BY <1>1, <1>3 DEF LinkInv, Pair
<1>5. Pair(Dialler(g), ctx[g], ctx[Peer(g)], wire'[g], wire[Peer(g)])
  BY <1>2, <1>4, OneSide
<1>6. Pair(~Dialler(g), ctx[Peer(g)], ctx[g], wire[Peer(g)], wire'[g])
  BY <1>2, <1>5, Mirrored
<1>7. Pair(~Dialler(g), ctx[Peer(g)], ctx[g], wire'[Peer(g)], wire'[g])
  BY Zenon, <1>2, <1>6, OneSide
<1>8. QED
  BY <1>2, <1>7, Mirrored

\* A step of one end.
LEMMA OneEnd ==
  ASSUME LinkInv, NEW e \in Ends, NEW c1, NEW t, Aside(t),
         ctx' = [ctx EXCEPT ![e] = c1], wire' = [f \in Ends |-> wire'[f]],
         Pair(Dialler(e), c1, ctx[Peer(e)], wire'[e], wire'[Peer(e)]),
         \A f \in Ends \ {e, Peer(e)} :
           Elsewhere(ctx[f], ctx[Peer(f)], wire[f], wire'[f], t)
  PROVE  LinkInv'
<1>1. ctx' = [f \in Ends |-> ctx'[f]] /\ ctx'[e] = c1 /\ \A f \in Ends \ {e} : ctx'[f] = ctx[f]
  BY DEF LinkInv
<1>2. ASSUME NEW g \in Ends
      PROVE  EndOK(Dialler(g), ctx'[g], ctx'[Peer(g)], wire'[g], wire'[Peer(g)])
  <2>1. /\ Peer(g) \in Ends /\ Peer(Peer(g)) = g /\ (Dialler(Peer(g)) <=> ~Dialler(g))
        /\ Peer(e) \in Ends /\ Peer(e) # e /\ Peer(Peer(e)) = e /\ Peer(g) # g
        /\ (Dialler(Peer(e)) <=> ~Dialler(e))
    BY Geometry
  <2>2. Dialler(e) \in BOOLEAN /\ Dialler(Peer(e)) \in BOOLEAN
    BY DEF Dialler
  <2>3. CASE g = e
    BY <1>1, <2>1, <2>3 DEF Pair
  <2>4. CASE g = Peer(e)
    <3>1. Dialler(g) = ~Dialler(e)
      BY <2>1, <2>2, <2>4
    <3>2. ctx'[g] = ctx[Peer(e)] /\ ctx'[Peer(g)] = c1
      BY <1>1, <2>1, <2>4
    <3>3. QED
      BY <2>1, <2>4, <3>1, <3>2 DEF Pair
  <2>5. CASE g # e /\ g # Peer(e)
    <3>1. Peer(g) # e /\ Peer(g) # Peer(e)
      BY <2>1, <2>5
    <3>2. ctx'[g] = ctx[g] /\ ctx'[Peer(g)] = ctx[Peer(g)]
      BY <1>1, <2>1, <2>5, <3>1
    <3>3. /\ Elsewhere(ctx[g], ctx[Peer(g)], wire[g], wire'[g], t)
          /\ Elsewhere(ctx[Peer(g)], ctx[g], wire[Peer(g)], wire'[Peer(g)], t)
      BY <2>1, <2>5, <3>1
    <3>4. Pair(Dialler(g), ctx[g], ctx[Peer(g)], wire'[g], wire'[Peer(g)])
      BY <3>3, Aloof
    <3>5. QED
      BY <3>2, <3>4 DEF Pair
  <2>6. QED
    BY <2>3, <2>4, <2>5
<1>3. QED
  BY <1>1, <1>2 DEF LinkInv

\* A step that only relays.
LEMMA NoEnd ==
  ASSUME LinkInv, NEW t, Aside(t), ctx' = ctx, wire' = [f \in Ends |-> wire'[f]],
         \A f \in Ends : Elsewhere(ctx[f], ctx[Peer(f)], wire[f], wire'[f], t)
  PROVE  LinkInv'
<1>1. ASSUME NEW g \in Ends
      PROVE  EndOK(Dialler(g), ctx'[g], ctx'[Peer(g)], wire'[g], wire'[Peer(g)])
  <2>1. Peer(g) \in Ends /\ Peer(Peer(g)) = g
    BY Geometry
  <2>2. /\ Elsewhere(ctx[g], ctx[Peer(g)], wire[g], wire'[g], t)
        /\ Elsewhere(ctx[Peer(g)], ctx[g], wire[Peer(g)], wire'[Peer(g)], t)
    BY <2>1
  <2>3. Pair(Dialler(g), ctx[g], ctx[Peer(g)], wire'[g], wire'[Peer(g)])
    BY <2>2, Aloof
  <2>4. QED
    BY <2>3 DEF Pair
<1>2. QED
  BY <1>1 DEF LinkInv

-----------------------------------------------------------------------------
(* What a handler does to its context and sends.                           *)

\* The context a handler leaves to the loop head.
AsLeft(c) ==
  /\ IsContext(c) /\ c.phase = "open" /\ c.task = NoTask
  /\ c.m_state \in {"normal", "idle", "synchronizing", "sync_required", "pool_sync_required"}
  /\ c.m_state # "synchronizing" => Clear(c)

\* What goes to the peer besides an answer.
Asks(out) ==
  /\ IsSeq(out) /\ ~Has(out, {"handshake"}) /\ ~Has(out, {"handshake_reply"})
  /\ ~Has(out, Answers) /\ Single(out, Requests)

LEMMA AsideAsks == ASSUME NEW t, Aside(t) PROVE Asks(t)
BY NoneIsFew DEF Aside, Asks

LEMMA RequestAsks ==
  ASSUME NEW m, m.type \in Requests \cup {"request_tx_pool"} PROVE Asks(<<m>>)
BY Message DEF Asks, Requests, Answers

LEMMA Headed ==
  ASSUME NEW n, NEW c, AsLeft(c)
  PROVE  LET h == LoopHead(n, c)
         IN  /\ ContextOK(h.c) /\ h.c.phase = "open" /\ h.c.task = NoTask
             /\ h.c.m_state \in {"normal", "idle", "synchronizing"}
             /\ h.c.m_state = CASE c.m_state = "sync_required" -> "synchronizing"
                                [] c.m_state = "pool_sync_required" -> "normal"
                                [] OTHER -> c.m_state
             /\ Asks(h.out)
             /\ Has(h.out, Requests) => c.m_state = "sync_required"
<1> DEFINE h == LoopHead(n, c)
<1>1. NoTask.kind = "none"
  BY DEF NoTask
<1>2. CASE c.m_state = "sync_required"
  <2>1. h.c = [c EXCEPT !.m_state = "synchronizing"] /\ h.out = <<RequestChain(n)>>
    BY <1>2 DEF LoopHead
  <2>2. h.c = [phase |-> c.phase, m_state |-> "synchronizing",
               m_needed_objects |-> c.m_needed_objects,
               m_requested_objects |-> c.m_requested_objects,
               m_remote_blockchain_height |-> c.m_remote_blockchain_height,
               m_last_response_height |-> c.m_last_response_height,
               task |-> c.task]
    BY <2>1 DEF AsLeft, IsContext
  <2>3. ContextOK(h.c) /\ h.c.phase = "open" /\ h.c.task = NoTask /\ h.c.m_state = "synchronizing"
    BY <1>1, <2>2 DEF AsLeft, IsContext, ContextOK
  <2>4. RequestChain(n).type = "request_chain"
    BY DEF RequestChain
  <2>5. Asks(h.out)
    BY <2>1, <2>4, RequestAsks DEF Requests
  <2>6. QED
    BY <1>2, <2>3, <2>5
<1>3. CASE c.m_state = "pool_sync_required"
  <2>1. h.c = [c EXCEPT !.m_state = "normal"] /\ h.out = <<RequestTxPool(n)>>
    BY <1>3 DEF LoopHead
  <2>2. h.c = [phase |-> c.phase, m_state |-> "normal",
               m_needed_objects |-> c.m_needed_objects,
               m_requested_objects |-> c.m_requested_objects,
               m_remote_blockchain_height |-> c.m_remote_blockchain_height,
               m_last_response_height |-> c.m_last_response_height,
               task |-> c.task]
    BY <2>1 DEF AsLeft, IsContext
  <2>3. ContextOK(h.c) /\ h.c.phase = "open" /\ h.c.task = NoTask /\ h.c.m_state = "normal"
    BY <1>1, <1>3, <2>2 DEF AsLeft, IsContext, ContextOK, Clear
  <2>4. RequestTxPool(n).type = "request_tx_pool"
    BY DEF RequestTxPool
  <2>5. Asks(h.out) /\ ~Has(h.out, Requests)
    BY <2>1, <2>4, RequestAsks, Message DEF Requests
  <2>6. QED
    BY <1>3, <2>3, <2>5
<1>4. CASE c.m_state \notin {"sync_required", "pool_sync_required"}
  <2>1. h.c = c /\ h.out = << >>
    BY <1>4 DEF LoopHead
  <2>2. ContextOK(c)
    BY <1>1, <1>4 DEF AsLeft, ContextOK
  <2>3. Asks(h.out) /\ ~Has(h.out, Requests)
    BY SMTT(30), <2>1, AsideMessage, AsideAsks, EmptyWire
  <2>4. QED
    BY <1>4, <2>1, <2>2, <2>3 DEF AsLeft
<1>5. QED
  BY <1>2, <1>3, <1>4

\* An open connection whose handshake is over reads what comes.
LEMMA UnderWay ==
  ASSUME LinkInv, NEW e \in Ends, NEW type, type \notin Opening, Reads(e, type)
  PROVE  /\ AsLeft(ctx[e]) /\ ~Fresh(ctx[e]) /\ ContextOK(ctx[e])
         /\ ctx[e].m_state \in {"normal", "idle", "synchronizing"}
         /\ type \in Answers => ctx[e].m_state = "synchronizing"
<1> DEFINE c == ctx[e]
           wp == wire[Peer(e)]
<1>1. Peer(e) \in Ends
  BY Geometry
<1>2. /\ ContextOK(c) /\ IsSeq(wp) /\ HandshakeOK(Dialler(e), c, ctx[Peer(e)], wire[e], wp)
      /\ (c.phase # "closed" => OneRequestOK(c, wire[e], wp))
  BY <1>1 DEF LinkInv, EndOK
<1>3. c.phase # "closed" /\ c.task = NoTask /\ wp # << >> /\ Head(wp).type = type
  BY DEF Reads
<1> HIDE DEF c, wp
<1>4. wp[1].type = type /\ 1 \in 1 .. Len(wp) /\ NoTask.kind = "none"
  BY <1>2, <1>3, Rest, Indices DEF NoTask
<1>5. c.phase # "dialing"
  BY <1>2, <1>3, <1>4 DEF HandshakeOK, Starts, Opening
<1>6. ~Fresh(c)
  BY <1>2, <1>3, <1>4, <1>5 DEF HandshakeOK, Only, Opening, ContextOK, IsContext
<1>7. AsLeft(c) /\ c.m_state \in {"normal", "idle", "synchronizing"}
  BY <1>2, <1>3, <1>4, <1>5, <1>6 DEF ContextOK, AsLeft, IsContext, Fresh
<1>8. type \in Answers => c.m_state = "synchronizing"
  BY <1>2, <1>3, <1>4 DEF OneRequestOK, Has
<1>9. QED
  BY <1>2, <1>6, <1>7, <1>8 DEF c

\* The wires after Done: the handler's own two, and those it only relayed to.
LEMMA DoneWires ==
  ASSUME LinkInv, NEW e \in Ends, NEW c, c.m_state # "shutdown", NEW nd, NEW out,
         NEW bcast, Aside(bcast), NEW rest, Done(e, c, nd, out, bcast, rest)
  PROVE  LET h == LoopHead(NodeOf(e), c)
         IN  /\ ctx' = [ctx EXCEPT ![e] = h.c]
             /\ wire' = [f \in Ends |-> wire'[f]] /\ wire'[Peer(e)] = rest
             /\ wire'[e] = IF ctx[Peer(e)].phase = "closed" THEN << >>
                           ELSE wire[e] \o (out \o h.out)
             /\ \A f \in Ends \ {e, Peer(e)} :
                  Elsewhere(ctx[f], ctx[Peer(f)], wire[f], wire'[f], bcast)
<1> DEFINE n == NodeOf(e)
           h == LoopHead(n, c)
           others == RelayTargets(n, {e})
<1>1. Peer(e) \in Ends /\ Peer(e) # e
  BY Geometry
<1>2. /\ ctx' = [ctx EXCEPT ![e] = h.c]
      /\ wire' = [f \in Ends |->
                    IF f = Peer(e) THEN rest
                    ELSE IF ctx[Peer(f)].phase = "closed" THEN << >>
                    ELSE IF f = e THEN wire[f] \o (out \o h.out)
                    ELSE IF f \in others THEN wire[f] \o bcast
                    ELSE wire[f]]
  BY Zenon DEF Done
<1>3. ASSUME NEW f \in Ends \ {e, Peer(e)}
      PROVE  Elsewhere(ctx[f], ctx[Peer(f)], wire[f], wire'[f], bcast)
  <2>1. wire'[f] = IF ctx[Peer(f)].phase = "closed" THEN << >>
                   ELSE IF f \in others THEN wire[f] \o bcast
                   ELSE wire[f]
    BY <1>2, <1>3
  <2>2. CASE f \in others
    <3>1. ctx[f].phase = "open" /\ ctx[f].m_state \in {"normal", "synchronizing"}
      BY <2>2 DEF RelayTargets
    <3>2. ContextOK(ctx[f])
      BY <1>3 DEF LinkInv, EndOK
    <3>3. ~Fresh(ctx[f])
      BY SMTT(30), <3>1, <3>2 DEF ContextOK, Fresh
    <3>4. QED
      BY Zenon, <2>1, <2>2, <3>1, <3>3 DEF Elsewhere
  <2>3. CASE f \notin others
    BY <2>1, <2>3 DEF Elsewhere
  <2>4. QED
    BY SMTT(30), <2>2, <2>3
<1> HIDE DEF h, others
<1>4. /\ wire' = [f \in Ends |-> wire'[f]] /\ wire'[Peer(e)] = rest
      /\ wire'[e] = IF ctx[Peer(e)].phase = "closed" THEN << >>
                    ELSE wire[e] \o (out \o h.out)
  BY <1>1, <1>2
<1>5. QED
  BY Zenon, <1>2, <1>3, <1>4 DEF h

\* A handler that reads a message, answers it and goes back to its loop.
LEMMA Serves ==
  ASSUME LinkInv, NEW e \in Ends, NEW type, type \notin Opening, Reads(e, type),
         NEW c, AsLeft(c), NEW nd, NEW out, NEW bcast, Aside(bcast),
         Handled(e, c, nd, out, bcast),
         IsSeq(out), ~Has(out, {"handshake"}), ~Has(out, {"handshake_reply"}),
         Single(out, Answers), Single(out, Requests),
         Has(out, Answers) => type \in Requests,
         Has(out, Requests) => /\ c.m_state = "synchronizing"
                               /\ (ctx[e].m_state # "synchronizing" \/ type \in Answers),
         c.m_state # "synchronizing" /\ ctx[e].m_state = "synchronizing" => type \in Answers
  PROVE  LinkInv'
<1> DEFINE h == LoopHead(NodeOf(e), c)
           all == out \o h.out
<1>1. Peer(e) \in Ends
  BY Zenon, PairAt
<1>2. Dialler(e) \in BOOLEAN
  BY Zenon, PairAt
<1>3. Pair(Dialler(e), ctx[e], ctx[Peer(e)], wire[e], wire[Peer(e)])
  BY Zenon, PairAt
<1>4. /\ AsLeft(ctx[e]) /\ ~Fresh(ctx[e]) /\ ctx[e].phase = "open" /\ ctx[e].task = NoTask
      /\ wire[Peer(e)] # << >> /\ Head(wire[Peer(e)]).type = type
      /\ IsSeq(wire[e])
  BY UnderWay DEF Reads, AsLeft, LinkInv, EndOK
<1>5. /\ ContextOK(h.c) /\ h.c.phase = "open" /\ h.c.task = NoTask
      /\ h.c.m_state \in {"normal", "idle", "synchronizing"}
      /\ h.c.m_state = CASE c.m_state = "sync_required" -> "synchronizing"
                         [] c.m_state = "pool_sync_required" -> "normal"
                         [] OTHER -> c.m_state
      /\ Asks(h.out)
      /\ Has(h.out, Requests) => c.m_state = "sync_required"
  BY Headed
<1>6. /\ ctx' = [ctx EXCEPT ![e] = h.c]
      /\ wire' = [f \in Ends |-> wire'[f]] /\ wire'[Peer(e)] = Tail(wire[Peer(e)])
      /\ wire'[e] = IF ctx[Peer(e)].phase = "closed" THEN << >>
                    ELSE wire[e] \o (out \o h.out)
      /\ \A f \in Ends \ {e, Peer(e)} :
           Elsewhere(ctx[f], ctx[Peer(f)], wire[f], wire'[f], bcast)
  <2>1. c.m_state # "shutdown"
    BY Zenon DEF AsLeft
  <2>2. QED
    BY <2>1, DoneWires DEF Handled
<1> HIDE DEF h
<1>7. IsSeq(h.out)
  BY <1>5 DEF Asks
<1>8. IsSeq(all) /\ ~Has(all, {"handshake"}) /\ ~Has(all, {"handshake_reply"})
  BY <1>5, <1>7, Joined, Sent DEF Asks
<1>9. Has(all, Answers) => Single(all, Answers) /\ type \in Requests
  BY <1>5, <1>7, Sent DEF Asks
<1>10. Has(all, Requests) =>
         /\ Single(all, Requests) /\ h.c.m_state = "synchronizing"
         /\ (ctx[e].m_state # "synchronizing" \/ type \in Answers)
  <2>1. Has(all, Requests) <=> Has(out, Requests) \/ Has(h.out, Requests)
    BY Zenon, <1>7, Sent
  <2>2. ~(Has(out, Requests) /\ Has(h.out, Requests))
    BY <1>5
  <2>3. Single(all, Requests)
    BY <1>5, <1>7, <2>2, Sent DEF Asks
  <2>4. CASE Has(out, Requests)
    BY <1>5, <2>3, <2>4
  <2>5. CASE Has(h.out, Requests)
    BY <1>5, <2>3, <2>5
  <2>6. QED
    BY Zenon, <2>1, <2>4, <2>5
<1>11. h.c.m_state # "synchronizing" /\ ctx[e].m_state = "synchronizing" => type \in Answers
  BY <1>5
<1> HIDE DEF all
<1>12. Pair(Dialler(e), h.c, ctx[Peer(e)],
            IF ctx[Peer(e)].phase = "closed" THEN << >> ELSE wire[e] \o all,
            Tail(wire[Peer(e)]))
  BY <1>2, <1>3, <1>4, <1>5, <1>8, <1>9, <1>10, <1>11, Served
<1>13. Pair(Dialler(e), h.c, ctx[Peer(e)], wire'[e], wire'[Peer(e)])
  BY <1>6, <1>12 DEF all
<1>14. QED
  BY Zenon, <1>6, <1>13, OneEnd

\* connectionHandler leaves its loop.
LEMMA Closes ==
  ASSUME LinkInv, NEW e \in Ends, ctx[e].phase # "closed", NEW c, NEW nd,
         CloseEnd(e, c, nd, << >>)
  PROVE  LinkInv'
<1>1. Peer(e) \in Ends /\ Peer(e) # e
  BY PairAt
<1>2. Dialler(e) \in BOOLEAN
  BY PairAt
<1>3. Pair(Dialler(e), ctx[e], ctx[Peer(e)], wire[e], wire[Peer(e)])
  BY PairAt
<1>4. IsSeq(wire[e]) /\ wire[e] \o << >> = wire[e] /\ Len(wire[e]) \in Nat
  BY Zenon, Regrouped, Empty, Indices DEF LinkInv, EndOK
<1>5. PICK k \in 0 .. Len(wire[e]) :
        /\ wire' = [wire EXCEPT ![e] = IF ctx[Peer(e)].phase = "closed" THEN << >>
                                       ELSE Append(SubSeq(wire[e], 1, k), Eof),
                                ![Peer(e)] = << >>]
        /\ ctx' = [ctx EXCEPT ![e] = Closed]
  <2>1. CASE ctx[Peer(e)].phase = "closed"
    <3>1. 0 \in 0 .. Len(wire[e])
      BY <1>4
    <3>2. QED
      BY <2>1, <3>1 DEF CloseEnd
  <2>2. CASE ctx[Peer(e)].phase # "closed"
    BY <1>4, <2>2 DEF CloseEnd
  <2>3. QED
    BY <2>1, <2>2
<1> DEFINE w1 == IF ctx[Peer(e)].phase = "closed" THEN << >>
                 ELSE Append(SubSeq(wire[e], 1, k), Eof)
<1>6. Pair(Dialler(e), Closed, ctx[Peer(e)], w1, << >>)
  BY <1>2, <1>3, Left
<1>7. wire' = [wire EXCEPT ![e] = w1, ![Peer(e)] = << >>]
  BY <1>5
<1> HIDE DEF w1
<1>8. /\ wire' = [f \in Ends |-> wire'[f]] /\ wire'[e] = w1 /\ wire'[Peer(e)] = << >>
      /\ \A f \in Ends \ {e, Peer(e)} : wire'[f] = wire[f]
  BY Zenon, <1>1, <1>7 DEF LinkInv
<1>9. QED
  BY Zenon, <1>5, <1>6, <1>8, OneEnd, AsideMessage DEF Elsewhere

\* request_missing_objects asks once, or is done.
LEMMA AsksForMissing ==
  ASSUME NEW n, NEW c, IsContext(c), c.phase = "open", c.task = NoTask,
         c.m_state = "synchronizing", NEW nd, NEW check
  PROVE  LET r == request_missing_objects(n, c, nd, check)
         IN  AsLeft(r.c) /\ Asks(r.out) /\ (Has(r.out, Requests) => r.c.m_state = "synchronizing")
<1> DEFINE r == request_missing_objects(n, c, nd, check)
           w == Wanted(n, c.m_needed_objects, check)
           top == c.m_remote_blockchain_height - 1
<1>1. CASE c.m_needed_objects # << >>
  <2>1. /\ r.c = [c EXCEPT !.m_needed_objects = w.rest,
                           !.m_requested_objects = @ \cup Range(w.ids)]
        /\ r.out = <<[type |-> "get_objects", ids |-> w.ids]>>
    BY <1>1 DEF request_missing_objects
  <2>2. r.c = [phase |-> c.phase, m_state |-> c.m_state,
               m_needed_objects |-> w.rest,
               m_requested_objects |-> c.m_requested_objects \cup Range(w.ids),
               m_remote_blockchain_height |-> c.m_remote_blockchain_height,
               m_last_response_height |-> c.m_last_response_height,
               task |-> c.task]
    BY Zenon, <2>1 DEF IsContext
  <2>3. AsLeft(r.c) /\ r.c.m_state = "synchronizing"
    BY SMTT(30), <2>2 DEF AsLeft, IsContext
  <2>4. Asks(r.out)
    BY <2>1, RequestAsks DEF Requests
  <2>5. QED
    BY Zenon, <2>3, <2>4
<1>2. CASE c.m_needed_objects = << >> /\ c.m_last_response_height < top
  <2>1. r.c = c /\ r.out = <<RequestChain(n)>>
    BY <1>2 DEF request_missing_objects
  <2>2. RequestChain(n).type = "request_chain"
    BY DEF RequestChain
  <2>3. AsLeft(r.c) /\ Asks(r.out)
    BY <2>1, <2>2, RequestAsks DEF Requests, AsLeft
  <2>4. QED
    BY Zenon, <2>1, <2>3
<1>3. CASE /\ c.m_needed_objects = << >> /\ ~(c.m_last_response_height < top)
           /\ c.m_last_response_height = top /\ c.m_requested_objects = {}
  <2>1. r.c = [c EXCEPT !.m_state = "normal"] /\ r.out = <<RequestTxPool(n)>>
    BY <1>3 DEF request_missing_objects
  <2>2. r.c = [phase |-> c.phase, m_state |-> "normal",
               m_needed_objects |-> c.m_needed_objects,
               m_requested_objects |-> c.m_requested_objects,
               m_remote_blockchain_height |-> c.m_remote_blockchain_height,
               m_last_response_height |-> c.m_last_response_height,
               task |-> c.task]
    BY <2>1 DEF IsContext
  <2>3. AsLeft(r.c)
    BY <1>3, <2>2 DEF AsLeft, IsContext, Clear
  <2>4. RequestTxPool(n).type = "request_tx_pool"
    BY DEF RequestTxPool
  <2>5. Asks(r.out) /\ ~Has(r.out, Requests)
    BY <2>1, <2>4, RequestAsks, Message DEF Requests
  <2>6. QED
    BY Zenon, <2>3, <2>5
<1>4. CASE /\ c.m_needed_objects = << >> /\ ~(c.m_last_response_height < top)
           /\ ~(c.m_last_response_height = top /\ c.m_requested_objects = {})
  <2>1. r.c = c /\ r.out = << >>
    BY <1>4 DEF request_missing_objects
  <2>2. QED
    BY Zenon, <2>1, AsideMessage, AsideAsks DEF AsLeft
<1>5. QED
  BY Zenon, <1>1, <1>2, <1>3, <1>4

\* process_payload_sync_data on a connection that has shaken hands.
LEMMA SyncDataContext ==
  ASSUME NEW e, NEW data, NEW is_inital \in BOOLEAN, IsContext(ctx[e]), ctx[e].task = NoTask,
         ctx[e].m_state # "synchronizing" => Clear(ctx[e]),
         is_inital \/ ctx[e].m_state # "befor_handshake"
  PROVE  LET c == process_payload_sync_data(e, data, is_inital).c
         IN  /\ c = [phase |-> ctx[e].phase, m_state |-> c.m_state,
                     m_needed_objects |-> ctx[e].m_needed_objects,
                     m_requested_objects |-> ctx[e].m_requested_objects,
                     m_remote_blockchain_height |-> data.height,
                     m_last_response_height |-> ctx[e].m_last_response_height,
                     task |-> NoTask]
             /\ c.m_state = StateAfterSyncData(e, data, is_inital)
             /\ ctx[e].phase = "open" => AsLeft(c)
             /\ c.m_state \in {"normal", "synchronizing", "sync_required", "pool_sync_required"}
             /\ c.m_state = "synchronizing" <=> ctx[e].m_state = "synchronizing"
             /\ is_inital => c.m_state # "normal"
<1> DEFINE c == process_payload_sync_data(e, data, is_inital).c
           st == StateAfterSyncData(e, data, is_inital)
<1>1. c = [ctx[e] EXCEPT !.m_state = st, !.m_remote_blockchain_height = data.height]
  BY DEF process_payload_sync_data
<1>2. c = [phase |-> ctx[e].phase, m_state |-> st,
           m_needed_objects |-> ctx[e].m_needed_objects,
           m_requested_objects |-> ctx[e].m_requested_objects,
           m_remote_blockchain_height |-> data.height,
           m_last_response_height |-> ctx[e].m_last_response_height,
           task |-> NoTask]
  BY Zenon, <1>1 DEF IsContext
<1>3. /\ st \in {"normal", "synchronizing", "sync_required", "pool_sync_required"}
      /\ st = "synchronizing" <=> ctx[e].m_state = "synchronizing"
      /\ is_inital => st # "normal"
  BY Zenon DEF StateAfterSyncData
<1> HIDE DEF c, st
<1>4. c.m_state = st
  BY Zenon, <1>2
<1>5. ASSUME ctx[e].phase = "open" PROVE AsLeft(c)
  BY Zenon, <1>2, <1>3, <1>5 DEF AsLeft, IsContext, Clear, NoTask
<1>6. QED
  BY Zenon, <1>2, <1>3, <1>4, <1>5 DEF c, st

-----------------------------------------------------------------------------
(* The actions.                                                            *)

\* Shutting down instead of an answer.
LEMMA ShutsDown ==
  ASSUME LinkInv, NEW e \in Ends, ctx[e].phase # "closed", NEW c, c.m_state = "shutdown",
         NEW nd, NEW bcast, NEW rest, Done(e, c, nd, << >>, bcast, rest)
  PROVE  LinkInv'
<1>1. CloseEnd(e, c, nd, << >>)
  BY Zenon DEF Done
<1>2. QED
  BY Zenon, <1>1, Closes

LEMMA DialLinks ==
  ASSUME LinkInv, NEW l \in Links, Dial(l) PROVE LinkInv'
<1> DEFINE e == <<l[1], l>>
           m == Payload("handshake", NodeOf(e))
<1>1. e \in Ends /\ Dialler(e)
  BY NetworkAssumption DEF Ends, IsNetwork, Dialler
<1> HIDE DEF e
<1>2. Peer(e) \in Ends /\ Peer(e) # e /\ Peer(Peer(e)) = e /\ ~Dialler(Peer(e))
  BY <1>1, Geometry
<1>3. /\ ctx[e].phase = "closed" /\ ctx[Peer(e)].phase = "closed"
      /\ ctx' = [ctx EXCEPT ![e].phase = "dialing", ![Peer(e)].phase = "open"]
      /\ wire' = [wire EXCEPT ![e] = <<m>>]
  BY DEF Dial, e
<1>4. ctx[e] = Closed /\ ctx[Peer(e)] = Closed /\ wire[Peer(e)] = << >>
  BY Zenon, <1>1, <1>2, <1>3 DEF LinkInv, EndOK, ContextOK, HandshakeOK
<1> DEFINE c1 == [Closed EXCEPT !.phase = "dialing"]
           c2 == [Closed EXCEPT !.phase = "open"]
<1>5. m.type = "handshake"
  BY DEF Payload
<1>6. Pair(TRUE, c1, c2, <<m>>, << >>)
  BY Zenon, <1>5, Dialled
<1>7. /\ ctx' = [f \in Ends |-> ctx'[f]] /\ ctx'[e] = c1 /\ ctx'[Peer(e)] = c2
      /\ \A f \in Ends \ {e, Peer(e)} : ctx'[f] = ctx[f]
  <2>1. ctx = [f \in Ends |-> ctx[f]]
    BY DEF LinkInv
  <2>2. QED
    BY Zenon, <1>1, <1>2, <1>3, <1>4, <2>1
<1> HIDE DEF c1, c2, m
<1>8. /\ wire' = [f \in Ends |-> wire'[f]] /\ wire'[e] = <<m>> /\ wire'[Peer(e)] = << >>
      /\ \A f \in Ends \ {e, Peer(e)} : wire'[f] = wire[f]
  BY <1>1, <1>2, <1>3, <1>4 DEF LinkInv
<1>9. ASSUME NEW g \in Ends
      PROVE  EndOK(Dialler(g), ctx'[g], ctx'[Peer(g)], wire'[g], wire'[Peer(g)])
  <2>1. CASE g = e
    <3>1. Dialler(e) = TRUE
      BY <1>1 DEF Dialler
    <3>2. QED
      BY Zenon, <1>6, <1>7, <1>8, <2>1, <3>1 DEF Pair
  <2>2. CASE g = Peer(e)
    <3>1. Dialler(g) = ~TRUE
      BY <1>2, <2>2 DEF Dialler
    <3>2. QED
      BY <1>2, <1>6, <1>7, <1>8, <2>2, <3>1 DEF Pair
  <2>3. CASE g # e /\ g # Peer(e)
    <3>1. Peer(g) \in Ends /\ Peer(Peer(g)) = g
      BY Geometry
    <3>2. Peer(g) # e /\ Peer(g) # Peer(e)
      BY <1>2, <2>3, <3>1
    <3>3. QED
      BY Zenon, <1>7, <1>8, <2>3, <3>1, <3>2 DEF LinkInv
  <2>4. QED
    BY Zenon, <2>1, <2>2, <2>3
<1>10. QED
  BY Zenon, <1>7, <1>8, <1>9 DEF LinkInv

LEMMA DialFailsLinks ==
  ASSUME LinkInv, NEW e \in Ends, DialFails(e) PROVE LinkInv'
<1>1. /\ Pair(Dialler(e), ctx[e], ctx[Peer(e)], wire[e], wire[Peer(e)])
      /\ Dialler(e) \in BOOLEAN /\ Peer(e) \in Ends /\ Peer(e) # e /\ IsSeq(wire[e])
  BY PairAt
<1>2. Len(wire[e]) \in 0 .. Len(wire[e]) /\ SubSeq(wire[e], 1, Len(wire[e])) = wire[e]
  <2>1. wire[e] \in Seq(Range(wire[e]))
    BY <1>1 DEF IsSeq
  <2> HIDE DEF Range
  <2>2. QED
    BY <2>1, SubSeqFull, LenProperties
<1> DEFINE w1 == IF ctx[Peer(e)].phase = "closed" THEN << >> ELSE Append(wire[e], Eof)
<1>3. Pair(Dialler(e), Closed, ctx[Peer(e)], w1, << >>)
  <2>1. ctx[e].phase # "closed"
    BY DEF DialFails
  <2>2. Pair(Dialler(e), Closed, ctx[Peer(e)],
             IF ctx[Peer(e)].phase = "closed" THEN << >>
             ELSE Append(SubSeq(wire[e], 1, Len(wire[e])), Eof), << >>)
    BY Zenon, <1>1, <1>2, <2>1, Left
  <2>3. QED
    BY Zenon, <1>2, <2>2
<1>4. /\ ctx' = [ctx EXCEPT ![e] = Closed]
      /\ wire' = [wire EXCEPT ![Peer(e)] = << >>, ![e] = w1]
  BY <1>1 DEF DialFails, LinkInv
<1> HIDE DEF w1
<1>5. /\ wire' = [f \in Ends |-> wire'[f]] /\ wire'[e] = w1 /\ wire'[Peer(e)] = << >>
      /\ \A f \in Ends \ {e, Peer(e)} : wire'[f] = wire[f]
  BY Zenon, <1>1, <1>4 DEF LinkInv
<1>6. QED
  BY Zenon, <1>3, <1>4, <1>5, OneEnd, AsideMessage DEF Elsewhere

LEMMA handle_handshakeLinks ==
  ASSUME LinkInv, NEW e \in Ends, handle_handshake(e) PROVE LinkInv'
<1> DEFINE data == Msg(e).data
           r == process_payload_sync_data(e, data, TRUE)
<1>1. /\ Pair(Dialler(e), ctx[e], ctx[Peer(e)], wire[e], wire[Peer(e)])
      /\ Dialler(e) \in BOOLEAN /\ Peer(e) \in Ends /\ Peer(e) # e /\ ContextOK(ctx[e])
      /\ IsSeq(wire[Peer(e)])
  BY Zenon, PairAt
<1>2. /\ ctx[e].phase # "closed" /\ ctx[e].task = NoTask
      /\ wire[Peer(e)] # << >> /\ Head(wire[Peer(e)]).type = "handshake"
  BY DEF handle_handshake, Reads
<1>3. CASE (NodeOf(e) \in Foreign) # (NodeOf(Peer(e)) \in Foreign)
  <2>1. [ctx[e] EXCEPT !.m_state = "shutdown"].m_state = "shutdown"
    BY <1>1 DEF ContextOK, IsContext
  <2>2. QED
    BY Zenon, <1>2, <1>3, <2>1, ShutsDown DEF handle_handshake, Handled
<1>4. CASE ~((NodeOf(e) \in Foreign) # (NodeOf(Peer(e)) \in Foreign))
  <2> DEFINE c1 == [r.c EXCEPT !.task.kind = "ping"]
  <2>1. ctx' = [ctx EXCEPT ![e] = c1] /\ wire' = [wire EXCEPT ![Peer(e)] = Tail(@)]
    BY Zenon, <1>4 DEF handle_handshake
  <2>2. ctx[e].phase = "open" /\ ctx[e].m_state = "befor_handshake"
    <3>1. Has(wire[Peer(e)], {"handshake"})
      BY Zenon, <1>1, <1>2, Received
    <3>2. HandshakeOK(~Dialler(e), ctx[Peer(e)], ctx[e], wire[Peer(e)], wire[e])
      BY Zenon, <1>1 DEF Pair, EndOK
    <3>3. QED
      BY Zenon, <3>1, <3>2 DEF HandshakeOK
  <2>3. /\ r.c = [phase |-> ctx[e].phase, m_state |-> r.c.m_state,
                  m_needed_objects |-> ctx[e].m_needed_objects,
                  m_requested_objects |-> ctx[e].m_requested_objects,
                  m_remote_blockchain_height |-> data.height,
                  m_last_response_height |-> ctx[e].m_last_response_height,
                  task |-> NoTask]
        /\ AsLeft(r.c) /\ r.c.m_state \in {"sync_required", "pool_sync_required"}
    <3>1. IsContext(ctx[e]) /\ (ctx[e].m_state # "synchronizing" => Clear(ctx[e]))
      BY <1>1 DEF ContextOK
    <3>2. TRUE \in BOOLEAN
      OBVIOUS
    <3>3. QED
      BY Zenon, <1>2, <2>2, <3>1, <3>2, SyncDataContext
  <2> HIDE DEF r
  <2>4. c1 = [phase |-> "open", m_state |-> r.c.m_state,
              m_needed_objects |-> ctx[e].m_needed_objects,
              m_requested_objects |-> ctx[e].m_requested_objects,
              m_remote_blockchain_height |-> data.height,
              m_last_response_height |-> ctx[e].m_last_response_height,
              task |-> [kind |-> "ping", blocks |-> << >>]]
    BY <2>2, <2>3 DEF NoTask
  <2>5. ContextOK(c1) /\ c1.phase = "open" /\ c1.task.kind = "ping"
    <3>1. Clear(ctx[e])
      BY <1>1, <2>2 DEF ContextOK
    <3>2. QED
      BY <2>3, <2>4, <3>1 DEF ContextOK, IsContext, Clear
  <2>6. /\ wire' = [f \in Ends |-> wire'[f]] /\ wire'[e] = wire[e]
        /\ wire'[Peer(e)] = Tail(wire[Peer(e)])
        /\ \A f \in Ends \ {e, Peer(e)} : wire'[f] = wire[f]
    BY Zenon, <1>1, <2>1 DEF LinkInv
  <2> HIDE DEF c1
  <2>7. Pair(Dialler(e), c1, ctx[Peer(e)], wire'[e], wire'[Peer(e)])
    BY <1>1, <1>2, <2>5, <2>6, HandshakeTaken
  <2>8. QED
    BY Zenon, <2>1, <2>6, <2>7, OneEnd, AsideMessage DEF Elsewhere
<1>5. QED
  BY <1>3, <1>4

LEMMA HandshakeReplyLinks ==
  ASSUME LinkInv, NEW e \in Ends, HandshakeReply(e) PROVE LinkInv'
<1> DEFINE c == [ctx[e] EXCEPT !.task = NoTask]
           h == LoopHead(NodeOf(e), c)
           m == Payload("handshake_reply", NodeOf(e))
<1>1. /\ Pair(Dialler(e), ctx[e], ctx[Peer(e)], wire[e], wire[Peer(e)])
      /\ Dialler(e) \in BOOLEAN /\ Peer(e) \in Ends /\ ContextOK(ctx[e])
  BY PairAt
<1>2. ctx[e].task.kind = "ping" /\ Done(e, c, node[NodeOf(e)], <<m>>, << >>, wire[Peer(e)])
  BY DEF HandshakeReply
<1>3. /\ c = [phase |-> ctx[e].phase, m_state |-> ctx[e].m_state,
              m_needed_objects |-> ctx[e].m_needed_objects,
              m_requested_objects |-> ctx[e].m_requested_objects,
              m_remote_blockchain_height |-> ctx[e].m_remote_blockchain_height,
              m_last_response_height |-> ctx[e].m_last_response_height,
              task |-> NoTask]
  BY <1>1 DEF ContextOK, IsContext
<1>4. ctx[e].phase = "open" /\ ctx[e].m_state \in {"sync_required", "pool_sync_required"}
  <2>1. ctx[e].m_state \in {"sync_required", "pool_sync_required"}
    BY <1>1, <1>2 DEF ContextOK
  <2>2. ctx[e].phase # "closed" /\ ctx[e].phase # "dialing"
    BY Zenon, <1>1, <2>1, Opened DEF ContextOK
  <2>3. QED
    BY <1>1, <2>1, <2>2 DEF ContextOK, IsContext
<1> HIDE DEF c
<1>5. AsLeft(c) /\ c.m_state \in {"sync_required", "pool_sync_required"}
  BY <1>1, <1>3, <1>4 DEF AsLeft, ContextOK, IsContext, Clear, NoTask
<1>6. /\ ContextOK(h.c) /\ h.c.phase = "open" /\ h.c.task = NoTask
      /\ h.c.m_state \in {"normal", "synchronizing"}
      /\ Asks(h.out) /\ (Has(h.out, Requests) => h.c.m_state = "synchronizing")
  BY <1>5, Headed
<1>7. /\ ctx' = [ctx EXCEPT ![e] = h.c]
      /\ wire' = [f \in Ends |-> wire'[f]] /\ wire'[Peer(e)] = wire[Peer(e)]
      /\ wire'[e] = IF ctx[Peer(e)].phase = "closed" THEN << >>
                    ELSE wire[e] \o (<<m>> \o h.out)
      /\ \A f \in Ends \ {e, Peer(e)} :
           Elsewhere(ctx[f], ctx[Peer(f)], wire[f], wire'[f], << >>)
  <2>1. c.m_state # "shutdown"
    BY <1>5
  <2>2. QED
    BY <1>2, <2>1, DoneWires, AsideMessage
<1>8. m.type = "handshake_reply"
  BY DEF Payload
<1> HIDE DEF h, m
<1>9. Pair(Dialler(e), h.c, ctx[Peer(e)],
           IF ctx[Peer(e)].phase = "closed" THEN << >> ELSE wire[e] \o (<<m>> \o h.out),
           wire[Peer(e)])
  BY Zenon, <1>1, <1>2, <1>6, <1>8, HandshakeAnswered DEF Asks
<1>10. QED
  BY Zenon, <1>7, <1>9, OneEnd, AsideMessage

LEMMA HandshakeDoneLinks ==
  ASSUME LinkInv, NEW e \in Ends, HandshakeDone(e) PROVE LinkInv'
<1> DEFINE data == Msg(e).data
           r == process_payload_sync_data(e, data, TRUE)
           c == [r.c EXCEPT !.phase = "open"]
           h == LoopHead(NodeOf(e), c)
<1>1. /\ Pair(Dialler(e), ctx[e], ctx[Peer(e)], wire[e], wire[Peer(e)])
      /\ Dialler(e) \in BOOLEAN /\ Peer(e) \in Ends /\ ContextOK(ctx[e])
      /\ IsSeq(wire[e]) /\ IsSeq(wire[Peer(e)])
  BY PairAt
<1>2. /\ ctx[e].phase # "closed" /\ ctx[e].task = NoTask
      /\ wire[Peer(e)] # << >> /\ Head(wire[Peer(e)]).type = "handshake_reply"
      /\ Done(e, c, r.nd, << >>, << >>, Tail(wire[Peer(e)]))
  BY Zenon DEF HandshakeDone, Reads, Handled
<1>3. ctx[e].phase = "dialing" /\ ctx[e].m_state = "befor_handshake"
  <2>1. Has(wire[Peer(e)], {"handshake_reply"})
    BY <1>1, <1>2, Received
  <2>2. HandshakeOK(~Dialler(e), ctx[Peer(e)], ctx[e], wire[Peer(e)], wire[e])
    BY Zenon, <1>1 DEF Pair, EndOK
  <2>3. ctx[e].phase = "dialing"
    BY Zenon, <2>1, <2>2 DEF HandshakeOK
  <2>4. QED
    BY Zenon, <1>1, <2>3, Opened DEF ContextOK
<1>4. /\ r.c = [phase |-> ctx[e].phase, m_state |-> r.c.m_state,
                m_needed_objects |-> ctx[e].m_needed_objects,
                m_requested_objects |-> ctx[e].m_requested_objects,
                m_remote_blockchain_height |-> data.height,
                m_last_response_height |-> ctx[e].m_last_response_height,
                task |-> NoTask]
      /\ r.c.m_state \in {"sync_required", "pool_sync_required"}
  <2>1. IsContext(ctx[e]) /\ (ctx[e].m_state # "synchronizing" => Clear(ctx[e]))
    BY <1>1 DEF ContextOK
  <2>2. TRUE \in BOOLEAN
    OBVIOUS
  <2>3. QED
    BY Zenon, <1>2, <1>3, <2>1, <2>2, SyncDataContext
<1> HIDE DEF r
<1>5. c = [phase |-> "open", m_state |-> r.c.m_state,
           m_needed_objects |-> ctx[e].m_needed_objects,
           m_requested_objects |-> ctx[e].m_requested_objects,
           m_remote_blockchain_height |-> data.height,
           m_last_response_height |-> ctx[e].m_last_response_height,
           task |-> NoTask]
  BY <1>4
<1> HIDE DEF c
<1>6. AsLeft(c) /\ c.m_state \in {"sync_required", "pool_sync_required"}
  BY <1>1, <1>3, <1>4, <1>5 DEF AsLeft, ContextOK, IsContext, Clear, NoTask
<1>7. /\ ContextOK(h.c) /\ h.c.phase = "open" /\ h.c.task = NoTask
      /\ h.c.m_state \in {"normal", "synchronizing"}
      /\ Asks(h.out) /\ (Has(h.out, Requests) => h.c.m_state = "synchronizing")
  BY <1>6, Headed
<1>8. /\ ctx' = [ctx EXCEPT ![e] = h.c]
      /\ wire' = [f \in Ends |-> wire'[f]] /\ wire'[Peer(e)] = Tail(wire[Peer(e)])
      /\ wire'[e] = IF ctx[Peer(e)].phase = "closed" THEN << >>
                    ELSE wire[e] \o (<< >> \o h.out)
      /\ \A f \in Ends \ {e, Peer(e)} :
           Elsewhere(ctx[f], ctx[Peer(f)], wire[f], wire'[f], << >>)
  <2>1. c.m_state # "shutdown"
    BY <1>6
  <2>2. QED
    BY Zenon, <1>2, <2>1, DoneWires, AsideMessage
<1> HIDE DEF h
<1>9. << >> \o h.out = h.out
  BY <1>7, Regrouped DEF Asks
<1>10. Pair(Dialler(e), h.c, ctx[Peer(e)],
            IF ctx[Peer(e)].phase = "closed" THEN << >> ELSE wire[e] \o h.out,
            Tail(wire[Peer(e)]))
  BY Zenon, <1>1, <1>2, <1>7, HandshakeReturned DEF Asks
<1>11. Aside(<< >>)
  BY AsideMessage
<1>12. Pair(Dialler(e), h.c, ctx[Peer(e)], wire'[e], wire'[Peer(e)])
  BY <1>8, <1>9, <1>10
<1>13. QED
  BY Zenon, <1>8, <1>11, <1>12, OneEnd

\* The last of the delivered blocks is imported.
LEMMA ImportStops ==
  ASSUME LinkInv, NEW e \in Ends, ctx[e].task.kind = "import",
         NEW c, AsLeft(c), c.m_state \in {"normal", "idle", "synchronizing"},
         NEW nd, NEW out, Asks(out), Has(out, Requests) => c.m_state = "synchronizing",
         Done(e, c, nd, out, << >>, wire[Peer(e)])
  PROVE  LinkInv'
<1> DEFINE h == LoopHead(NodeOf(e), c)
           all == out \o h.out
<1>1. /\ Pair(Dialler(e), ctx[e], ctx[Peer(e)], wire[e], wire[Peer(e)])
      /\ Dialler(e) \in BOOLEAN /\ Peer(e) \in Ends /\ ContextOK(ctx[e])
  BY Zenon, PairAt
<1>2. ctx[e].phase = "open"
  <2>1. ctx[e].task # NoTask
    BY DEF NoTask
  <2>2. ctx[e].phase # "closed" /\ ctx[e].phase # "dialing"
    BY Zenon, <1>1, <2>1, Opened DEF ContextOK
  <2>3. QED
    BY <1>1, <2>2 DEF ContextOK, IsContext
<1>3. /\ ContextOK(h.c) /\ h.c.phase = "open" /\ h.c.task = NoTask
      /\ h.c.m_state = c.m_state /\ Asks(h.out) /\ ~Has(h.out, Requests)
  BY Headed
<1>4. /\ ctx' = [ctx EXCEPT ![e] = h.c]
      /\ wire' = [f \in Ends |-> wire'[f]] /\ wire'[Peer(e)] = wire[Peer(e)]
      /\ wire'[e] = IF ctx[Peer(e)].phase = "closed" THEN << >> ELSE wire[e] \o all
      /\ \A f \in Ends \ {e, Peer(e)} :
           Elsewhere(ctx[f], ctx[Peer(f)], wire[f], wire'[f], << >>)
  BY Zenon, DoneWires, AsideMessage
<1> HIDE DEF h
<1>5. IsSeq(all) /\ ~Has(all, {"handshake"}) /\ ~Has(all, {"handshake_reply"}) /\ ~Has(all, Answers)
  BY Zenon, <1>3, Joined, Sent DEF Asks
<1>6. Single(all, Requests) /\ (Has(all, Requests) => h.c.m_state = "synchronizing")
  BY Zenon, <1>3, Sent DEF Asks
<1> HIDE DEF all
<1>7. Pair(Dialler(e), h.c, ctx[Peer(e)],
           IF ctx[Peer(e)].phase = "closed" THEN << >> ELSE wire[e] \o all, wire[Peer(e)])
  BY Zenon, <1>1, <1>2, <1>3, <1>5, <1>6, ImportEnds
<1>8. QED
  BY Zenon, <1>4, <1>7, OneEnd, AsideMessage

\* Field by field.
LEMMA Idled ==
  ASSUME NEW c, IsContext(c)
  PROVE  Idle(c) = [phase |-> c.phase, m_state |-> "idle",
                    m_needed_objects |-> << >>, m_requested_objects |-> {},
                    m_remote_blockchain_height |-> c.m_remote_blockchain_height,
                    m_last_response_height |-> c.m_last_response_height,
                    task |-> NoTask]
<1> DEFINE c1 == [c EXCEPT !.m_state = "idle"]
           c2 == [c1 EXCEPT !.m_needed_objects = << >>]
           c3 == [c2 EXCEPT !.m_requested_objects = {}]
           c4 == [c3 EXCEPT !.task = NoTask]
<1>1. c1 = [phase |-> c.phase, m_state |-> "idle", m_needed_objects |-> c.m_needed_objects,
            m_requested_objects |-> c.m_requested_objects,
            m_remote_blockchain_height |-> c.m_remote_blockchain_height,
            m_last_response_height |-> c.m_last_response_height, task |-> c.task]
  BY DEF IsContext
<1> HIDE DEF c1
<1>2. c2 = [phase |-> c.phase, m_state |-> "idle", m_needed_objects |-> << >>,
            m_requested_objects |-> c.m_requested_objects,
            m_remote_blockchain_height |-> c.m_remote_blockchain_height,
            m_last_response_height |-> c.m_last_response_height, task |-> c.task]
  BY <1>1
<1> HIDE DEF c2
<1>3. c3 = [phase |-> c.phase, m_state |-> "idle", m_needed_objects |-> << >>,
            m_requested_objects |-> {},
            m_remote_blockchain_height |-> c.m_remote_blockchain_height,
            m_last_response_height |-> c.m_last_response_height, task |-> c.task]
  BY <1>2
<1> HIDE DEF c3
<1>4. c4 = [phase |-> c.phase, m_state |-> "idle", m_needed_objects |-> << >>,
            m_requested_objects |-> {},
            m_remote_blockchain_height |-> c.m_remote_blockchain_height,
            m_last_response_height |-> c.m_last_response_height, task |-> NoTask]
  BY <1>3
<1>5. Idle(c) = c4
  BY DEF Idle, c1, c2, c3
<1>6. QED
  BY <1>4, <1>5

LEMMA Tasked ==
  ASSUME NEW c, IsContext(c), NEW t
  PROVE  [c EXCEPT !.task = t]
         = [phase |-> c.phase, m_state |-> c.m_state,
            m_needed_objects |-> c.m_needed_objects,
            m_requested_objects |-> c.m_requested_objects,
            m_remote_blockchain_height |-> c.m_remote_blockchain_height,
            m_last_response_height |-> c.m_last_response_height, task |-> t]
BY DEF IsContext

\* processObjects, at the start and in the middle of an import.
LEMMA ProcessesObjects ==
  ASSUME LinkInv, NEW e \in Ends, NEW c, IsContext(c), c.phase = "open",
         c.m_state = "synchronizing", NEW nd, NEW blocks, NEW rest,
         processObjects(e, c, nd, blocks, rest),
         \/ Reads(e, "objects") /\ rest = Tail(wire[Peer(e)])
         \/ ctx[e].task.kind = "import" /\ rest = wire[Peer(e)]
  PROVE  LinkInv'
<1> DEFINE n == NodeOf(e)
           b == Head(blocks)
           idle == [c EXCEPT !.task = NoTask]
           r == request_missing_objects(n, idle, nd, TRUE)
<1>1. /\ Pair(Dialler(e), ctx[e], ctx[Peer(e)], wire[e], wire[Peer(e)])
      /\ Dialler(e) \in BOOLEAN /\ Peer(e) \in Ends /\ ContextOK(ctx[e]) /\ Peer(e) # e
  BY Zenon, PairAt
<1>2. "objects" \notin Opening /\ "objects" \in Answers
  BY DEF Opening, Answers
<1>3. ctx[e].phase = "open"
  <2>1. CASE Reads(e, "objects")
    BY Zenon, <1>2, <2>1, UnderWay DEF AsLeft
  <2>2. CASE ctx[e].task.kind = "import"
    <3>1. ctx[e].task # NoTask
      BY <2>2 DEF NoTask
    <3>2. ctx[e].phase # "closed" /\ ctx[e].phase # "dialing"
      BY Zenon, <1>1, <3>1, Opened DEF ContextOK
    <3>3. QED
      BY <1>1, <3>2 DEF ContextOK, IsContext
  <2>3. QED
    BY <2>1, <2>2
<1>4. ASSUME NEW c1, AsLeft(c1), c1.m_state \in {"normal", "idle", "synchronizing"},
             NEW nd1, NEW out, Asks(out), Has(out, Requests) => c1.m_state = "synchronizing",
             Done(e, c1, nd1, out, << >>, rest)
      PROVE  LinkInv'
  <2>1. CASE Reads(e, "objects") /\ rest = Tail(wire[Peer(e)])
    <3>1. Handled(e, c1, nd1, out, << >>)
      BY Zenon, <1>4, <2>1 DEF Handled
    <3>2. Aside(<< >>)
      BY AsideMessage
    <3>3. /\ IsSeq(out) /\ ~Has(out, {"handshake"}) /\ ~Has(out, {"handshake_reply"})
          /\ ~Has(out, Answers) /\ Single(out, Answers) /\ Single(out, Requests)
      BY Zenon, <1>4, NoneIsFew DEF Asks
    <3>4. QED
      BY Zenon, <1>2, <1>4, <2>1, <3>1, <3>2, <3>3, Serves
  <2>2. CASE ctx[e].task.kind = "import" /\ rest = wire[Peer(e)]
    BY Zenon, <1>4, <2>2, ImportStops
  <2>3. QED
    BY <2>1, <2>2
<1>5. idle = [phase |-> "open", m_state |-> "synchronizing",
              m_needed_objects |-> c.m_needed_objects,
              m_requested_objects |-> c.m_requested_objects,
              m_remote_blockchain_height |-> c.m_remote_blockchain_height,
              m_last_response_height |-> c.m_last_response_height,
              task |-> NoTask]
  BY Tasked
<1>6. IsContext(idle) /\ idle.phase = "open" /\ idle.m_state = "synchronizing" /\ idle.task = NoTask
  BY <1>5 DEF IsContext, NoTask
<1>7. CASE blocks = << >>
  <2>1. Done(e, r.c, r.nd, r.out, << >>, rest)
    BY Zenon, <1>7 DEF processObjects
  <2> HIDE DEF idle
  <2>2. AsLeft(r.c) /\ Asks(r.out) /\ (Has(r.out, Requests) => r.c.m_state = "synchronizing")
    BY Zenon, <1>6, AsksForMissing
  <2>3. r.c.m_state \in {"normal", "idle", "synchronizing"}
    BY <1>6 DEF request_missing_objects, IsContext
  <2> HIDE DEF r
  <2>4. QED
    BY Zenon, <1>4, <2>1, <2>2, <2>3
<1>8. CASE blocks # << >> /\ b \in known[n]
  <2>1. Done(e, Idle(c), nd, << >>, << >>, rest)
    BY <1>8 DEF processObjects
  <2>2. Idle(c) = [phase |-> "open", m_state |-> "idle",
                   m_needed_objects |-> << >>, m_requested_objects |-> {},
                   m_remote_blockchain_height |-> c.m_remote_blockchain_height,
                   m_last_response_height |-> c.m_last_response_height,
                   task |-> NoTask]
    BY Zenon, Idled
  <2>3. AsLeft(Idle(c)) /\ Idle(c).m_state = "idle"
    BY <2>2 DEF AsLeft, IsContext, Clear, NoTask
  <2>4. Asks(<< >>) /\ ~Has(<< >>, Requests)
    BY Zenon, AsideMessage, AsideAsks, EmptyWire
  <2>5. QED
    BY Zenon, <1>4, <2>1, <2>3, <2>4
<1>9. CASE blocks # << >> /\ b \notin known[n] /\ ~IsLinked(n, b)
  <2>1. Done(e, [idle EXCEPT !.m_state = "shutdown"], nd, << >>, << >>, rest)
    BY <1>9 DEF processObjects
  <2>2. [idle EXCEPT !.m_state = "shutdown"].m_state = "shutdown"
    BY <1>5
  <2> HIDE DEF idle
  <2>3. QED
    BY Zenon, <1>3, <2>1, <2>2, ShutsDown
<1>10. CASE blocks # << >> /\ b \notin known[n] /\ IsLinked(n, b)
  <2> DEFINE c1 == [c EXCEPT !.task = [kind |-> "import", blocks |-> Tail(blocks)]]
  <2>1. ctx' = [ctx EXCEPT ![e] = c1] /\ wire' = [wire EXCEPT ![Peer(e)] = rest]
    BY <1>10 DEF processObjects
  <2>2. c1 = [phase |-> "open", m_state |-> "synchronizing",
              m_needed_objects |-> c.m_needed_objects,
              m_requested_objects |-> c.m_requested_objects,
              m_remote_blockchain_height |-> c.m_remote_blockchain_height,
              m_last_response_height |-> c.m_last_response_height,
              task |-> [kind |-> "import", blocks |-> Tail(blocks)]]
    <3> DEFINE t == [kind |-> "import", blocks |-> Tail(blocks)]
    <3> HIDE DEF t
    <3>1. [c EXCEPT !.task = t]
          = [phase |-> "open", m_state |-> "synchronizing",
             m_needed_objects |-> c.m_needed_objects,
             m_requested_objects |-> c.m_requested_objects,
             m_remote_blockchain_height |-> c.m_remote_blockchain_height,
             m_last_response_height |-> c.m_last_response_height, task |-> t]
      BY Tasked
    <3>2. QED
      BY <3>1 DEF t
  <2>3. ContextOK(c1) /\ c1.phase = "open" /\ c1.task.kind = "import"
    BY Zenon, <2>2 DEF ContextOK, IsContext
  <2>4. /\ wire' = [f \in Ends |-> wire'[f]] /\ wire'[e] = wire[e] /\ wire'[Peer(e)] = rest
        /\ \A f \in Ends \ {e, Peer(e)} : wire'[f] = wire[f]
    BY <1>1, <2>1 DEF LinkInv
  <2> HIDE DEF c1
  <2>5. Pair(Dialler(e), c1, ctx[Peer(e)], wire[e], rest)
    <3>1. CASE Reads(e, "objects") /\ rest = Tail(wire[Peer(e)])
      <4>1. ~Fresh(ctx[e])
        BY Zenon, <1>2, <3>1, UnderWay
      <4>2. wire[Peer(e)] # << >> /\ Head(wire[Peer(e)]).type \in Answers
        BY Zenon, <1>2, <3>1 DEF Reads
      <4>3. QED
        BY Zenon, <1>1, <1>3, <2>3, <3>1, <4>1, <4>2, ImportStarts
    <3>2. CASE ctx[e].task.kind = "import" /\ rest = wire[Peer(e)]
      BY ZenonT(30), <1>1, <1>3, <2>3, <3>2, ImportGoesOn
    <3>3. QED
      BY Zenon, <3>1, <3>2
  <2>6. QED
    BY Zenon, <2>1, <2>4, <2>5, OneEnd, AsideMessage DEF Elsewhere
<1>11. QED
  BY <1>7, <1>8, <1>9, <1>10

LEMMA ImportNextLinks ==
  ASSUME LinkInv, NEW e \in Ends, ImportNext(e) PROVE LinkInv'
<1>1. ContextOK(ctx[e])
  BY PairAt
<1>2. /\ ctx[e].task.kind = "import"
      /\ processObjects(e, ctx[e], node[NodeOf(e)], ctx[e].task.blocks, wire[Peer(e)])
  BY DEF ImportNext
<1>3. ctx[e].phase = "open"
  <2>0. ctx[e].task.kind = "import"
    BY <1>2
  <2>1. ctx[e].task # NoTask
    BY <2>0 DEF NoTask
  <2>2. ctx[e].phase # "closed" /\ ctx[e].phase # "dialing"
    BY Zenon, <1>1, <2>1, Opened DEF ContextOK
  <2>3. QED
    BY <1>1, <2>2 DEF ContextOK, IsContext
<1>4. IsContext(ctx[e]) /\ ctx[e].m_state = "synchronizing"
  BY <1>1, <1>2 DEF ContextOK
<1>5. QED
  BY SMTT(30), <1>2, <1>3, <1>4, ProcessesObjects

\* A context whose height of the peer, and no more, is set.
LEMMA Heard ==
  ASSUME NEW c, IsContext(c), NEW h
  PROVE  [c EXCEPT !.m_remote_blockchain_height = h]
         = [phase |-> c.phase, m_state |-> c.m_state,
            m_needed_objects |-> c.m_needed_objects,
            m_requested_objects |-> c.m_requested_objects,
            m_remote_blockchain_height |-> h,
            m_last_response_height |-> c.m_last_response_height, task |-> c.task]
BY DEF IsContext

LEMMA Stated ==
  ASSUME NEW c, IsContext(c), NEW s
  PROVE  [c EXCEPT !.m_state = s]
         = [phase |-> c.phase, m_state |-> s,
            m_needed_objects |-> c.m_needed_objects,
            m_requested_objects |-> c.m_requested_objects,
            m_remote_blockchain_height |-> c.m_remote_blockchain_height,
            m_last_response_height |-> c.m_last_response_height, task |-> c.task]
BY DEF IsContext

LEMMA handle_response_get_objectsLinks ==
  ASSUME LinkInv, NEW e \in Ends, handle_response_get_objects(e) PROVE LinkInv'
<1> DEFINE n == NodeOf(e)
           m == Msg(e)
           requested == ctx[e].m_requested_objects
           c == [ctx[e] EXCEPT !.m_remote_blockchain_height = m.height]
           c0 == [c EXCEPT !.m_requested_objects = {}]
           nd == updateObservedHeight(e, m.height)
           rest == Tail(wire[Peer(e)])
           first == Len(m.blocks) > 1 /\ m.blocks[1] \in requested /\ m.blocks[2] \in known[n]
<1>1. Reads(e, "objects") /\ "objects" \notin Opening /\ "objects" \in Answers
  BY DEF handle_response_get_objects, Opening, Answers
<1>2. AsLeft(ctx[e]) /\ ctx[e].m_state = "synchronizing" /\ IsContext(ctx[e]) /\ ctx[e].phase = "open"
  BY Zenon, <1>1, UnderWay DEF AsLeft
<1>3. c = [phase |-> "open", m_state |-> "synchronizing",
           m_needed_objects |-> ctx[e].m_needed_objects,
           m_requested_objects |-> ctx[e].m_requested_objects,
           m_remote_blockchain_height |-> m.height,
           m_last_response_height |-> ctx[e].m_last_response_height, task |-> ctx[e].task]
  BY <1>2, Heard
<1>4. IsContext(c) /\ c.phase = "open" /\ c.m_state = "synchronizing"
  BY <1>2, <1>3 DEF IsContext
<1>5. ASSUME NEW s, IsContext(s), NEW nd1,
             Handled(e, [s EXCEPT !.m_state = "shutdown"], nd1, << >>, << >>)
      PROVE  LinkInv'
  <2>1. [s EXCEPT !.m_state = "shutdown"].m_state = "shutdown"
    BY <1>5 DEF IsContext
  <2>2. QED
    BY Zenon, <1>2, <1>5, <2>1, ShutsDown DEF Handled
<1>6. CASE ctx[e].m_last_response_height > m.height
  BY <1>2, <1>5, <1>6 DEF handle_response_get_objects
<1>7. CASE ~(ctx[e].m_last_response_height > m.height) /\ first
  <2>1. Handled(e, Idle(c), nd, << >>, << >>)
    BY <1>7 DEF handle_response_get_objects
  <2> HIDE DEF c, nd, m
  <2>2. Idle(c) = [phase |-> "open", m_state |-> "idle",
                   m_needed_objects |-> << >>, m_requested_objects |-> {},
                   m_remote_blockchain_height |-> c.m_remote_blockchain_height,
                   m_last_response_height |-> c.m_last_response_height,
                   task |-> NoTask]
    BY Zenon, <1>4, Idled
  <2>3. AsLeft(Idle(c)) /\ Idle(c).m_state = "idle"
    BY <2>2 DEF AsLeft, IsContext, Clear, NoTask
  <2>4. Aside(<< >>) /\ IsSeq(<< >>) /\ \A T : ~Has(<< >>, T) /\ Single(<< >>, T)
    BY AsideMessage, EmptyWire, Empty
  <2>5. QED
    BY Zenon, <1>1, <2>1, <2>3, <2>4, Serves
<1>8. CASE ~(ctx[e].m_last_response_height > m.height) /\ ~first /\ Range(m.blocks) # requested
  <2>1. Handled(e, [c EXCEPT !.m_state = "shutdown"], nd, << >>, << >>)
    BY <1>8 DEF handle_response_get_objects
  <2> HIDE DEF c, nd
  <2>2. QED
    BY <1>4, <1>5, <2>1
<1>9. CASE ~(ctx[e].m_last_response_height > m.height) /\ ~first /\ Range(m.blocks) = requested
  <2>1. processObjects(e, c0, nd, m.blocks, rest)
    BY <1>9 DEF handle_response_get_objects
  <2> HIDE DEF c, m
  <2>2. c0 = [phase |-> "open", m_state |-> "synchronizing",
              m_needed_objects |-> ctx[e].m_needed_objects, m_requested_objects |-> {},
              m_remote_blockchain_height |-> m.height,
              m_last_response_height |-> ctx[e].m_last_response_height, task |-> ctx[e].task]
    BY <1>3
  <2> HIDE DEF c0
  <2>3. IsContext(c0) /\ c0.phase = "open" /\ c0.m_state = "synchronizing"
    BY Zenon, <1>2, <2>2 DEF IsContext
  <2>4. QED
    BY Zenon, <1>1, <2>1, <2>3, ProcessesObjects
<1>10. QED
  BY <1>6, <1>7, <1>8, <1>9

LEMMA handle_response_chain_entryLinks ==
  ASSUME LinkInv, NEW e \in Ends, handle_response_chain_entry(e) PROVE LinkInv'
<1> DEFINE n == NodeOf(e)
           m == Msg(e)
           missing(b) == b \notin known[n]
           c == [ctx[e] EXCEPT
                   !.m_remote_blockchain_height = m.total_height,
                   !.m_last_response_height = m.start_height + Len(m.ids) - 1,
                   !.m_needed_objects = @ \o SelectSeq(m.ids, missing)]
           r == request_missing_objects(n, c, node[n], FALSE)
<1>1. Reads(e, "chain_entry") /\ "chain_entry" \notin Opening /\ "chain_entry" \in Answers
  BY DEF handle_response_chain_entry, Opening, Answers
<1>2. AsLeft(ctx[e]) /\ ctx[e].m_state = "synchronizing" /\ IsContext(ctx[e]) /\ ctx[e].phase = "open"
  BY Zenon, <1>1, UnderWay DEF AsLeft
<1>3. CASE m.ids = << >> \/ m.ids[1] \notin known[n]
  <2>1. Handled(e, [ctx[e] EXCEPT !.m_state = "shutdown"], node[n], << >>, << >>)
    BY Zenon, <1>3 DEF handle_response_chain_entry
  <2>2. [ctx[e] EXCEPT !.m_state = "shutdown"].m_state = "shutdown"
    BY <1>2 DEF IsContext
  <2>3. QED
    BY Zenon, <1>2, <2>1, <2>2, ShutsDown DEF Handled
<1>4. CASE ~(m.ids = << >> \/ m.ids[1] \notin known[n])
  <2>1. Handled(e, r.c, r.nd, r.out, << >>)
    BY Zenon, <1>4 DEF handle_response_chain_entry
  <2>2. IsContext(c) /\ c.phase = "open" /\ c.m_state = "synchronizing" /\ c.task = NoTask
    <3> DEFINE h == m.total_height
               l == m.start_height + Len(m.ids) - 1
               o == ctx[e].m_needed_objects \o SelectSeq(m.ids, missing)
    <3>1. c = [ctx[e] EXCEPT !.m_remote_blockchain_height = h,
                             !.m_last_response_height = l, !.m_needed_objects = o]
      OBVIOUS
    <3> HIDE DEF c, h, l, o
    <3>2. c = [phase |-> ctx[e].phase, m_state |-> ctx[e].m_state, m_needed_objects |-> o,
               m_requested_objects |-> ctx[e].m_requested_objects,
               m_remote_blockchain_height |-> h,
               m_last_response_height |-> l, task |-> ctx[e].task]
      BY Zenon, <1>2, <3>1 DEF IsContext
    <3>3. QED
      BY Zenon, <1>2, <3>2 DEF IsContext, AsLeft
  <2> HIDE DEF c
  <2>3. AsLeft(r.c) /\ Asks(r.out) /\ (Has(r.out, Requests) => r.c.m_state = "synchronizing")
    BY Zenon, <2>2, AsksForMissing
  <2> HIDE DEF r
  <2>4. /\ IsSeq(r.out) /\ ~Has(r.out, {"handshake"}) /\ ~Has(r.out, {"handshake_reply"})
        /\ ~Has(r.out, Answers) /\ Single(r.out, Answers) /\ Single(r.out, Requests)
    BY <2>3, NoneIsFew DEF Asks
  <2>5. Aside(<< >>)
    BY AsideMessage
  <2>6. QED
    BY Zenon, <1>1, <2>1, <2>3, <2>4, <2>5, Serves
<1>5. QED
  BY <1>3, <1>4

\* A request is answered, a notification taken, and the context stays.
LEMMA AnswersRequest ==
  ASSUME LinkInv, NEW e \in Ends, NEW type, type \notin Opening, Reads(e, type),
         NEW nd, NEW out, NEW bcast, Aside(bcast), Handled(e, ctx[e], nd, out, bcast),
         \/ Aside(out)
         \/ \E m : out = <<m>> /\ m.type \in Answers /\ type \in Requests
  PROVE  LinkInv'
<1>1. AsLeft(ctx[e]) /\ ctx[e].m_state \in {"normal", "idle", "synchronizing"}
  BY Zenon, UnderWay
<1>2. CASE Aside(out)
  <2>1. /\ IsSeq(out) /\ ~Has(out, {"handshake"}) /\ ~Has(out, {"handshake_reply"})
        /\ ~Has(out, Requests) /\ ~Has(out, Answers)
        /\ Single(out, Answers) /\ Single(out, Requests)
    BY <1>2, NoneIsFew DEF Aside
  <2>2. QED
    BY Zenon, <1>1, <2>1, Serves
<1>3. CASE \E m : out = <<m>> /\ m.type \in Answers /\ type \in Requests
  <2>1. PICK m : out = <<m>> /\ m.type \in Answers /\ type \in Requests
    BY <1>3
  <2>2. /\ m.type \notin {"handshake"} /\ m.type \notin {"handshake_reply"}
        /\ m.type \notin Requests
    BY <2>1 DEF Answers, Requests
  <2>3. /\ IsSeq(out) /\ ~Has(out, {"handshake"}) /\ ~Has(out, {"handshake_reply"})
        /\ ~Has(out, Requests) /\ Single(out, Answers) /\ Single(out, Requests)
    BY <2>1, <2>2, Message
  <2>4. QED
    BY Zenon, <1>1, <2>1, <2>3, Serves
<1>4. QED
  BY <1>2, <1>3

LEMMA handle_request_chainLinks ==
  ASSUME LinkInv, NEW e \in Ends, handle_request_chain(e) PROVE LinkInv'
<1>1. Reads(e, "request_chain") /\ "request_chain" \notin Opening /\ "request_chain" \in Requests
  BY DEF handle_request_chain, Opening, Requests
<1>2. PICK m : /\ Handled(e, ctx[e], node[NodeOf(e)], <<m>>, << >>)
               /\ m.type \in Answers
  BY DEF handle_request_chain, Answers
<1>3. QED
  BY Zenon, <1>1, <1>2, AnswersRequest, AsideMessage

LEMMA handle_request_get_objectsLinks ==
  ASSUME LinkInv, NEW e \in Ends, handle_request_get_objects(e) PROVE LinkInv'
<1>1. Reads(e, "get_objects") /\ "get_objects" \notin Opening /\ "get_objects" \in Requests
  BY DEF handle_request_get_objects, Opening, Requests
<1>2. PICK m : /\ Handled(e, ctx[e], node[NodeOf(e)], <<m>>, << >>)
               /\ m.type \in Answers
  BY DEF handle_request_get_objects, Answers
<1>3. QED
  BY Zenon, <1>1, <1>2, AnswersRequest, AsideMessage

LEMMA handle_notify_new_transactionsLinks ==
  ASSUME LinkInv, NEW e \in Ends, handle_notify_new_transactions(e) PROVE LinkInv'
<1> DEFINE fresh == Msg(e).txs \ pool[NodeOf(e)]
           bcast == IF ctx[e].m_state = "normal" /\ fresh # {} THEN <<NewTxs(fresh)>> ELSE << >>
<1>1. Reads(e, "new_transactions") /\ "new_transactions" \notin Opening
  BY Zenon DEF handle_notify_new_transactions, Opening
<1>2. Handled(e, ctx[e], node[NodeOf(e)], << >>, bcast)
  BY Zenon DEF handle_notify_new_transactions
<1>3. Aside(bcast) /\ Aside(<< >>)
  BY AsideMessage DEF NewTxs
<1> HIDE DEF bcast
<1>4. QED
  BY Zenon, <1>1, <1>2, <1>3, AnswersRequest

LEMMA handleRequestTxPoolLinks ==
  ASSUME LinkInv, NEW e \in Ends, handleRequestTxPool(e) PROVE LinkInv'
<1> DEFINE added == pool[NodeOf(e)] \ Msg(e).txs
           out == IF added # {} THEN <<NewTxs(added)>> ELSE << >>
<1>1. Reads(e, "request_tx_pool") /\ "request_tx_pool" \notin Opening
  BY DEF handleRequestTxPool, Opening
<1>2. Handled(e, ctx[e], node[NodeOf(e)], out, << >>)
  BY DEF handleRequestTxPool
<1>3. Aside(out) /\ Aside(<< >>)
  BY AsideMessage DEF NewTxs
<1> HIDE DEF out
<1>4. QED
  BY Zenon, <1>1, <1>2, <1>3, AnswersRequest

LEMMA TimedSyncLinks ==
  ASSUME LinkInv, NEW e \in Ends, handle_timed_sync(e) \/ handleTimedSyncResponse(e)
  PROVE  LinkInv'
<1> DEFINE data == Msg(e).data
           r == process_payload_sync_data(e, data, FALSE)
<1>1. PICK type, out : /\ type \in {"timed_sync", "timed_sync_reply"} /\ Reads(e, type)
                       /\ Aside(out) /\ Handled(e, r.c, r.nd, out, << >>)
  <2>1. Aside(<< >>) /\ Aside(<<Payload("timed_sync_reply", NodeOf(e))>>)
    BY AsideMessage DEF Payload
  <2>2. CASE handle_timed_sync(e)
    BY Zenon, <2>1, <2>2 DEF handle_timed_sync
  <2>3. CASE handleTimedSyncResponse(e)
    BY Zenon, <2>1, <2>3 DEF handleTimedSyncResponse
  <2>4. QED
    BY Zenon, <2>2, <2>3
<1>2. type \notin Opening
  BY <1>1 DEF Opening
<1>3. AsLeft(ctx[e]) /\ ~Fresh(ctx[e]) /\ ctx[e].phase = "open"
  BY Zenon, <1>1, <1>2, UnderWay DEF AsLeft
<1>4. AsLeft(r.c) /\ (r.c.m_state = "synchronizing" <=> ctx[e].m_state = "synchronizing")
  <2>1. /\ IsContext(ctx[e]) /\ ctx[e].task = NoTask
        /\ (ctx[e].m_state # "synchronizing" => Clear(ctx[e]))
        /\ ctx[e].m_state # "befor_handshake"
    BY Zenon, <1>3 DEF AsLeft, Fresh
  <2>2. FALSE \in BOOLEAN
    OBVIOUS
  <2>3. QED
    BY Zenon, <1>3, <2>1, <2>2, SyncDataContext
<1>5. /\ IsSeq(out) /\ ~Has(out, {"handshake"}) /\ ~Has(out, {"handshake_reply"})
      /\ ~Has(out, Requests) /\ ~Has(out, Answers)
      /\ Single(out, Answers) /\ Single(out, Requests)
  BY <1>1, NoneIsFew DEF Aside
<1>6. Aside(<< >>)
  BY AsideMessage
<1> HIDE DEF r
<1>7. QED
  BY Zenon, <1>1, <1>2, <1>4, <1>5, <1>6, Serves

LEMMA handle_notify_new_blockLinks ==
  ASSUME LinkInv, NEW e \in Ends, handle_notify_new_block(e) PROVE LinkInv'
<1> DEFINE n == NodeOf(e)
           m == Msg(e)
           b == m.block
           c == [ctx[e] EXCEPT !.m_remote_blockchain_height = m.height]
           c0 == [c EXCEPT !.m_state = "synchronizing"]
           nd == updateObservedHeight(e, m.height)
           main == Chain!IsHeavier(b, tip[n])
           switched == main /\ Parent(b) # tip[n]
           out == IF switched THEN <<RequestTxPool(n)>> ELSE << >>
           bcast == IF main THEN <<m>> ELSE << >>
<1>1. Reads(e, "new_block") /\ "new_block" \notin Opening
  BY DEF handle_notify_new_block, Opening
<1>2. /\ AsLeft(ctx[e]) /\ IsContext(ctx[e]) /\ ctx[e].phase = "open" /\ ctx[e].task = NoTask
      /\ ctx[e].m_state \in {"normal", "idle", "synchronizing"}
      /\ (ctx[e].m_state # "synchronizing" => Clear(ctx[e]))
  BY Zenon, <1>1, UnderWay DEF AsLeft
<1>3. c = [phase |-> ctx[e].phase, m_state |-> ctx[e].m_state,
           m_needed_objects |-> ctx[e].m_needed_objects,
           m_requested_objects |-> ctx[e].m_requested_objects,
           m_remote_blockchain_height |-> m.height,
           m_last_response_height |-> ctx[e].m_last_response_height, task |-> ctx[e].task]
  BY <1>2, Heard
<1>4. AsLeft(c) /\ c.m_state = ctx[e].m_state /\ IsContext(c) /\ c.phase = "open" /\ c.task = NoTask
  BY SMTT(30), <1>2, <1>3 DEF IsContext, AsLeft, Clear
<1>5. Aside(<< >>) /\ IsSeq(<< >>) /\ \A T : ~Has(<< >>, T) /\ Single(<< >>, T)
  BY AsideMessage, EmptyWire, Empty
<1>6. CASE c.m_state # "normal" \/ b \in known[n]
  <2>1. Handled(e, c, nd, << >>, << >>)
    BY <1>6 DEF handle_notify_new_block
  <2> HIDE DEF c, nd
  <2>2. QED
    BY <1>1, <1>4, <1>5, <2>1, Serves
<1>7. CASE ~(c.m_state # "normal" \/ b \in known[n]) /\ IsLinked(n, b)
  <2>1. Handled(e, c, nd, out, bcast)
    BY <1>7 DEF handle_notify_new_block
  <2>2. m.type = "new_block"
    BY <1>1 DEF Reads, Msg
  <2>3. Aside(out) /\ Aside(bcast)
    <3>1. RequestTxPool(n).type = "request_tx_pool"
      BY DEF RequestTxPool
    <3>2. QED
      BY <2>2, <3>1, AsideMessage
  <2> HIDE DEF c, nd, out, bcast
  <2>4. /\ IsSeq(out) /\ ~Has(out, {"handshake"}) /\ ~Has(out, {"handshake_reply"})
        /\ ~Has(out, Requests) /\ ~Has(out, Answers)
        /\ Single(out, Answers) /\ Single(out, Requests)
    BY SMTT(30), <2>3, NoneIsFew DEF Aside
  <2>5. QED
    BY Zenon, <1>1, <1>4, <2>1, <2>3, <2>4, Serves
<1>8. CASE ~(c.m_state # "normal" \/ b \in known[n]) /\ ~IsLinked(n, b)
  <2>1. Handled(e, c0, nd, <<RequestChain(n)>>, << >>)
    BY <1>8 DEF handle_notify_new_block
  <2>2. ctx[e].m_state = "normal"
    BY <1>4, <1>8
  <2> HIDE DEF c, nd
  <2>3. c0 = [phase |-> c.phase, m_state |-> "synchronizing",
              m_needed_objects |-> c.m_needed_objects,
              m_requested_objects |-> c.m_requested_objects,
              m_remote_blockchain_height |-> c.m_remote_blockchain_height,
              m_last_response_height |-> c.m_last_response_height, task |-> c.task]
    BY <1>4, Stated
  <2> HIDE DEF c0
  <2>4. AsLeft(c0) /\ c0.m_state = "synchronizing"
    BY <1>4, <2>3 DEF AsLeft, IsContext
  <2>5. RequestChain(n).type = "request_chain"
    BY DEF RequestChain
  <2> DEFINE ask == <<RequestChain(n)>>
  <2>6. Asks(ask)
    BY <2>5, RequestAsks DEF Requests
  <2> HIDE DEF ask
  <2>7. /\ IsSeq(ask) /\ ~Has(ask, {"handshake"}) /\ ~Has(ask, {"handshake_reply"})
        /\ ~Has(ask, Answers) /\ Single(ask, Answers) /\ Single(ask, Requests)
    BY <2>6, NoneIsFew DEF Asks
  <2>8. Handled(e, c0, nd, ask, << >>)
    BY <2>1 DEF ask
  <2>9. QED
    BY <1>1, <1>5, <2>2, <2>4, <2>7, <2>8, Serves
<1>9. QED
  BY <1>6, <1>7, <1>8

\* What other threads post to the dispatcher are blocks and transactions.
SpawnedOK ==
  /\ spawned = [n \in Nodes |-> spawned[n]]
  /\ \A n \in Nodes : IsSeq(spawned[n]) /\ Only(spawned[n], {"new_block", "new_transactions"})

LEMMA RelaysLinks ==
  ASSUME LinkInv, NEW m, Aside(<<m>>), NEW targets, ctx' = ctx,
         \A e \in targets : ctx[e].phase = "open" /\ ctx[e].m_state \in {"normal", "idle", "synchronizing"},
         wire' = [e \in Ends |-> IF e \in targets /\ ctx[Peer(e)].phase # "closed"
                                 THEN Append(wire[e], m) ELSE wire[e]]
  PROVE  LinkInv'
<1>1. ASSUME NEW f \in Ends PROVE Elsewhere(ctx[f], ctx[Peer(f)], wire[f], wire'[f], <<m>>)
  <2>1. ContextOK(ctx[f]) /\ IsSeq(wire[f])
    BY Zenon, PairAt
  <2>2. Append(wire[f], m) = wire[f] \o <<m>>
    BY <2>1, SentOne
  <2>3. CASE f \in targets /\ ctx[Peer(f)].phase # "closed"
    <3>1. ~Fresh(ctx[f])
      BY SMTT(30), <2>1, <2>3 DEF ContextOK, Fresh
    <3>2. QED
      BY <2>2, <2>3, <3>1 DEF Elsewhere
  <2>4. CASE ~(f \in targets /\ ctx[Peer(f)].phase # "closed")
    BY <2>4 DEF Elsewhere
  <2>5. QED
    BY Zenon, <2>3, <2>4
<1>2. QED
  BY Zenon, <1>1, NoEnd

LEMMA timedSyncLinks ==
  ASSUME LinkInv, NEW n \in Nodes, timedSync(n) PROVE LinkInv'
<1> DEFINE targets == {e \in EndsOf(n) : ctx[e].phase = "open"
                                         /\ ctx[e].m_state \in {"normal", "idle"}}
           m == Payload("timed_sync", n)
<1>1. Aside(<<m>>)
  BY AsideMessage DEF Payload
<1>2. /\ ctx' = ctx
      /\ wire' = [e \in Ends |-> IF e \in targets /\ ctx[Peer(e)].phase # "closed"
                                 THEN Append(wire[e], m) ELSE wire[e]]
  BY DEF timedSync
<1>3. \A e \in targets : ctx[e].phase = "open" /\ ctx[e].m_state \in {"normal", "idle", "synchronizing"}
  OBVIOUS
<1> HIDE DEF targets, m
<1>4. QED
  BY Zenon, <1>1, <1>2, <1>3, RelaysLinks

LEMMA externalRelayNotifyToAllLinks ==
  ASSUME LinkInv, SpawnedOK, NEW n \in Nodes, externalRelayNotifyToAll(n)
  PROVE  LinkInv' /\ SpawnedOK'
<1> DEFINE targets == RelayTargets(n, {})
           m == Head(spawned[n])
<1>1. IsSeq(spawned[n]) /\ spawned[n] # << >> /\ Only(spawned[n], {"new_block", "new_transactions"})
  BY DEF SpawnedOK, externalRelayNotifyToAll
<1>2. m.type \in {"new_block", "new_transactions"}
  <2>1. m = spawned[n][1] /\ 1 \in 1 .. Len(spawned[n])
    BY <1>1, Rest, Indices
  <2>2. QED
    BY <1>1, <2>1 DEF Only
<1>3. Aside(<<m>>)
  BY <1>2, AsideMessage
<1>4. /\ ctx' = ctx
      /\ wire' = [e \in Ends |-> IF e \in targets /\ ctx[Peer(e)].phase # "closed"
                                 THEN Append(wire[e], m) ELSE wire[e]]
  BY DEF externalRelayNotifyToAll
<1>5. \A e \in targets : ctx[e].phase = "open" /\ ctx[e].m_state \in {"normal", "idle", "synchronizing"}
  BY DEF RelayTargets
<1> HIDE DEF targets, m
<1>6. LinkInv'
  BY Zenon, <1>3, <1>4, <1>5, RelaysLinks
<1>7. SpawnedOK'
  <2>1. spawned' = [spawned EXCEPT ![n] = Tail(@)]
    BY DEF externalRelayNotifyToAll
  <2>2. IsSeq(Tail(spawned[n])) /\ Only(Tail(spawned[n]), {"new_block", "new_transactions"})
    BY Zenon, <1>1, Rest, Received
  <2>3. QED
    BY Zenon, <2>1, <2>2 DEF SpawnedOK
<1>8. QED
  BY <1>6, <1>7

LEMMA Posted ==
  ASSUME NEW q, IsSeq(q), NEW T, Only(q, T), NEW m, m.type \in T
  PROVE  IsSeq(Append(q, m)) /\ Only(Append(q, m), T)
<1> DEFINE s == Append(q, m)
<1>1. /\ IsSeq(s) /\ Len(s) = Len(q) + 1 /\ Len(q) \in Nat
      /\ (\A i \in 1 .. Len(q) : s[i] = q[i])
      /\ s[Len(q) + 1] = m
  BY Appended, Indices
<1> HIDE DEF s
<1>2. Only(s, T)
  <2> SUFFICES ASSUME NEW i \in 1 .. Len(s) PROVE s[i].type \in T
    BY DEF Only
  <2>1. i \in 1 .. Len(q) \/ i = Len(q) + 1
    BY <1>1
  <2>2. QED
    BY <1>1, <2>1 DEF Only
<1>3. QED
  BY <1>1, <1>2 DEF s

LEMMA LinksInit == Init => LinkInv /\ SpawnedOK
<1> SUFFICES ASSUME Init PROVE LinkInv /\ SpawnedOK
  OBVIOUS
<1>1. /\ ctx = [e \in Ends |-> Closed] /\ wire = [e \in Ends |-> << >>]
      /\ spawned = [n \in Nodes |-> << >>]
  BY DEF Init
<1>2. ASSUME NEW e \in Ends
      PROVE  EndOK(Dialler(e), ctx[e], ctx[Peer(e)], wire[e], wire[Peer(e)])
  <2>1. ctx[e] = Closed /\ ctx[Peer(e)] = Closed /\ wire[e] = << >> /\ wire[Peer(e)] = << >>
    BY <1>1, Geometry
  <2>2. ContextOK(Closed) /\ Closed.phase = "closed" /\ IsSeq(<< >>)
    BY Opened, Empty
  <2>3. QED
    BY Zenon, <2>1, <2>2, EmptyWire DEF EndOK, HandshakeOK
<1>3. LinkInv
  BY <1>1, <1>2 DEF LinkInv
<1>4. SpawnedOK
  BY <1>1, EmptyWire, Empty DEF SpawnedOK
<1>5. QED
  BY <1>3, <1>4

LEMMA connectionHandlerLinks ==
  ASSUME LinkInv, SpawnedOK, NEW e \in Ends, connectionHandler(e) PROVE LinkInv' /\ SpawnedOK'
<1>1. ASSUME spawned' = spawned PROVE SpawnedOK'
  BY <1>1 DEF SpawnedOK
<1>2. CASE handle_handshake(e)
  BY Zenon, <1>1, <1>2, handle_handshakeLinks DEF handle_handshake
<1>3. CASE HandshakeReply(e)
  BY <1>1, <1>3, HandshakeReplyLinks DEF HandshakeReply
<1>4. CASE HandshakeDone(e)
  BY Zenon, <1>1, <1>4, HandshakeDoneLinks DEF HandshakeDone
<1>5. CASE handle_timed_sync(e)
  BY Zenon, <1>1, <1>5, TimedSyncLinks DEF handle_timed_sync
<1>6. CASE handleTimedSyncResponse(e)
  BY Zenon, <1>1, <1>6, TimedSyncLinks DEF handleTimedSyncResponse
<1>7. CASE handle_request_chain(e)
  BY Zenon, <1>1, <1>7, handle_request_chainLinks DEF handle_request_chain
<1>8. CASE handle_response_chain_entry(e)
  BY Zenon, <1>1, <1>8, handle_response_chain_entryLinks DEF handle_response_chain_entry
<1>9. CASE handle_request_get_objects(e)
  BY Zenon, <1>1, <1>9, handle_request_get_objectsLinks DEF handle_request_get_objects
<1>10. CASE handle_response_get_objects(e)
  BY Zenon, <1>1, <1>10, handle_response_get_objectsLinks DEF handle_response_get_objects
<1>11. CASE ImportNext(e)
  BY Zenon, <1>1, <1>11, ImportNextLinks DEF ImportNext
<1>12. CASE handle_notify_new_block(e)
  BY Zenon, <1>1, <1>12, handle_notify_new_blockLinks DEF handle_notify_new_block
<1>13. CASE handle_notify_new_transactions(e)
  BY Zenon, <1>1, <1>13, handle_notify_new_transactionsLinks DEF handle_notify_new_transactions
<1>14. CASE handleRequestTxPool(e)
  BY Zenon, <1>1, <1>14, handleRequestTxPoolLinks DEF handleRequestTxPool
<1>15. CASE ReadEof(e)
  BY <1>1, <1>15, Closes DEF ReadEof
<1>16. QED
  BY <1>2, <1>3, <1>4, <1>5, <1>6, <1>7, <1>8, <1>9, <1>10, <1>11, <1>12, <1>13,
     <1>14, <1>15 DEF connectionHandler

LEMMA NextLinks ==
  ASSUME LinkInv, SpawnedOK, [Next]_vars PROVE LinkInv' /\ SpawnedOK'
<1>1. ASSUME spawned' = spawned PROVE SpawnedOK'
  BY <1>1 DEF SpawnedOK
<1>2. ASSUME ctx' = ctx, wire' = wire PROVE LinkInv'
  BY <1>2 DEF LinkInv
<1>3. ASSUME NEW e \in Ends, connectionHandler(e) PROVE LinkInv' /\ SpawnedOK'
  BY <1>3, connectionHandlerLinks
<1>4. ASSUME NEW e \in Ends, DialFails(e) PROVE LinkInv' /\ SpawnedOK'
  BY Zenon, <1>1, <1>4, DialFailsLinks DEF DialFails
<1>5. ASSUME NEW e \in Ends, interrupt(e) PROVE LinkInv' /\ SpawnedOK'
  BY <1>1, <1>5, Closes DEF interrupt
<1>6. ASSUME NEW l \in Links, Dial(l) PROVE LinkInv' /\ SpawnedOK'
  BY Zenon, <1>1, <1>6, DialLinks DEF Dial
<1>7. ASSUME NEW n \in Nodes, timedSync(n) PROVE LinkInv' /\ SpawnedOK'
  BY Zenon, <1>1, <1>7, timedSyncLinks DEF timedSync
<1>8. ASSUME NEW n \in Nodes, externalRelayNotifyToAll(n) PROVE LinkInv' /\ SpawnedOK'
  BY <1>8, externalRelayNotifyToAllLinks
<1>9. ASSUME NEW n \in Nodes, NEW b \in Blocks, handle_block_found(n, b)
      PROVE  LinkInv' /\ SpawnedOK'
  <2>1. LinkInv'
    BY <1>2, <1>9 DEF handle_block_found
  <2> DEFINE m == NewBlock(b, Len(ancestry[b]) + 1)
  <2>2. m.type \in {"new_block", "new_transactions"}
    BY DEF NewBlock
  <2>3. spawned' = [spawned EXCEPT ![n] = Append(@, m)] \/ spawned' = spawned
    BY Zenon, <1>9 DEF handle_block_found
  <2> HIDE DEF m
  <2> DEFINE s == Append(spawned[n], m)
  <2>4. spawned' = [spawned EXCEPT ![n] = s] \/ spawned' = spawned
    BY <2>3
  <2>5. IsSeq(s) /\ Only(s, {"new_block", "new_transactions"})
    BY <2>2, Posted DEF SpawnedOK
  <2> HIDE DEF s
  <2>6. SpawnedOK'
    BY <2>4, <2>5 DEF SpawnedOK
  <2>7. QED
    BY <2>1, <2>6
<1>10. ASSUME NEW n \in Nodes, NEW t \in Txs, relay_transactions(n, t)
       PROVE  LinkInv' /\ SpawnedOK'
  <2>1. LinkInv'
    BY <1>2, <1>10 DEF relay_transactions
  <2> DEFINE m == NewTxs({t})
  <2>2. m.type \in {"new_block", "new_transactions"}
    BY DEF NewTxs
  <2>3. spawned' = [spawned EXCEPT ![n] = Append(@, m)]
    BY <1>10 DEF relay_transactions
  <2> HIDE DEF m
  <2> DEFINE s == Append(spawned[n], m)
  <2>4. spawned' = [spawned EXCEPT ![n] = s]
    BY <2>3
  <2>5. IsSeq(s) /\ Only(s, {"new_block", "new_transactions"})
    BY <2>2, Posted DEF SpawnedOK
  <2> HIDE DEF s
  <2>6. SpawnedOK'
    BY <2>4, <2>5 DEF SpawnedOK
  <2>7. QED
    BY <2>1, <2>6
<1>11. CASE UNCHANGED vars
  BY <1>1, <1>2, <1>11 DEF vars
<1>12. QED
  BY <1>3, <1>4, <1>5, <1>6, <1>7, <1>8, <1>9, <1>10, <1>11 DEF Next

\* Under every interleaving of the handlers, lost connections and new dials, the
\* two contexts and the two wires of every link fit each other (connectionHandler
\* of NetNode, the handlers of CryptoNoteProtocolHandler), and what other threads
\* hand to the dispatcher are blocks and transactions.
THEOREM LinksAreInvariant == Spec => [](LinkInv /\ SpawnedOK)
<1>1. Init => LinkInv /\ SpawnedOK
  BY LinksInit
<1>2. LinkInv /\ SpawnedOK /\ [Next]_vars => (LinkInv /\ SpawnedOK)'
  BY NextLinks
<1>3. QED
  BY <1>1, <1>2, PTL DEF Spec

\* The assertions of start_sync: a connection that is not synchronizing has no
\* needed and no requested objects, so that it may start to synchronise.
THEOREM ListsAreClearInvariant == Spec => []ListsAreClear
<1>1. LinkInv => ListsAreClear
  BY Zenon DEF LinkInv, EndOK, ContextOK, Clear, ListsAreClear
<1>2. QED
  BY <1>1, LinksAreInvariant, PTL
=============================================================================
