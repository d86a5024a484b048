-------------------------- MODULE WebSocketProofs --------------------------
(***************************************************************************)
(* Proofs about WebSocketClient, for every number of frames and every      *)
(* bound of the queue and of a message: ReceiveText() returns only whole   *)
(* messages of the peer, in order, and skips only what the bound dropped.  *)
(*                                                                         *)
(* The argument: the frames of all messages are numbered in the order      *)
(* sent, and the wire holds the cells of consecutive frames.  What the     *)
(* client holds is a number of whole messages and the start of the next    *)
(* one, and exactly the frames from the next one on the wire on make up    *)
(* the rest (ReadOK).  A frame taken from the wire is then the one that    *)
(* continues the message held, or is no content.  A client that has lost   *)
(* its place is closed_, and nothing is read from it any more, except by   *)
(* KodiClient on the host: from then on only the bounds are kept           *)
(* (FailedInv).                                                            *)
(***************************************************************************)
EXTENDS WebSocketClient, TLAPS

-----------------------------------------------------------------------------
(* The inductive invariant *)

Frames == [f : Nat, op : Opcodes, fin : BOOLEAN, len : {0, 1}]
Cells == [part : {"head", "body"}, f : Frames]
Halves == {<<>>} \cup {<<g>> : g \in Frames}
Open == peer_sends \in {"message", "cut"}

WsTypes ==
    /\ ws_client \in WsClients
    /\ handle \in {"new", "connecting", "open", "closed"}
    /\ ws_pc \in {"idle", "first_byte", "rest"}
    /\ connect_result \in {"none", "pending", "succeeded", "failed"}
    /\ library \in {"off", "on", "down"} /\ header \in Frames
    /\ peer_sends \in {"idle", "message", "cut", "closed"}
    /\ frames_used \in 0..MaxWsFrames /\ returned \in Nat

WsQueues ==
    /\ partial \in Seq(Nat) /\ Len(partial) <= MaxMessageFrames
    /\ ws_queue \in Seq(Nat) /\ Len(ws_queue) <= MaxQueuedMessages
    /\ sent \in Seq(Seq(Nat)) /\ wire \in Seq(Cells) /\ half_frame \in Halves

\* The messages of the peer so far: the numbers of their frames, in order.
\* All but the last are whole, and that one unless it is open.
WholeIn(n, msgs, open) == n < Len(msgs) \/ ~open

Shape(msgs) ==
    /\ Len(msgs) \in Nat
    /\ \A n \in 1..Len(msgs) :
          /\ Len(msgs[n]) \in Nat
          /\ \A i \in 1..Len(msgs[n]) : msgs[n][i] \in Nat

MessagesOK(msgs, open, used) ==
    /\ Shape(msgs) /\ Len(msgs) <= used
    /\ \A n \in 1..Len(msgs) : \A i \in 1..Len(msgs[n]) : msgs[n][i] <= used
    /\ \A n, m \in 1..Len(msgs) : \A i \in 1..Len(msgs[n]), j \in 1..Len(msgs[m]) :
          n < m \/ (n = m /\ i < j) => msgs[n][i] < msgs[m][j]
    /\ \A n \in 1..Len(msgs) : WholeIn(n, msgs, open) => Len(msgs[n]) > 0

SentInv == /\ MessagesOK(sent, Open, frames_used)
           /\ peer_sends = "message" => Len(sent) > 0

\* A frame of content belongs to a message, and ends it exactly if it has FIN.
FrameFits(g, msgs, open) ==
    IF g.op = "text" /\ g.len = 1
    THEN \E n \in 1..Len(msgs) : \E i \in 1..Len(msgs[n]) :
            msgs[n][i] = g.f /\ (g.fin <=> i = Len(msgs[n]) /\ WholeIn(n, msgs, open))
    ELSE /\ ~(g.op = "text" /\ g.fin)
         /\ \A n \in 1..Len(msgs) : \A i \in 1..Len(msgs[n]) : msgs[n][i] # g.f

\* The wire holds the cells of consecutive frames, up to one half sent.
Follows(c, d) == IF c.part = "head" THEN d.part = "body" /\ d.f = c.f
                                    ELSE d.part = "head" /\ d.f.f = c.f.f + 1

WireOK(w, half, used, msgs, open) ==
    /\ \A i \in 1..Len(w) : w[i].f.f <= used /\ FrameFits(w[i].f, msgs, open)
    /\ \A i \in 1..Len(w) : i + 1 <= Len(w) => Follows(w[i], w[i + 1])
    /\ half # <<>> => half[1].f = used /\ FrameFits(half[1], msgs, open)
    /\ w # <<>> =>
          IF half # <<>> THEN w[Len(w)].part = "head" /\ w[Len(w)].f = half[1]
                         ELSE w[Len(w)].part = "body" /\ w[Len(w)].f.f = used

WireInv == WireOK(wire, half_frame, frames_used, sent, Open)

\* The first frame whose rest has not been read.
NextOn(w, half, used) == IF w # <<>> THEN w[1].f.f
                         ELSE IF half # <<>> THEN half[1].f ELSE used + 1

NextFrame == NextOn(wire, half_frame, frames_used)

\* What was read is `done' messages and `content' of the one after them, and
\* the frames from `next' on hold the rest.
ReadOK(done, content, next, msgs, open) ==
    /\ done \in 0..Len(msgs)
    /\ \A n \in 1..done : WholeIn(n, msgs, open) /\ \A i \in 1..Len(msgs[n]) : msgs[n][i] < next
    /\ Len(content) > 0 => done < Len(msgs)
    /\ done < Len(msgs) =>
          /\ Len(content) <= Len(msgs[done + 1])
          /\ Len(content) = Len(msgs[done + 1]) => ~WholeIn(done + 1, msgs, open)
          /\ \A i \in 1..Len(content) : content[i] = msgs[done + 1][i] /\ content[i] < next
          /\ \A i \in 1..Len(msgs[done + 1]) : i > Len(content) => msgs[done + 1][i] >= next
    /\ \A n \in 1..Len(msgs) : n > done + 1 => \A i \in 1..Len(msgs[n]) : msgs[n][i] >= next

Usable == handle # "closed" /\ ~closed_
Assembled == IF ws_queue = <<>> THEN returned ELSE ws_queue[Len(ws_queue)]
Progress == IF Host /\ ws_pc = "idle" THEN <<>> ELSE partial

ReadInv == Usable => ReadOK(Assembled, Progress, NextFrame, sent, Open)

\* Where in a frame the host stands; nothing reads before Connect().
PlaceInv ==
    /\ handle = "new" => ~closed_ /\ library = "off" /\ ws_pc = "idle"
    /\ library = "on" => handle \in {"connecting", "open"}
    /\ Firmware => ws_pc = "idle"
    /\ Host => /\ ws_queue = <<>>
               /\ ws_pc # "idle" => handle = "open" /\ ~closed_

HostInv ==
    Host => /\ Usable /\ ws_pc # "rest" =>
                  IF wire = <<>> THEN half_frame = <<>> ELSE wire[1].part = "head"
            /\ ws_pc = "rest" =>
                  IF wire = <<>> THEN half_frame = <<header>>
                                 ELSE wire[1].part = "body" /\ wire[1].f = header

\* The queue: in order, after what was returned, with nothing missing that
\* the bound did not drop.
QueueOK(q, last, count, lost) ==
    /\ last <= count
    /\ \A i \in 1..Len(q) : last < q[i] /\ q[i] <= count
    /\ \A i, j \in 1..Len(q) : i < j => q[i] < q[j]
    /\ \A i \in 1..Len(q) : \A k \in last + 1..q[i] :
          k \in lost \/ \E j \in 1..Len(q) : q[j] = k

QueueInv == QueueOK(ws_queue, returned, Len(sent), dropped)

WsInv == /\ WsTypes /\ closed_ \in BOOLEAN /\ WsQueues /\ SentInv /\ WireInv /\ ReadInv
         /\ PlaceInv /\ HostInv /\ QueueInv

\* What is left of it once KodiClient reads a host client that has failed.
FailedInv ==
    /\ ReadsFailed /\ ws_client \in WsClients /\ handle \in {"connecting", "open", "closed"}
    /\ ws_pc \in {"idle", "first_byte", "rest"}
    /\ connect_result \in {"none", "pending", "succeeded", "failed"}
    /\ library \in {"off", "on", "down"} /\ header \in Frames /\ frames_used \in Nat
    /\ partial \in Seq(Nat) /\ Len(partial) <= MaxMessageFrames /\ ws_queue = <<>>
    /\ wire \in Seq(Cells) /\ half_frame \in Halves

ClientInv == FailedInv \/ (WsInv /\ ~ReadsFailed)

-----------------------------------------------------------------------------
\* How the peer's messages grow by frame k: it is put behind everything, into
\* the open message or a new one.
Grows(msgs, open, msgs2, open2, k) ==
    /\ Len(msgs) <= Len(msgs2) /\ Len(msgs2) <= Len(msgs) + 1
    /\ \A n \in 1..Len(msgs) :
          /\ Len(msgs[n]) <= Len(msgs2[n])
          /\ \A i \in 1..Len(msgs[n]) : msgs2[n][i] = msgs[n][i]
    /\ \A n \in 1..Len(msgs2) : \A i \in 1..Len(msgs2[n]) :
          \/ n <= Len(msgs) /\ i <= Len(msgs[n])
          \/ msgs2[n][i] = k
    /\ \A n \in 1..Len(msgs) :
          IF WholeIn(n, msgs, open)
          THEN WholeIn(n, msgs2, open2) /\ Len(msgs2[n]) = Len(msgs[n])
          ELSE Len(msgs2[n]) > Len(msgs[n]) \/ ~WholeIn(n, msgs2, open2)

\* A frame that is not content adds nothing to the peer's messages.
LEMMA GrowsByNone ==
    ASSUME NEW msgs, NEW open \in BOOLEAN, NEW used \in Nat,
           MessagesOK(msgs, open, used)
    PROVE  Grows(msgs, open, msgs, open, used + 1) /\ MessagesOK(msgs, open, used + 1)
  <1>1. Shape(msgs)
    BY DEF MessagesOK
  <1>2. Grows(msgs, open, msgs, open, used + 1)
    BY <1>1 DEF Grows, Shape, WholeIn
  <1>3. MessagesOK(msgs, open, used + 1)
    BY <1>1 DEF MessagesOK, Shape
  <1>. QED  BY <1>2, <1>3

\* The first frame of a message, which may be empty, starts a new one.
LEMMA GrowsByMessage ==
    ASSUME NEW msgs, NEW open \in BOOLEAN, NEW used \in Nat,
           MessagesOK(msgs, FALSE, used), NEW r, NEW add,
           Len(r) = Len(msgs) + 1, r[Len(msgs) + 1] = add,
           \A n \in 1..Len(msgs) : r[n] = msgs[n],
           Len(add) \in 0..1, Len(add) = 0 => open, Len(add) = 1 => add[1] = used + 1
    PROVE  Grows(msgs, FALSE, r, open, used + 1) /\ MessagesOK(r, open, used + 1)
  <1>1. Shape(msgs)
    BY DEF MessagesOK
  <1>2. \A n \in 1..Len(r) : \/ n \in 1..Len(msgs) /\ r[n] = msgs[n]
                             \/ n = Len(msgs) + 1 /\ r[n] = add
    BY <1>1 DEF Shape
  <1>3. \A n \in 1..Len(msgs) : n \in 1..Len(r) /\ WholeIn(n, r, open) /\ WholeIn(n, msgs, FALSE)
    BY <1>1 DEF Shape, WholeIn
  <1>4. Grows(msgs, FALSE, r, open, used + 1)
    <2>1. Len(msgs) \in Nat /\ \A n \in 1..Len(msgs) : Len(msgs[n]) \in Nat
      BY <1>1 DEF Shape
    <2>2. Len(msgs) <= Len(r) /\ Len(r) <= Len(msgs) + 1
      BY <2>1
    <2>3. \A n \in 1..Len(msgs) : Len(msgs[n]) <= Len(r[n])
      BY <2>1
    <2>4. ASSUME NEW n \in 1..Len(r), NEW i \in 1..Len(r[n])
          PROVE  (n <= Len(msgs) /\ i <= Len(msgs[n])) \/ r[n][i] = used + 1
      <3>1. CASE n \in 1..Len(msgs) /\ r[n] = msgs[n]
        BY <2>1, <3>1
      <3>2. CASE r[n] = add
        BY <3>2
      <3>. QED  BY <1>2, <3>1, <3>2
    <2>. QED  BY <1>3, <2>2, <2>3, <2>4 DEF Grows
  <1>5. \A n \in 1..Len(r) : \A i \in 1..Len(r[n]) :
           \/ n \in 1..Len(msgs) /\ r[n] = msgs[n] /\ r[n][i] <= used /\ r[n][i] \in Nat
           \/ n = Len(msgs) + 1 /\ i = 1 /\ r[n][i] = used + 1
    <2>1. SUFFICES ASSUME NEW n \in 1..Len(r), NEW i \in 1..Len(r[n])
          PROVE  \/ n \in 1..Len(msgs) /\ r[n] = msgs[n] /\ r[n][i] <= used /\ r[n][i] \in Nat
                 \/ n = Len(msgs) + 1 /\ i = 1 /\ r[n][i] = used + 1
      OBVIOUS
    <2>2. CASE n \in 1..Len(msgs) /\ r[n] = msgs[n]
      BY <1>1, <2>2 DEF MessagesOK, Shape
    <2>3. CASE n = Len(msgs) + 1 /\ r[n] = add
      <3>1. Len(r[n]) = Len(add) /\ r[n][i] = add[i]
        BY <2>3, Zenon
      <3>2. i = 1 /\ Len(add) = 1
        BY <3>1
      <3>. QED  BY <2>3, <3>1, <3>2
    <2>. QED  BY <1>2, <2>2, <2>3
  <1>6. Shape(r)
    BY <1>1, <1>2, <1>5 DEF Shape
  <1>7. Len(r) <= used + 1 /\ \A n \in 1..Len(r) : WholeIn(n, r, open) => Len(r[n]) > 0
    BY <1>1, <1>2, <1>3 DEF MessagesOK, Shape, WholeIn
  <1>8. ASSUME NEW n \in 1..Len(r), NEW m \in 1..Len(r), NEW i \in 1..Len(r[n]),
               NEW j \in 1..Len(r[m]), n < m \/ (n = m /\ i < j)
        PROVE  r[n][i] < r[m][j]
    <2>1. CASE m \in 1..Len(msgs) /\ r[m] = msgs[m]
      <3>1. n \in 1..Len(msgs) /\ r[n] = msgs[n]
        BY <1>1, <1>8, <2>1 DEF Shape
      <3>. QED  BY <1>8, <2>1, <3>1 DEF MessagesOK
    <2>2. CASE m = Len(msgs) + 1
      <3>1. j = 1 /\ r[m][j] = used + 1
        BY <1>1, <1>5, <2>2 DEF Shape
      <3>2. n \in 1..Len(msgs)
        BY <1>1, <1>2, <1>5, <1>8, <2>2, <3>1, <1>6 DEF Shape
      <3>. QED  BY <1>1, <1>5, <3>1, <3>2 DEF Shape
    <2>. QED  BY <1>2, <2>1, <2>2
  <1>9. \A n \in 1..Len(r) : \A i \in 1..Len(r[n]) : r[n][i] <= used + 1
    BY <1>5
  <1>. QED  BY <1>4, <1>6, <1>7, <1>8, <1>9 DEF MessagesOK

\* A later frame continues the message that is open.
LEMMA GrowsByFragment ==
    ASSUME NEW msgs, NEW open \in BOOLEAN, NEW used \in Nat,
           MessagesOK(msgs, TRUE, used), NEW L \in Nat, L = Len(msgs), L > 0, NEW r,
           Len(r) = L, \A n \in 1..L : n # L => r[n] = msgs[n],
           Len(r[L]) = Len(msgs[L]) + 1, r[L][Len(msgs[L]) + 1] = used + 1,
           \A i \in 1..Len(msgs[L]) : r[L][i] = msgs[L][i]
    PROVE  Grows(msgs, TRUE, r, open, used + 1) /\ MessagesOK(r, open, used + 1)
  <1>1. Shape(msgs) /\ L \in 1..L /\ Len(msgs[L]) \in Nat
    BY DEF MessagesOK, Shape
  <1>2. \A n \in 1..L : \A i \in 1..Len(msgs[n]) : r[n][i] = msgs[n][i]
    BY <1>1
  <1>3. \A n \in 1..L : Len(r[n]) = IF n = L THEN Len(msgs[n]) + 1 ELSE Len(msgs[n])
    BY <1>1
  <1>4. \A n \in 1..L : \A i \in 1..Len(r[n]) :
           \/ i \in 1..Len(msgs[n]) /\ r[n][i] = msgs[n][i]
           \/ n = L /\ i = Len(msgs[L]) + 1 /\ r[n][i] = used + 1
    BY <1>1, <1>2, <1>3 DEF Shape
  <1>5. \A n \in 1..L : WholeIn(n, msgs, TRUE) <=> n # L
    BY <1>1 DEF WholeIn
  <1>6. \A n \in 1..L : n # L => WholeIn(n, r, open)
    BY <1>1 DEF WholeIn
  <1>7. Grows(msgs, TRUE, r, open, used + 1)
    <2>1. \A n \in 1..L : Len(msgs[n]) <= Len(r[n]) /\ Len(msgs[n]) \in Nat
      BY <1>1, <1>3 DEF Shape
    <2>2. \A n \in 1..L : \A i \in 1..Len(r[n]) : i <= Len(msgs[n]) \/ r[n][i] = used + 1
      BY <1>4, <2>1
    <2>3. \A n \in 1..L : n = L => Len(r[n]) > Len(msgs[n])
      BY <1>3, <2>1
    <2>4. \A n \in 1..L : IF WholeIn(n, msgs, TRUE)
                           THEN WholeIn(n, r, open) /\ Len(r[n]) = Len(msgs[n])
                           ELSE Len(r[n]) > Len(msgs[n]) \/ ~WholeIn(n, r, open)
      BY <1>3, <1>5, <1>6, <2>3
    <2>5. Len(msgs) <= Len(r) /\ Len(r) <= Len(msgs) + 1
      OBVIOUS
    <2>6. \A n \in 1..Len(r) : \A i \in 1..Len(r[n]) :
             (n <= Len(msgs) /\ i <= Len(msgs[n])) \/ r[n][i] = used + 1
      BY <2>2
    <2>7. /\ \A n \in 1..Len(msgs) : /\ Len(msgs[n]) <= Len(r[n])
                                     /\ \A i \in 1..Len(msgs[n]) : r[n][i] = msgs[n][i]
          /\ \A n \in 1..Len(msgs) : IF WholeIn(n, msgs, TRUE)
                           THEN WholeIn(n, r, open) /\ Len(r[n]) = Len(msgs[n])
                           ELSE Len(r[n]) > Len(msgs[n]) \/ ~WholeIn(n, r, open)
      BY <1>2, <2>1, <2>4
    <2>. QED  BY <2>5, <2>6, <2>7, Zenon DEF Grows
  <1>8. \A n \in 1..L : \A i \in 1..Len(r[n]) : r[n][i] \in Nat /\ r[n][i] <= used + 1
    <2>1. \A n \in 1..L : \A i \in 1..Len(msgs[n]) : msgs[n][i] \in Nat /\ msgs[n][i] <= used
      BY <1>1 DEF MessagesOK, Shape
    <2>2. ASSUME NEW n \in 1..L, NEW i \in 1..Len(r[n])
          PROVE  r[n][i] \in Nat /\ r[n][i] <= used + 1
      <3>1. CASE i \in 1..Len(msgs[n]) /\ r[n][i] = msgs[n][i]
        BY <2>1, <3>1
      <3>2. CASE r[n][i] = used + 1
        BY <3>2
      <3>. QED  BY <1>4, <3>1, <3>2
    <2>. QED  BY <2>2
  <1>9. Shape(r)
    <2>1. \A n \in 1..L : Len(msgs[n]) \in Nat
      BY <1>1 DEF Shape
    <2>2. \A n \in 1..L : Len(r[n]) \in Nat
      BY <1>3, <2>1
    <2>. QED  BY <1>8, <2>2 DEF Shape
  <1>10. ASSUME NEW n \in 1..L, NEW m \in 1..L, NEW i \in 1..Len(r[n]),
                NEW j \in 1..Len(r[m]), n < m \/ (n = m /\ i < j)
         PROVE  r[n][i] < r[m][j]
    <2>1. i \in 1..Len(msgs[n]) /\ r[n][i] = msgs[n][i]
      BY <1>1, <1>3, <1>4, <1>10 DEF Shape
    <2>2. CASE j \in 1..Len(msgs[m]) /\ r[m][j] = msgs[m][j]
      BY <1>10, <2>1, <2>2 DEF MessagesOK
    <2>3. CASE r[m][j] = used + 1
      <3>1. msgs[n][i] \in Nat /\ msgs[n][i] <= used
        BY <1>1, <2>1 DEF MessagesOK, Shape
      <3>. QED  BY <2>1, <2>3, <3>1
    <2>. QED  BY <1>4, <2>2, <2>3
  <1>11. \A n \in 1..L : WholeIn(n, r, open) => Len(r[n]) > 0
    <2>1. \A n \in 1..L : n # L => Len(msgs[n]) > 0
      BY <1>5 DEF MessagesOK
    <2>. QED  BY <1>1, <1>3, <2>1
  <1>12. Len(r) <= used + 1
    BY DEF MessagesOK
  <1>. QED  BY <1>7, <1>8, <1>9, <1>10, <1>11, <1>12 DEF MessagesOK

-----------------------------------------------------------------------------
\* A frame on the wire keeps its place when the messages grow.
LEMMA FrameStays ==
    ASSUME NEW msgs, NEW open, NEW msgs2, NEW open2, NEW k \in Nat, NEW g \in Frames,
           Shape(msgs), Shape(msgs2), Grows(msgs, open, msgs2, open2, k),
           g.f < k, FrameFits(g, msgs, open)
    PROVE  FrameFits(g, msgs2, open2)
  <1>1. CASE g.op = "text" /\ g.len = 1
    <2>0. PICK n \in 1..Len(msgs) : \E i \in 1..Len(msgs[n]) :
             msgs[n][i] = g.f /\ (g.fin <=> i = Len(msgs[n]) /\ WholeIn(n, msgs, open))
      BY <1>1 DEF FrameFits
    <2>1. PICK i \in 1..Len(msgs[n]) :
             msgs[n][i] = g.f /\ (g.fin <=> i = Len(msgs[n]) /\ WholeIn(n, msgs, open))
      BY <2>0
    <2>2. Len(msgs[n]) \in Nat /\ n \in 1..Len(msgs2) /\ Len(msgs2[n]) \in Nat
      BY DEF Shape, Grows
    <2>3. i \in 1..Len(msgs2[n]) /\ msgs2[n][i] = g.f
      BY <2>1, <2>2 DEF Grows
    <2>4. IF WholeIn(n, msgs, open)
          THEN WholeIn(n, msgs2, open2) /\ Len(msgs2[n]) = Len(msgs[n])
          ELSE Len(msgs2[n]) > Len(msgs[n]) \/ ~WholeIn(n, msgs2, open2)
      BY DEF Grows
    <2>5. g.fin <=> i = Len(msgs2[n]) /\ WholeIn(n, msgs2, open2)
      BY <2>1, <2>2, <2>4
    <2>. QED  BY <1>1, <2>2, <2>3, <2>5 DEF FrameFits
  <1>2. CASE ~(g.op = "text" /\ g.len = 1)
    <2>1. g.f \in Nat /\ g.f # k
      BY DEF Frames
    <2>2. ~(g.op = "text" /\ g.fin) /\ \A n \in 1..Len(msgs) : \A i \in 1..Len(msgs[n]) : msgs[n][i] # g.f
      BY <1>2 DEF FrameFits
    <2>3. ASSUME NEW n \in 1..Len(msgs2), NEW i \in 1..Len(msgs2[n])
          PROVE  msgs2[n][i] # g.f
      <3>1. CASE n <= Len(msgs) /\ i <= Len(msgs[n])
        <4>1. n \in 1..Len(msgs) /\ i \in 1..Len(msgs[n])
          BY <3>1 DEF Shape
        <4>. QED  BY <2>2, <4>1 DEF Grows
      <3>2. CASE msgs2[n][i] = k
        BY <2>1, <3>2
      <3>. QED  BY <3>1, <3>2 DEF Grows
    <2>. QED  BY <1>2, <2>2, <2>3 DEF FrameFits
  <1>. QED  BY <1>1, <1>2

\* So does what was read, if the new frame is not before the next one.
LEMMA ReadGrows ==
    ASSUME NEW msgs, NEW open, NEW msgs2, NEW open2, NEW k \in Nat, NEW used \in Nat,
           Shape(msgs), MessagesOK(msgs2, open2, used), Grows(msgs, open, msgs2, open2, k),
           NEW done \in Nat, NEW content \in Seq(Nat), NEW next \in Nat, next <= k,
           ReadOK(done, content, next, msgs, open)
    PROVE  ReadOK(done, content, next, msgs2, open2)
  <1> DEFINE c == Len(content)
  <1>1. c \in Nat
    OBVIOUS
  <1>2. /\ Shape(msgs2) /\ Len(msgs) \in Nat /\ Len(msgs2) \in Nat
        /\ Len(msgs) <= Len(msgs2) /\ Len(msgs2) <= Len(msgs) + 1
        /\ \A n \in 1..Len(msgs) : n \in 1..Len(msgs2) /\ Len(msgs[n]) \in Nat
        /\ \A n \in 1..Len(msgs2) : Len(msgs2[n]) \in Nat
    BY DEF MessagesOK, Shape, Grows
  <1>3. done <= Len(msgs)
    BY DEF ReadOK
  <1>4. ASSUME NEW n \in 1..done
        PROVE  WholeIn(n, msgs2, open2) /\ \A i \in 1..Len(msgs2[n]) : msgs2[n][i] < next
    <2>1. n \in 1..Len(msgs)
      BY <1>2, <1>3
    <2>2. WholeIn(n, msgs, open) /\ \A i \in 1..Len(msgs[n]) : msgs[n][i] < next
      BY DEF ReadOK
    <2>3. WholeIn(n, msgs2, open2) /\ Len(msgs2[n]) = Len(msgs[n])
          /\ \A i \in 1..Len(msgs[n]) : msgs2[n][i] = msgs[n][i]
      BY <2>1, <2>2 DEF Grows
    <2>. QED  BY <2>2, <2>3
  <1>5. ASSUME NEW n \in 1..Len(msgs2), NEW i \in 1..Len(msgs2[n])
        PROVE  msgs2[n][i] >= next \/ (n \in 1..Len(msgs) /\ i \in 1..Len(msgs[n]))
    <2>1. CASE n <= Len(msgs) /\ i <= Len(msgs[n])
      BY <1>2, <2>1
    <2>2. CASE msgs2[n][i] = k
      BY <2>2
    <2>. QED  BY <2>1, <2>2 DEF Grows
  <1>6. ASSUME NEW n \in 1..Len(msgs2), n > done + 1, NEW i \in 1..Len(msgs2[n])
        PROVE  msgs2[n][i] >= next
    <2>1. CASE n \in 1..Len(msgs) /\ i \in 1..Len(msgs[n])
      BY <1>6, <2>1 DEF ReadOK, Grows
    <2>. QED  BY <1>5, <2>1
  <1>7. c > 0 => done < Len(msgs)
    BY DEF ReadOK
  <1>8. ASSUME done < Len(msgs2)
        PROVE  /\ c <= Len(msgs2[done + 1])
               /\ c = Len(msgs2[done + 1]) => ~WholeIn(done + 1, msgs2, open2)
               /\ \A i \in 1..c : content[i] = msgs2[done + 1][i] /\ content[i] < next
               /\ \A i \in 1..Len(msgs2[done + 1]) : i > c => msgs2[done + 1][i] >= next
    <2> DEFINE d == done + 1
    <2>1. d \in 1..Len(msgs2) /\ d \in Nat
      BY <1>2, <1>8
    <2>2. CASE done < Len(msgs)
      <3>1. d \in 1..Len(msgs)
        BY <1>2, <2>2
      <3>2. /\ c <= Len(msgs[d])
            /\ c = Len(msgs[d]) => ~WholeIn(d, msgs, open)
            /\ \A i \in 1..c : content[i] = msgs[d][i] /\ content[i] < next
            /\ \A i \in 1..Len(msgs[d]) : i > c => msgs[d][i] >= next
        BY <2>2 DEF ReadOK
      <3>3. /\ Len(msgs[d]) <= Len(msgs2[d])
            /\ \A i \in 1..Len(msgs[d]) : msgs2[d][i] = msgs[d][i]
            /\ IF WholeIn(d, msgs, open)
               THEN WholeIn(d, msgs2, open2) /\ Len(msgs2[d]) = Len(msgs[d])
               ELSE Len(msgs2[d]) > Len(msgs[d]) \/ ~WholeIn(d, msgs2, open2)
        BY <3>1 DEF Grows
      <3>4. Len(msgs[d]) \in Nat /\ Len(msgs2[d]) \in Nat
        BY <1>2, <2>1, <3>1
      <3> HIDE DEF d
      <3>5. c <= Len(msgs2[d]) /\ (c = Len(msgs2[d]) => ~WholeIn(d, msgs2, open2))
        BY <1>1, <3>2, <3>3, <3>4
      <3>6. \A i \in 1..c : content[i] = msgs2[d][i] /\ content[i] < next
        BY <1>1, <3>2, <3>3, <3>4
      <3>7. \A i \in 1..Len(msgs2[d]) : i > c => msgs2[d][i] >= next
        BY <1>5, <2>1, <3>2, <3>3
      <3>. QED  BY <3>5, <3>6, <3>7 DEF d
    <2>3. CASE ~(done < Len(msgs))
      <3>1. c = 0 /\ d \notin 1..Len(msgs)
        BY <1>1, <1>2, <1>7, <2>3
      <3>2. WholeIn(d, msgs2, open2) => Len(msgs2[d]) > 0
        BY <2>1 DEF MessagesOK
      <3>3. \A i \in 1..Len(msgs2[d]) : msgs2[d][i] >= next
        BY <1>5, <2>1, <3>1
      <3>. QED  BY <1>2, <2>1, <3>1, <3>2, <3>3
    <2>. QED  BY <2>2, <2>3
  <1>9. done \in 0..Len(msgs2) /\ (c > 0 => done < Len(msgs2))
    BY <1>2, <1>3, <1>7
  <1>. QED  BY <1>4, <1>6, <1>8, <1>9 DEF ReadOK

-----------------------------------------------------------------------------
\* A frame that is not content leaves what was read as it is.
LEMMA ReadSkips ==
    ASSUME NEW msgs, NEW open, Shape(msgs),
           NEW done \in Nat, NEW content \in Seq(Nat), NEW next \in Nat,
           ReadOK(done, content, next, msgs, open),
           \A n \in 1..Len(msgs) : \A i \in 1..Len(msgs[n]) : msgs[n][i] # next
    PROVE  ReadOK(done, content, next + 1, msgs, open)
  <1> DEFINE c == Len(content)
  <1>1. c \in Nat /\ Len(msgs) \in Nat /\ done <= Len(msgs) /\ (c > 0 => done < Len(msgs))
    BY DEF Shape, ReadOK
  <1>2. \A n \in 1..Len(msgs) : \A i \in 1..Len(msgs[n]) :
           /\ msgs[n][i] < next => msgs[n][i] < next + 1
           /\ msgs[n][i] >= next => msgs[n][i] >= next + 1
    BY DEF Shape
  <1>3. ASSUME NEW n \in 1..done
        PROVE  WholeIn(n, msgs, open) /\ \A i \in 1..Len(msgs[n]) : msgs[n][i] < next + 1
    <2>1. n \in 1..Len(msgs)
      BY <1>1
    <2>. QED  BY <1>2, <2>1 DEF ReadOK
  <1>4. ASSUME NEW n \in 1..Len(msgs), n > done + 1, NEW i \in 1..Len(msgs[n])
        PROVE  msgs[n][i] >= next + 1
    BY <1>2, <1>4 DEF ReadOK
  <1>5. ASSUME done < Len(msgs)
        PROVE  /\ c <= Len(msgs[done + 1])
               /\ c = Len(msgs[done + 1]) => ~WholeIn(done + 1, msgs, open)
               /\ \A i \in 1..c : content[i] = msgs[done + 1][i] /\ content[i] < next + 1
               /\ \A i \in 1..Len(msgs[done + 1]) : i > c => msgs[done + 1][i] >= next + 1
    <2> DEFINE d == done + 1
    <2>1. d \in 1..Len(msgs)
      BY <1>1, <1>5
    <2>2. /\ c <= Len(msgs[d])
          /\ c = Len(msgs[d]) => ~WholeIn(d, msgs, open)
          /\ \A i \in 1..c : content[i] = msgs[d][i] /\ content[i] < next
          /\ \A i \in 1..Len(msgs[d]) : i > c => msgs[d][i] >= next
      BY <1>5 DEF ReadOK
    <2> HIDE DEF d
    <2>3. \A i \in 1..c : content[i] < next + 1
      <3>1. \A i \in 1..c : content[i] \in Nat
        OBVIOUS
      <3>. QED  BY <2>2, <3>1
    <2>4. \A i \in 1..Len(msgs[d]) : i > c => msgs[d][i] >= next + 1
      BY <1>2, <2>1, <2>2
    <2>. QED  BY <2>2, <2>3, <2>4 DEF d
  <1>6. done \in 0..Len(msgs)
    BY <1>1
  <1>. QED  BY <1>1, <1>3, <1>4, <1>5, <1>6 DEF ReadOK

\* The next frame of content is the one expected.
LEMMA ReadMeets ==
    ASSUME NEW msgs, NEW open, NEW used \in Nat, MessagesOK(msgs, open, used),
           NEW done \in Nat, NEW content \in Seq(Nat), NEW next \in Nat,
           ReadOK(done, content, next, msgs, open),
           NEW n \in 1..Len(msgs), NEW i \in 1..Len(msgs[n]), msgs[n][i] = next
    PROVE  n = done + 1 /\ i = Len(content) + 1
  <1> DEFINE c == Len(content)
             d == done + 1
  <1>1. /\ Shape(msgs) /\ c \in Nat /\ Len(msgs) \in Nat /\ n \in Nat /\ i \in Nat
        /\ done <= Len(msgs) /\ d \in Nat
    <2>1. Shape(msgs)
      BY DEF MessagesOK
    <2>2. Len(msgs) \in Nat /\ Len(msgs[n]) \in Nat /\ done <= Len(msgs)
      BY <2>1 DEF Shape, ReadOK
    <2>. QED  BY <2>1, <2>2
  <1>2. ~(n <= done)
    <2>1. SUFFICES ASSUME n <= done PROVE FALSE
      OBVIOUS
    <2>2. n \in 1..done
      BY <2>1, <1>1
    <2>3. msgs[n][i] < next
      BY <2>2 DEF ReadOK
    <2>. QED  BY <2>3
  <1>3. done < Len(msgs) /\ d \in 1..Len(msgs) /\ Len(msgs[d]) \in Nat
    BY <1>1, <1>2 DEF Shape
  <1>4. /\ c <= Len(msgs[d])
        /\ c = Len(msgs[d]) => ~WholeIn(d, msgs, open)
        /\ \A j \in 1..c : content[j] = msgs[d][j] /\ content[j] < next
        /\ \A j \in 1..Len(msgs[d]) : j > c => msgs[d][j] >= next
    BY <1>3 DEF ReadOK
  <1>5. c + 1 \in 1..Len(msgs[d]) => msgs[d][c + 1] >= next /\ msgs[d][c + 1] \in Nat
    BY <1>1, <1>3, <1>4 DEF Shape
  <1>6. \A m, l \in 1..Len(msgs) : \A p \in 1..Len(msgs[m]), q \in 1..Len(msgs[l]) :
           m < l \/ (m = l /\ p < q) => msgs[m][p] < msgs[l][q]
    BY DEF MessagesOK
  <1>7. d < n => WholeIn(d, msgs, open)
    BY <1>1 DEF WholeIn
  <1> HIDE DEF c, d
  <1>8. n = d
    <2>1. SUFFICES ASSUME d < n PROVE FALSE
      BY <1>1, <1>2 DEF d
    <2>2. c + 1 \in 1..Len(msgs[d])
      BY <2>1, <1>1, <1>3, <1>4, <1>7
    <2>3. msgs[d][c + 1] < msgs[n][i]
      BY <1>3, <1>6, <2>1, <2>2
    <2>. QED  BY <1>5, <2>2, <2>3
  <1>9. ~(i <= c)
    <2>1. SUFFICES ASSUME i <= c PROVE FALSE
      OBVIOUS
    <2>2. i \in 1..c
      BY <2>1, <1>1
    <2>3. msgs[d][i] < next
      BY <1>4, <2>2
    <2>. QED  BY <2>3, <1>8
  <1>10. ~(i > c + 1)
    <2>1. SUFFICES ASSUME i > c + 1 PROVE FALSE
      OBVIOUS
    <2>2. c + 1 \in 1..Len(msgs[d])
      BY <2>1, <1>1, <1>3, <1>8
    <2>3. msgs[d][c + 1] < msgs[n][i]
      BY <1>3, <1>6, <1>8, <1>1, <2>1, <2>2
    <2>. QED  BY <1>5, <2>2, <2>3
  <1>11. i = c + 1
    BY <1>1, <1>9, <1>10
  <1>. QED  BY <1>8, <1>11 DEF c, d

\* Taking that frame: it continues the message held, or ends it.
LEMMA ReadAdds ==
    ASSUME NEW msgs, NEW open, NEW used \in Nat, MessagesOK(msgs, open, used),
           NEW done \in Nat, NEW content \in Seq(Nat), NEW next \in Nat,
           ReadOK(done, content, next, msgs, open), done + 1 \in 1..Len(msgs),
           Len(content) + 1 \in 1..Len(msgs[done + 1]),
           msgs[done + 1][Len(content) + 1] = next
    PROVE  /\ ~(Len(content) + 1 = Len(msgs[done + 1]) /\ WholeIn(done + 1, msgs, open))
              => ReadOK(done, Append(content, next), next + 1, msgs, open)
           /\ Len(content) + 1 = Len(msgs[done + 1]) /\ WholeIn(done + 1, msgs, open)
              => ReadOK(done + 1, <<>>, next + 1, msgs, open)
  <1> DEFINE c == Len(content)
             d == done + 1
             more == Append(content, next)
  <1>1. Shape(msgs)
    BY DEF MessagesOK
  <1>2. /\ c \in Nat /\ Len(msgs) \in Nat /\ done < Len(msgs) /\ d \in Nat
        /\ d \in 1..Len(msgs) /\ Len(msgs[d]) \in Nat
    BY <1>1 DEF Shape
  <1>3. /\ more \in Seq(Nat) /\ Len(more) = c + 1 /\ more[c + 1] = next
        /\ \A i \in 1..c : more[i] = content[i] /\ content[i] \in Nat
    OBVIOUS
  <1>4. /\ \A j \in 1..c : content[j] = msgs[d][j] /\ content[j] < next
        /\ \A j \in 1..Len(msgs[d]) : j > c => msgs[d][j] >= next
    BY <1>2 DEF ReadOK
  <1>5. \A m, l \in 1..Len(msgs) : \A p \in 1..Len(msgs[m]), q \in 1..Len(msgs[l]) :
           m < l \/ (m = l /\ p < q) => msgs[m][p] < msgs[l][q]
    BY DEF MessagesOK
  <1>6. c + 1 \in 1..Len(msgs[d]) /\ msgs[d][c + 1] = next
    OBVIOUS
  <1>7. ASSUME NEW n \in 1..done
        PROVE  WholeIn(n, msgs, open) /\ \A i \in 1..Len(msgs[n]) : msgs[n][i] < next + 1
    <2>1. n \in 1..Len(msgs)
      BY <1>2
    <2>2. \A i \in 1..Len(msgs[n]) : msgs[n][i] \in Nat
      BY <1>1, <2>1 DEF Shape
    <2>3. WholeIn(n, msgs, open) /\ \A i \in 1..Len(msgs[n]) : msgs[n][i] < next
      BY DEF ReadOK
    <2>. QED  BY <2>2, <2>3
  <1> HIDE DEF c, d, more
  <1>8. ASSUME NEW n \in 1..Len(msgs), NEW i \in 1..Len(msgs[n]), n > d \/ (n = d /\ i > c + 1)
        PROVE  msgs[n][i] >= next + 1
    <2>1. msgs[d][c + 1] < msgs[n][i]
      BY <1>2, <1>5, <1>6, <1>8
    <2>2. msgs[n][i] \in Nat
      BY <1>1 DEF Shape
    <2>. QED  BY <1>6, <2>1, <2>2
  <1>9. ASSUME NEW i \in 1..Len(msgs[d]), i <= c + 1
        PROVE  msgs[d][i] < next + 1
    <2>1. CASE i = c + 1
      BY <1>6, <2>1
    <2>2. CASE i \in 1..c
      BY <1>3, <1>4, <2>2
    <2>. QED  BY <1>2, <1>9, <2>1, <2>2
  <1>10. ASSUME ~(c + 1 = Len(msgs[d]) /\ WholeIn(d, msgs, open))
         PROVE  ReadOK(done, more, next + 1, msgs, open)
    <2>1. \A i \in 1..c + 1 : more[i] = msgs[d][i] /\ more[i] < next + 1
      <3>1. SUFFICES ASSUME NEW i \in 1..c + 1 PROVE more[i] = msgs[d][i] /\ more[i] < next + 1
        OBVIOUS
      <3>2. CASE i = c + 1
        BY <1>3, <1>6, <3>2
      <3>3. CASE i \in 1..c
        <4>1. more[i] = content[i] /\ content[i] \in Nat
          BY <1>3, <3>3
        <4>2. content[i] = msgs[d][i] /\ content[i] < next
          BY <1>4, <3>3
        <4>. QED  BY <4>1, <4>2
      <3>. QED  BY <1>2, <3>2, <3>3
    <2>2. c + 1 <= Len(msgs[d])
      BY <1>6
    <2>3. \A i \in 1..Len(msgs[d]) : i > c + 1 => msgs[d][i] >= next + 1
      BY <1>2, <1>8
    <2>4. /\ c + 1 <= Len(msgs[done + 1])
          /\ c + 1 = Len(msgs[done + 1]) => ~WholeIn(done + 1, msgs, open)
          /\ \A i \in 1..c + 1 : more[i] = msgs[done + 1][i] /\ more[i] < next + 1
          /\ \A i \in 1..Len(msgs[done + 1]) : i > c + 1 => msgs[done + 1][i] >= next + 1
      BY <1>10, <2>1, <2>2, <2>3 DEF d
    <2>5. \A n \in 1..Len(msgs) : n > done + 1 => \A i \in 1..Len(msgs[n]) : msgs[n][i] >= next + 1
      BY <1>8 DEF d
    <2>6. done \in 0..Len(msgs)
      BY <1>2
    <2>. QED  BY <1>2, <1>3, <1>7, <2>4, <2>5, <2>6 DEF ReadOK
  <1>11. ASSUME c + 1 = Len(msgs[d]), WholeIn(d, msgs, open)
         PROVE  ReadOK(d, <<>>, next + 1, msgs, open)
    <2>1. \A n \in 1..d : WholeIn(n, msgs, open) /\ \A i \in 1..Len(msgs[n]) : msgs[n][i] < next + 1
      <3>1. \A i \in 1..Len(msgs[d]) : msgs[d][i] < next + 1
        <4>1. \A i \in 1..Len(msgs[d]) : i <= c + 1
          BY <1>2, <1>11
        <4>. QED  BY <1>9, <4>1
      <3>2. \A n \in 1..d : n = d \/ n \in 1..done
        BY <1>2 DEF d
      <3>. QED  BY <1>7, <1>11, <3>1, <3>2
    <2>2. \A n \in 1..Len(msgs) : n > d => \A i \in 1..Len(msgs[n]) : msgs[n][i] >= next + 1
      BY <1>8
    <2>3. \A n \in 1..Len(msgs) : WholeIn(n, msgs, open) => Len(msgs[n]) > 0
      BY DEF MessagesOK
    <2>4. \A n \in 1..Len(msgs) : Len(msgs[n]) \in Nat
      BY <1>1 DEF Shape
    <2>5. ASSUME d < Len(msgs)
          PROVE  /\ 0 <= Len(msgs[d + 1])
                 /\ 0 = Len(msgs[d + 1]) => ~WholeIn(d + 1, msgs, open)
                 /\ \A i \in 1..Len(msgs[d + 1]) : i > 0 => msgs[d + 1][i] >= next + 1
      <3>1. d + 1 \in 1..Len(msgs) /\ d + 1 > d
        BY <1>2, <2>5
      <3>. QED  BY <2>2, <2>3, <2>4, <3>1
    <2>6. \A n \in 1..Len(msgs) : n > d + 1 => \A i \in 1..Len(msgs[n]) : msgs[n][i] >= next + 1
      BY <1>2, <2>2
    <2>7. d \in 0..Len(msgs) /\ Len(<<>>) = 0 /\ ~(0 > 0) /\ \A i \in 1..0 : FALSE
      BY <1>2
    <2>. QED  BY <2>1, <2>5, <2>6, <2>7 DEF ReadOK
  <1>. QED  BY <1>10, <1>11 DEF c, d, more

\* The message read, by its content.
LEMMA ReadEnds ==
    ASSUME NEW msgs \in Seq(Seq(Nat)), NEW open,
           NEW done \in Nat, NEW content \in Seq(Nat), NEW next \in Nat,
           ReadOK(done, content, next, msgs, open), done + 1 \in 1..Len(msgs),
           Len(content) + 1 = Len(msgs[done + 1]),
           msgs[done + 1][Len(content) + 1] = next
    PROVE  Append(content, next) = msgs[done + 1]
  <1> DEFINE m == msgs[done + 1]
             more == Append(content, next)
             c == Len(content)
  <1>1. m \in Seq(Nat) /\ more \in Seq(Nat) /\ Len(more) = c + 1 /\ Len(m) = c + 1 /\ c \in Nat
    OBVIOUS
  <1>2. more[c + 1] = next /\ m[c + 1] = next /\ \A i \in 1..c : more[i] = content[i]
    OBVIOUS
  <1>3. \A i \in 1..c : content[i] = m[i]
    <2>1. done < Len(msgs)
      OBVIOUS
    <2>. QED  BY <2>1 DEF ReadOK
  <1> HIDE DEF m, more, c
  <1>4. \A i \in 1..c + 1 : more[i] = m[i]
    <2>1. \A i \in 1..c + 1 : i = c + 1 \/ i \in 1..c
      BY <1>1
    <2>. QED  BY <1>2, <1>3, <2>1
  <1>. QED  BY <1>1, <1>4 DEF m, more

\* Two whole messages differ in their first frame.
LEMMA UniqueMessage ==
    ASSUME NEW msgs, NEW open, NEW used \in Nat, MessagesOK(msgs, open, used),
           NEW n \in 1..Len(msgs), NEW m \in 1..Len(msgs), msgs[n] = msgs[m],
           WholeIn(n, msgs, open)
    PROVE  n = m
  <1>1. Shape(msgs) /\ Len(msgs[n]) > 0
    BY DEF MessagesOK
  <1>2. 1 \in 1..Len(msgs[n]) /\ msgs[n][1] \in Nat /\ n \in Nat /\ m \in Nat
    BY <1>1 DEF Shape
  <1>3. 1 \in 1..Len(msgs[m]) /\ msgs[m][1] = msgs[n][1]
    BY <1>2
  <1>4. \A k, l \in 1..Len(msgs) : \A p \in 1..Len(msgs[k]), q \in 1..Len(msgs[l]) :
           k < l \/ (k = l /\ p < q) => msgs[k][p] < msgs[l][q]
    BY DEF MessagesOK
  <1>5. n < m => msgs[n][1] < msgs[m][1]
    BY <1>2, <1>3, <1>4
  <1>6. m < n => msgs[m][1] < msgs[n][1]
    BY <1>2, <1>3, <1>4
  <1>. QED  BY <1>2, <1>3, <1>5, <1>6

-----------------------------------------------------------------------------
\* The next frame is one that was sent, or the one to be sent next.
LEMMA NextBounded ==
    ASSUME NEW w \in Seq(Cells), NEW half \in Halves, NEW used \in Nat, NEW msgs, NEW open,
           WireOK(w, half, used, msgs, open)
    PROVE  NextOn(w, half, used) \in Nat /\ NextOn(w, half, used) <= used + 1
  <1>1. CASE w # <<>>
    <2>1. 1 \in 1..Len(w) /\ w[1] \in Cells
      BY <1>1
    <2>2. w[1].f.f \in Nat
      BY <2>1 DEF Cells, Frames
    <2>3. w[1].f.f <= used
      BY <2>1 DEF WireOK
    <2>. QED  BY <1>1, <2>2, <2>3 DEF NextOn
  <1>2. CASE w = <<>> /\ half # <<>>
    BY <1>2 DEF WireOK, NextOn
  <1>3. CASE w = <<>> /\ half = <<>>
    BY <1>3 DEF NextOn
  <1>. QED  BY <1>1, <1>2, <1>3

\* Taking a cell from the wire, and which frame is next then.
LEMMA WireRead ==
    ASSUME NEW w \in Seq(Cells), NEW half \in Halves, NEW used \in Nat, NEW msgs, NEW open,
           WireOK(w, half, used, msgs, open), w # <<>>
    PROVE  /\ WireOK(Tail(w), half, used, msgs, open) /\ Tail(w) \in Seq(Cells)
           /\ Head(w) = w[1] /\ w[1] \in Cells /\ FrameFits(w[1].f, msgs, open)
           /\ NextOn(w, half, used) = w[1].f.f
           /\ w[1].part = "head" =>
                 /\ NextOn(Tail(w), half, used) = w[1].f.f
                 /\ IF Tail(w) = <<>> THEN half = <<w[1].f>>
                    ELSE Tail(w)[1].part = "body" /\ Tail(w)[1].f = w[1].f
           /\ w[1].part = "body" =>
                 /\ NextOn(Tail(w), half, used) = w[1].f.f + 1
                 /\ IF Tail(w) = <<>> THEN half = <<>> ELSE Tail(w)[1].part = "head"
  <1> DEFINE t == Tail(w)
             k == Len(w)
  <1>1. /\ k \in Nat /\ k > 0 /\ t \in Seq(Cells) /\ Len(t) = k - 1 /\ Head(w) = w[1]
        /\ \A i \in 1..k - 1 : t[i] = w[i + 1]
        /\ \A i \in 1..k : w[i] \in Cells
        /\ t = <<>> <=> k = 1
    <2>1. k \in Nat /\ k > 0 /\ Head(w) = w[1] /\ \A i \in 1..k : w[i] \in Cells
      OBVIOUS
    <2>2. t \in Seq(Cells) /\ Len(t) = k - 1
      OBVIOUS
    <2>3. \A i \in 1..k - 1 : t[i] = w[i + 1]
      OBVIOUS
    <2> HIDE DEF t
    <2>4. t = <<>> <=> Len(t) = 0
      BY <2>2
    <2>. QED  BY <2>1, <2>2, <2>3, <2>4
  <1> HIDE DEF t, k
  <1>2. /\ \A i \in 1..k : w[i].f.f <= used /\ FrameFits(w[i].f, msgs, open)
        /\ \A i \in 1..k : i + 1 <= k => Follows(w[i], w[i + 1])
        /\ half # <<>> => half[1].f = used /\ FrameFits(half[1], msgs, open)
        /\ IF half # <<>> THEN w[k].part = "head" /\ w[k].f = half[1]
                          ELSE w[k].part = "body" /\ w[k].f.f = used
    BY DEF WireOK, k
  <1>3. 1 \in 1..k /\ w[1] \in Cells /\ FrameFits(w[1].f, msgs, open)
    BY <1>1, <1>2
  <1>4. WireOK(t, half, used, msgs, open)
    <2>1. \A i \in 1..k - 1 : i \in 1..k /\ i + 1 \in 1..k /\ (i + 1 <= k - 1 => i + 1 \in 1..k - 1 /\ i + 2 <= k)
      BY <1>1
    <2>2. \A i \in 1..Len(t) : t[i].f.f <= used /\ FrameFits(t[i].f, msgs, open)
      BY <1>1, <1>2, <2>1
    <2>3. ASSUME NEW i \in 1..Len(t), i + 1 <= Len(t)
          PROVE  Follows(t[i], t[i + 1])
      <3>1. i + 1 \in 1..k /\ (i + 1) + 1 <= k /\ t[i] = w[i + 1] /\ t[i + 1] = w[(i + 1) + 1]
        BY <1>1, <2>3
      <3>. QED  BY <1>2, <3>1
    <2>4. t # <<>> => t[Len(t)] = w[k]
      BY <1>1
    <2>. QED  BY <1>2, <2>2, <2>3, <2>4 DEF WireOK
  <1>5. CASE t = <<>>
    <2>1. k = 1
      BY <1>1, <1>5
    <2>2. w[1].part = "head" => half = <<w[1].f>>
      <3>1. SUFFICES ASSUME w[1].part = "head" PROVE half = <<w[1].f>>
        OBVIOUS
      <3>2. half # <<>> /\ w[1].f = half[1]
        BY <1>2, <2>1, <3>1
      <3>. QED  BY <3>2 DEF Halves
    <2>3. w[1].part = "body" => half = <<>> /\ w[1].f.f = used
      BY <1>2, <2>1
    <2>4. NextOn(t, <<w[1].f>>, used) = w[1].f.f /\ NextOn(t, <<>>, used) = used + 1
      BY <1>5 DEF NextOn
    <2>. QED  BY <1>1, <1>3, <1>4, <1>5, <2>2, <2>3, <2>4 DEF NextOn, t
  <1>6. CASE t # <<>>
    <2>1. k > 1 /\ t[1] = w[2] /\ Follows(w[1], w[2])
      BY <1>1, <1>2, <1>3, <1>6
    <2>2. NextOn(t, half, used) = w[2].f.f /\ NextOn(w, half, used) = w[1].f.f
      BY <1>6, <2>1 DEF NextOn
    <2>3. w[1].part = "head" => w[2].part = "body" /\ w[2].f = w[1].f
      BY <2>1 DEF Follows
    <2>4. w[1].part = "body" => w[2].part = "head" /\ w[2].f.f = w[1].f.f + 1
      BY <2>1 DEF Follows
    <2>. QED  BY <1>1, <1>3, <1>4, <1>6, <2>1, <2>2, <2>3, <2>4 DEF t
  <1>. QED  BY <1>5, <1>6

\* What Append() and Tail() do, for any sequence.
LEMMA AppendFacts ==
    ASSUME NEW S, NEW w \in Seq(S), NEW c \in S
    PROVE  /\ Len(w) \in Nat /\ Append(w, c) \in Seq(S) /\ Len(Append(w, c)) = Len(w) + 1
           /\ Append(w, c)[Len(w) + 1] = c /\ Append(w, c) # <<>>
           /\ \A i \in 1..Len(w) : Append(w, c)[i] = w[i] /\ w[i] \in S
           /\ w = <<>> <=> Len(w) = 0
  OBVIOUS

\* The peer puts the first byte of a frame on the wire.
LEMMA WireStarts ==
    ASSUME NEW w \in Seq(Cells), NEW used \in Nat, NEW msgs, NEW open, NEW msgs2, NEW open2,
           WireOK(w, <<>>, used, msgs, open), Shape(msgs), Shape(msgs2),
           Grows(msgs, open, msgs2, open2, used + 1),
           NEW g \in Frames, g.f = used + 1, FrameFits(g, msgs2, open2),
           NEW cell \in Cells, cell.part = "head", cell.f = g
    PROVE  /\ WireOK(Append(w, cell), <<g>>, used + 1, msgs2, open2) /\ Append(w, cell) \in Seq(Cells)
           /\ NextOn(Append(w, cell), <<g>>, used + 1) = NextOn(w, <<>>, used)
           /\ Append(w, cell) # <<>>
           /\ w = <<>> => Append(w, cell)[1] = cell
           /\ w # <<>> => Append(w, cell)[1] = w[1]
  <1> DEFINE k == Len(w)
             w2 == Append(w, cell)
  <1>1. cell \in Cells /\ cell.part = "head" /\ cell.f = g
    OBVIOUS
  <1>2. /\ k \in Nat /\ w2 \in Seq(Cells) /\ Len(w2) = k + 1 /\ w2[k + 1] = cell /\ w2 # <<>>
        /\ \A i \in 1..k : w2[i] = w[i] /\ w[i] \in Cells
        /\ w = <<>> <=> k = 0
    BY <1>1, AppendFacts
  <1>3. /\ \A i \in 1..k : w[i].f.f <= used /\ FrameFits(w[i].f, msgs, open)
        /\ \A i \in 1..k : i + 1 <= k => Follows(w[i], w[i + 1])
        /\ w # <<>> => w[k].part = "body" /\ w[k].f.f = used
    BY DEF WireOK
  <1> HIDE DEF k, w2
  <1>4. ASSUME NEW i \in 1..k
        PROVE  w[i].f.f <= used + 1 /\ FrameFits(w[i].f, msgs2, open2)
    <2>1. w[i].f \in Frames /\ w[i].f.f \in Nat
      BY <1>2 DEF Cells, Frames
    <2>2. w[i].f.f < used + 1
      BY <1>3, <2>1
    <2>. QED  BY <1>3, <2>1, <2>2, FrameStays
  <1>5. \A i \in 1..k + 1 : i \in 1..k \/ i = k + 1
    BY <1>2
  <1>6. \A i \in 1..k + 1 : w2[i].f.f <= used + 1 /\ FrameFits(w2[i].f, msgs2, open2)
    BY <1>1, <1>2, <1>4, <1>5
  <1>7. ASSUME NEW i \in 1..k + 1, i + 1 <= k + 1
        PROVE  Follows(w2[i], w2[i + 1])
    <2>1. i \in 1..k /\ w2[i] = w[i]
      BY <1>2, <1>7
    <2>2. CASE i + 1 <= k
      <3>1. w2[i + 1] = w[i + 1]
        BY <1>2, <2>1, <2>2
      <3>. QED  BY <1>3, <2>1, <2>2, <3>1
    <2>3. CASE i = k
      <3>1. w # <<>> /\ w2[i + 1] = cell
        BY <1>2, <2>1, <2>3
      <3>2. w[i].part = "body" /\ w[i].f.f = used
        BY <1>3, <2>3, <3>1
      <3>. QED  BY <1>1, <2>1, <3>1, <3>2 DEF Follows
    <2>. QED  BY <1>2, <2>1, <2>2, <2>3
  <1>8. WireOK(w2, <<g>>, used + 1, msgs2, open2)
    BY <1>1, <1>2, <1>6, <1>7 DEF WireOK
  <1>9. (w = <<>> => w2[1] = cell) /\ (w # <<>> => w2[1] = w[1])
    BY <1>2
  <1>10. NextOn(w2, <<g>>, used + 1) = NextOn(w, <<>>, used)
    BY <1>1, <1>2, <1>9 DEF NextOn
  <1>. QED  BY <1>2, <1>8, <1>9, <1>10 DEF w2

\* The peer puts the rest of that frame on the wire.
LEMMA WireEnds ==
    ASSUME NEW w \in Seq(Cells), NEW used \in Nat, NEW msgs, NEW open, NEW g \in Frames,
           WireOK(w, <<g>>, used, msgs, open),
           NEW cell \in Cells, cell.part = "body", cell.f = g
    PROVE  /\ WireOK(Append(w, cell), <<>>, used, msgs, open) /\ Append(w, cell) \in Seq(Cells)
           /\ NextOn(Append(w, cell), <<>>, used) = NextOn(w, <<g>>, used)
           /\ Append(w, cell) # <<>>
           /\ w = <<>> => Append(w, cell)[1] = cell
           /\ w # <<>> => Append(w, cell)[1] = w[1]
  <1> DEFINE k == Len(w)
             w2 == Append(w, cell)
  <1>1. cell \in Cells /\ cell.part = "body" /\ cell.f = g
    OBVIOUS
  <1>2. /\ k \in Nat /\ w2 \in Seq(Cells) /\ Len(w2) = k + 1 /\ w2[k + 1] = cell /\ w2 # <<>>
        /\ \A i \in 1..k : w2[i] = w[i] /\ w[i] \in Cells
        /\ w = <<>> <=> k = 0
    BY <1>1, AppendFacts
  <1>3. /\ \A i \in 1..k : w[i].f.f <= used /\ FrameFits(w[i].f, msgs, open)
        /\ \A i \in 1..k : i + 1 <= k => Follows(w[i], w[i + 1])
        /\ g.f = used /\ FrameFits(g, msgs, open)
        /\ w # <<>> => w[k].part = "head" /\ w[k].f = g
    BY DEF WireOK
  <1> HIDE DEF k, w2
  <1>4. \A i \in 1..k + 1 : i \in 1..k \/ i = k + 1
    BY <1>2
  <1>5. \A i \in 1..k + 1 : w2[i].f.f <= used /\ FrameFits(w2[i].f, msgs, open)
    <2>1. w2[k + 1].f.f <= used /\ FrameFits(w2[k + 1].f, msgs, open)
      BY <1>1, <1>2, <1>3
    <2>2. \A i \in 1..k : w2[i].f.f <= used /\ FrameFits(w2[i].f, msgs, open)
      BY <1>2, <1>3
    <2>. QED  BY <1>4, <2>1, <2>2
  <1>6. ASSUME NEW i \in 1..k + 1, i + 1 <= k + 1
        PROVE  Follows(w2[i], w2[i + 1])
    <2>1. i \in 1..k /\ w2[i] = w[i]
      BY <1>2, <1>6
    <2>2. CASE i + 1 <= k
      <3>1. w2[i + 1] = w[i + 1]
        BY <1>2, <2>1, <2>2
      <3>. QED  BY <1>3, <2>1, <2>2, <3>1
    <2>3. CASE i = k
      <3>1. w # <<>> /\ w2[i + 1] = cell
        BY <1>2, <2>1, <2>3
      <3>2. w[i].part = "head" /\ w[i].f = g
        BY <1>3, <2>3, <3>1
      <3>. QED  BY <1>1, <2>1, <3>1, <3>2 DEF Follows
    <2>. QED  BY <1>2, <2>1, <2>2, <2>3
  <1>7. WireOK(w2, <<>>, used, msgs, open)
    BY <1>1, <1>2, <1>3, <1>5, <1>6 DEF WireOK
  <1>8. (w = <<>> => w2[1] = cell) /\ (w # <<>> => w2[1] = w[1])
    BY <1>2
  <1>9. NextOn(w2, <<>>, used) = NextOn(w, <<g>>, used)
    BY <1>1, <1>2, <1>3, <1>8 DEF NextOn
  <1>. QED  BY <1>2, <1>7, <1>8, <1>9 DEF w2

-----------------------------------------------------------------------------
\* What a frame makes of what was read, by its opcode and FIN.
LEMMA TakesFrame ==
    ASSUME NEW msgs \in Seq(Seq(Nat)), NEW open, NEW used \in Nat, MessagesOK(msgs, open, used),
           NEW done \in Nat, NEW content \in Seq(Nat), NEW g \in Frames,
           FrameFits(g, msgs, open), ReadOK(done, content, g.f, msgs, open)
    PROVE  /\ g.op # "text" \/ g.len = 0 => ReadOK(done, content, g.f + 1, msgs, open)
           /\ g.op = "text" /\ g.len = 1 /\ ~g.fin =>
                 ReadOK(done, Append(content, g.f), g.f + 1, msgs, open)
           /\ g.op = "text" /\ g.fin =>
                 /\ g.len = 1 /\ done + 1 \in 1..Len(msgs) /\ WholeIn(done + 1, msgs, open)
                 /\ Append(content, g.f) = msgs[done + 1]
                 /\ ReadOK(done + 1, <<>>, g.f + 1, msgs, open)
  <1>1. Shape(msgs) /\ g.f \in Nat /\ g.len \in {0, 1}
    BY DEF MessagesOK, Frames
  <1>2. CASE ~(g.op = "text" /\ g.len = 1)
    <2>1. ~(g.op = "text" /\ g.fin) /\ \A n \in 1..Len(msgs) : \A i \in 1..Len(msgs[n]) : msgs[n][i] # g.f
      BY <1>2 DEF FrameFits
    <2>2. ReadOK(done, content, g.f + 1, msgs, open)
      BY <1>1, <2>1, ReadSkips
    <2>. QED  BY <1>2, <2>1, <2>2
  <1>3. CASE g.op = "text" /\ g.len = 1
    <2>1. PICK n \in 1..Len(msgs) : \E i \in 1..Len(msgs[n]) :
             msgs[n][i] = g.f /\ (g.fin <=> i = Len(msgs[n]) /\ WholeIn(n, msgs, open))
      BY <1>3 DEF FrameFits
    <2>2. PICK i \in 1..Len(msgs[n]) :
             msgs[n][i] = g.f /\ (g.fin <=> i = Len(msgs[n]) /\ WholeIn(n, msgs, open))
      BY <2>1
    <2>3. n = done + 1 /\ i = Len(content) + 1
      BY <1>1, <2>2, ReadMeets
    <2>4. /\ done + 1 \in 1..Len(msgs) /\ Len(content) + 1 \in 1..Len(msgs[done + 1])
          /\ msgs[done + 1][Len(content) + 1] = g.f
          /\ g.fin <=> Len(content) + 1 = Len(msgs[done + 1]) /\ WholeIn(done + 1, msgs, open)
      BY <2>2, <2>3
    <2>5. /\ ~g.fin => ReadOK(done, Append(content, g.f), g.f + 1, msgs, open)
          /\ g.fin => ReadOK(done + 1, <<>>, g.f + 1, msgs, open)
      BY <1>1, <2>4, ReadAdds
    <2>6. g.fin => Append(content, g.f) = msgs[done + 1]
      BY <1>1, <2>4, ReadEnds
    <2>. QED  BY <1>1, <1>3, <2>4, <2>5, <2>6
  <1>. QED  BY <1>2, <1>3

\* The assembler's queue takes the message after the last one assembled,
LEMMA QueueAppends ==
    ASSUME NEW q, NEW k \in Nat, Len(q) = k, \A i \in 1..k : q[i] \in Nat,
           NEW last \in Nat, NEW count \in Nat, NEW lost, QueueOK(q, last, count, lost),
           NEW d \in Nat, k > 0 => d = q[k], k = 0 => d = last, d + 1 <= count,
           NEW a, Len(a) = k + 1, a[k + 1] = d + 1, \A i \in 1..k : a[i] = q[i]
    PROVE  QueueOK(a, last, count, lost)
  <1>1. \A i \in 1..k + 1 : i \in 1..k \/ i = k + 1
    OBVIOUS
  <1>2. /\ last <= count
        /\ \A i \in 1..k : last < q[i] /\ q[i] <= count
        /\ \A i, j \in 1..k : i < j => q[i] < q[j]
        /\ \A i \in 1..k : \A n \in last + 1..q[i] : n \in lost \/ \E j \in 1..k : q[j] = n
    BY DEF QueueOK
  <1>3. last <= d
    <2>1. k > 0 => k \in 1..k
      OBVIOUS
    <2>. QED  BY <1>2, <2>1
  <1>4. \A i \in 1..k : q[i] <= d
    <2>1. SUFFICES ASSUME NEW i \in 1..k PROVE q[i] <= d
      OBVIOUS
    <2>2. k \in 1..k /\ d = q[k] /\ q[i] \in Nat
      OBVIOUS
    <2>3. i < k => q[i] < q[k]
      BY <1>2, <2>2
    <2>. QED  BY <2>2, <2>3
  <1>5. \A i \in 1..k + 1 : last < a[i] /\ a[i] <= count /\ a[i] \in Nat
    <2>1. last < a[k + 1] /\ a[k + 1] <= count /\ a[k + 1] \in Nat
      BY <1>3
    <2>2. \A i \in 1..k : last < a[i] /\ a[i] <= count /\ a[i] \in Nat
      BY <1>2
    <2>. QED  BY <1>1, <2>1, <2>2
  <1>6. \A i, j \in 1..k + 1 : i < j => a[i] < a[j]
    <2>1. SUFFICES ASSUME NEW i \in 1..k + 1, NEW j \in 1..k + 1, i < j PROVE a[i] < a[j]
      OBVIOUS
    <2>2. i \in 1..k /\ a[i] = q[i] /\ q[i] \in Nat
      BY <2>1
    <2>3. CASE j \in 1..k
      BY <1>2, <2>1, <2>2, <2>3
    <2>4. CASE j = k + 1
      <3>1. a[j] = d + 1 /\ q[i] <= d
        BY <1>4, <2>2, <2>4
      <3>. QED  BY <2>2, <3>1
    <2>. QED  BY <1>1, <2>3, <2>4
  <1>7. ASSUME NEW i \in 1..k + 1, NEW n \in last + 1..a[i]
        PROVE  n \in lost \/ \E j \in 1..k + 1 : a[j] = n
    <2>0. n \in Nat /\ n > last /\ n <= a[i] /\ k + 1 \in 1..k + 1
      BY <1>5
    <2>1. CASE \E m \in 1..k : n <= q[m]
      <3>1. PICK m \in 1..k : n <= q[m]
        BY <2>1
      <3>2. n \in last + 1..q[m]
        BY <2>0, <3>1
      <3>3. n \in lost \/ \E j \in 1..k : q[j] = n
        BY <1>2, <3>2
      <3>4. \A j \in 1..k : j \in 1..k + 1 /\ a[j] = q[j]
        OBVIOUS
      <3>. QED  BY <3>3, <3>4
    <2>2. CASE n = d + 1
      BY <2>0, <2>2
    <2>3. n = d + 1 \/ n <= d
      <3>1. CASE i \in 1..k
        BY <1>4, <2>0, <3>1
      <3>2. CASE i = k + 1
        BY <2>0, <3>2
      <3>. QED  BY <1>1, <3>1, <3>2
    <2>4. n <= d => k > 0 /\ k \in 1..k /\ n <= q[k]
      BY <2>0
    <2>. QED  BY <2>1, <2>2, <2>3, <2>4
  <1>. QED  BY <1>2, <1>5, <1>6, <1>7 DEF QueueOK

\* and at its bound drops the first, which is then among the dropped.
LEMMA QueueDrops ==
    ASSUME NEW a, NEW k \in Nat \ {0}, Len(a) = k + 1, \A i \in 1..k + 1 : a[i] \in Nat,
           NEW last \in Nat, NEW count \in Nat, NEW lost, QueueOK(a, last, count, lost),
           NEW q2, Len(q2) = k, \A i \in 1..k : q2[i] = a[i + 1],
           NEW lost2, lost \subseteq lost2,
           (\A i \in 1..k : q2[i] # a[1]) => a[1] \in lost2
    PROVE  QueueOK(q2, last, count, lost2)
  <1>1. /\ last <= count
        /\ \A i \in 1..k + 1 : last < a[i] /\ a[i] <= count
        /\ \A i, j \in 1..k + 1 : i < j => a[i] < a[j]
        /\ \A i \in 1..k + 1 : \A n \in last + 1..a[i] : n \in lost \/ \E j \in 1..k + 1 : a[j] = n
    BY DEF QueueOK
  <1>2. 1 \in 1..k + 1 /\ \A i \in 1..k : i + 1 \in 1..k + 1 /\ 1 < i + 1
    OBVIOUS
  <1>3. a[1] \in lost2
    <2>1. \A i \in 1..k : a[1] < a[i + 1] /\ a[1] \in Nat /\ a[i + 1] \in Nat
      BY <1>1, <1>2
    <2>. QED  BY <2>1
  <1>4. \A i \in 1..k : last < q2[i] /\ q2[i] <= count
    BY <1>1, <1>2
  <1>5. \A i, j \in 1..k : i < j => q2[i] < q2[j]
    <2>1. SUFFICES ASSUME NEW i \in 1..k, NEW j \in 1..k, i < j PROVE q2[i] < q2[j]
      OBVIOUS
    <2>2. i + 1 < j + 1
      BY <2>1
    <2>. QED  BY <1>1, <1>2, <2>2
  <1>6. ASSUME NEW i \in 1..k, NEW n \in last + 1..q2[i]
        PROVE  n \in lost2 \/ \E j \in 1..k : q2[j] = n
    <2>1. i + 1 \in 1..k + 1 /\ n \in last + 1..a[i + 1]
      BY <1>2
    <2>2. CASE n \in lost
      BY <2>2
    <2>3. CASE \E j \in 1..k + 1 : a[j] = n
      <3>1. PICK j \in 1..k + 1 : a[j] = n
        BY <2>3
      <3>2. CASE j = 1
        BY <1>3, <3>1, <3>2
      <3>3. CASE j # 1
        <4>1. j - 1 \in 1..k /\ (j - 1) + 1 = j
          BY <3>3
        <4>2. q2[j - 1] = n
          BY <3>1, <4>1
        <4>. QED  BY <4>1, <4>2
      <3>. QED  BY <3>2, <3>3
    <2>. QED  BY <1>1, <2>1, <2>2, <2>3
  <1>. QED  BY <1>1, <1>4, <1>5, <1>6 DEF QueueOK

LEMMA TailFacts ==
    ASSUME NEW S, NEW a \in Seq(S), a # <<>>
    PROVE  /\ Tail(a) \in Seq(S) /\ Len(Tail(a)) = Len(a) - 1
           /\ \A i \in 1..Len(a) - 1 : Tail(a)[i] = a[i + 1]
  <1>1. Len(a) \in Nat /\ Len(a) > 0
    OBVIOUS
  <1>2. Tail(a) \in Seq(S) /\ Len(Tail(a)) = Len(a) - 1
    OBVIOUS
  <1>3. \A i \in 1..Len(a) - 1 : Tail(a)[i] = a[i + 1]
    OBVIOUS
  <1>. QED  BY <1>2, <1>3

\* The queue with a message added, and the last message assembled.
Capped(q, m, cap) == LET a == Append(q, m) IN IF Len(a) > cap THEN Tail(a) ELSE a
LastOf(q, last) == IF q = <<>> THEN last ELSE q[Len(q)]

\* Both, as WebSocketMessageAssembler::Add() does them.
LEMMA QueueAdds ==
    ASSUME NEW q \in Seq(Nat), NEW last \in Nat, NEW count \in Nat, NEW lost,
           QueueOK(q, last, count, lost), NEW cap \in Nat \ {0}, Len(q) <= cap,
           LastOf(q, last) + 1 <= count
    PROVE  /\ Capped(q, LastOf(q, last) + 1, cap) \in Seq(Nat)
           /\ Len(Capped(q, LastOf(q, last) + 1, cap)) <= cap
           /\ LastOf(Capped(q, LastOf(q, last) + 1, cap), last) = LastOf(q, last) + 1
           /\ QueueOK(Capped(q, LastOf(q, last) + 1, cap), last, count,
                      lost \cup (ToSet(q) \ ToSet(Capped(q, LastOf(q, last) + 1, cap))))
  <1> DEFINE d == LastOf(q, last)
             q2 == Capped(q, d + 1, cap)
  <1>0. /\ q2 = LET a == Append(q, d + 1) IN IF Len(a) > cap THEN Tail(a) ELSE a
        /\ d \in Nat /\ (d = IF q = <<>> THEN last ELSE q[Len(q)]) /\ d + 1 <= count
    BY DEF Capped, LastOf
  <1> HIDE DEF d, q2
  <1> DEFINE a == Append(q, d + 1)
             k == Len(q)
             lost2 == lost \cup (ToSet(q) \ ToSet(q2))
  <1>1. /\ a \in Seq(Nat) /\ Len(a) = k + 1 /\ a[k + 1] = d + 1 /\ k \in Nat
        /\ \A i \in 1..k : a[i] = q[i] /\ q[i] \in Nat
        /\ q = <<>> <=> k = 0
    BY <1>0
  <1>2. q2 = (IF Len(a) > cap THEN Tail(a) ELSE a) /\ Len(q) = k
    BY <1>0
  <1>3. (k > 0 => d = q[k]) /\ (k = 0 => d = last) /\ k <= cap
    BY <1>0, <1>1
  <1>4. /\ \A i \in 1..k : q[i] \in ToSet(q)
        /\ \A i \in 1..k + 1 : a[i] \in Nat
    BY <1>1 DEF ToSet
  <1> HIDE DEF a, k, lost2
  <1>5. QueueOK(a, last, count, lost)
    <2>1. Len(q) = k /\ k \in Nat /\ \A i \in 1..k : q[i] \in Nat
      BY <1>1, <1>2
    <2>2. Len(a) = k + 1 /\ a[k + 1] = d + 1 /\ \A i \in 1..k : a[i] = q[i]
      BY <1>1
    <2>. QED  BY <1>0, <1>3, <2>1, <2>2, QueueAppends
  <1> DEFINE Added == q2 \in Seq(Nat) /\ Len(q2) <= cap /\ q2 # <<>> /\ q2[Len(q2)] = d + 1
                      /\ QueueOK(q2, last, count, lost2)
  <1>6. ASSUME ~(Len(a) > cap) PROVE Added
    <2>1. q2 = a
      BY <1>2, <1>6
    <2>2. Len(a) <= cap /\ a # <<>> /\ a[Len(a)] = d + 1
      BY <1>1, <1>6
    <2>3. QueueOK(a, last, count, lost2)
      BY <1>5 DEF QueueOK, lost2
    <2>. QED  BY <1>1, <2>1, <2>2, <2>3
  <1>7. ASSUME Len(a) > cap PROVE Added
    <2>1. k = cap /\ k \in Nat \ {0}
      BY <1>1, <1>3, <1>7
    <2>2. q2 = Tail(a)
      BY <1>2, <1>7
    <2>3. q2 \in Seq(Nat) /\ Len(q2) = Len(a) - 1 /\ \A i \in 1..Len(a) - 1 : q2[i] = a[i + 1]
      <3>1. a # <<>>
        BY <1>1
      <3>. QED  BY <1>1, <2>2, <3>1, TailFacts
    <2>4. Len(a) - 1 = k /\ Len(q2) = k /\ \A i \in 1..k : q2[i] = a[i + 1]
      BY <1>1, <2>3
    <2>5. q2 # <<>> /\ q2[k] = d + 1
      BY <1>1, <2>1, <2>3, <2>4
    <2>6. (\A i \in 1..k : q2[i] # a[1]) => a[1] \in lost2
      <3>1. SUFFICES ASSUME \A i \in 1..k : q2[i] # a[1] PROVE a[1] \in lost2
        OBVIOUS
      <3>2. 1 \in 1..k /\ a[1] = q[1]
        BY <1>1, <2>1
      <3>3. DOMAIN q2 = 1..Len(q2)
        BY <2>3
      <3>4. a[1] \notin ToSet(q2)
        BY <2>4, <3>1, <3>3 DEF ToSet
      <3>. QED  BY <1>4, <3>2, <3>4 DEF lost2
    <2>7. lost \subseteq lost2
      BY DEF lost2
    <2>8. QueueOK(q2, last, count, lost2)
      BY <1>1, <1>4, <1>5, <2>1, <2>4, <2>6, <2>7, QueueDrops
    <2>. QED  BY <2>1, <2>3, <2>4, <2>5, <2>8
  <1>8. Added
    BY <1>6, <1>7
  <1>9. LastOf(q2, last) = d + 1
    BY <1>8 DEF LastOf
  <1>. QED  BY <1>8, <1>9 DEF d, q2, lost2

\* ReceiveText() takes the first message of the queue.
LEMMA QueueGives ==
    ASSUME NEW q \in Seq(Nat), NEW last \in Nat, NEW count \in Nat, NEW lost,
           QueueOK(q, last, count, lost), q # <<>>
    PROVE  /\ Head(q) = q[1] /\ q[1] \in Nat /\ Tail(q) \in Seq(Nat) /\ Len(Tail(q)) <= Len(q)
           /\ q[1] > last /\ q[1] <= count /\ (last + 1)..(q[1] - 1) \subseteq lost
           /\ QueueOK(Tail(q), q[1], count, lost)
           /\ q[Len(q)] = IF Tail(q) = <<>> THEN q[1] ELSE Tail(q)[Len(Tail(q))]
  <1> DEFINE t == Tail(q)
             k == Len(q)
  <1>1. k \in Nat /\ k > 0 /\ Head(q) = q[1] /\ \A i \in 1..k : q[i] \in Nat
    OBVIOUS
  <1>2. t \in Seq(Nat) /\ Len(t) = k - 1
    OBVIOUS
  <1>3. \A i \in 1..k - 1 : t[i] = q[i + 1]
    OBVIOUS
  <1>4. /\ \A i \in 1..k : last < q[i] /\ q[i] <= count
        /\ \A i, j \in 1..k : i < j => q[i] < q[j]
        /\ \A i \in 1..k : \A n \in last + 1..q[i] : n \in lost \/ \E j \in 1..k : q[j] = n
    BY DEF QueueOK
  <1> HIDE DEF t, k
  <1>5. 1 \in 1..k /\ q[1] \in Nat /\ last < q[1] /\ q[1] <= count
    BY <1>1, <1>4
  <1>6. \A j \in 1..k : q[1] <= q[j] /\ (j # 1 => q[1] < q[j])
    BY <1>1, <1>4, <1>5
  <1>7. ASSUME NEW n \in (last + 1)..(q[1] - 1)
        PROVE  n \in lost
    <2>1. n \in last + 1..q[1] /\ n < q[1] /\ n \in Nat
      BY <1>5
    <2>2. \A j \in 1..k : q[j] # n
      BY <1>1, <1>6, <2>1
    <2>. QED  BY <1>4, <1>5, <2>1, <2>2
  <1>8. QueueOK(t, q[1], count, lost)
    <2>1. \A i \in 1..k - 1 : i + 1 \in 1..k /\ i + 1 # 1
      BY <1>1
    <2>2. \A i \in 1..Len(t) : q[1] < t[i] /\ t[i] <= count
      BY <1>2, <1>3, <1>4, <1>6, <2>1
    <2>3. \A i, j \in 1..Len(t) : i < j => t[i] < t[j]
      <3>1. SUFFICES ASSUME NEW i \in 1..Len(t), NEW j \in 1..Len(t), i < j PROVE t[i] < t[j]
        OBVIOUS
      <3>2. i \in 1..k - 1 /\ j \in 1..k - 1 /\ i + 1 < j + 1
        BY <1>2, <3>1
      <3>. QED  BY <1>3, <1>4, <2>1, <3>2
    <2>4. ASSUME NEW i \in 1..Len(t), NEW n \in q[1] + 1..t[i]
          PROVE  n \in lost \/ \E j \in 1..Len(t) : t[j] = n
      <3>1. i + 1 \in 1..k /\ t[i] = q[i + 1] /\ q[i + 1] \in Nat
        BY <1>1, <1>2, <1>3, <2>1
      <3>2. n \in last + 1..q[i + 1] /\ n # q[1]
        BY <1>5, <3>1
      <3>3. CASE n \in lost
        BY <3>3
      <3>4. CASE \E j \in 1..k : q[j] = n
        <4>1. PICK j \in 1..k : q[j] = n
          BY <3>4
        <4>2. j # 1 /\ j \in Nat
          BY <1>1, <3>2, <4>1
        <4>3. j - 1 \in 1..k - 1 /\ (j - 1) + 1 = j
          BY <1>1, <4>2
        <4>4. t[j - 1] = n
          BY <1>3, <4>1, <4>3
        <4>. QED  BY <1>2, <4>3, <4>4
      <3>. QED  BY <1>4, <3>1, <3>2, <3>3, <3>4
    <2>. QED  BY <1>5, <2>2, <2>3, <2>4 DEF QueueOK
  <1>9. t = <<>> <=> k = 1
    BY <1>1, <1>2
  <1>10. q[k] = IF t = <<>> THEN q[1] ELSE t[Len(t)]
    BY <1>1, <1>2, <1>3, <1>9
  <1>11. Len(t) <= k
    BY <1>1, <1>2
  <1>. QED  BY <1>1, <1>2, <1>5, <1>7, <1>8, <1>10, <1>11 DEF t, k

-----------------------------------------------------------------------------
(* The steps *)


\* A whole message is recognised by its content.
LEMMA MessageIs ==
    ASSUME WsTypes, SentInv, NEW n \in 1..Len(sent), WholeIn(n, sent, Open)
    PROVE  MessageOf(sent[n]) = n
  <1>1. Whole(n)
    BY DEF Whole, WholeIn, Open
  <1>2. frames_used \in Nat /\ MessagesOK(sent, Open, frames_used)
    BY WebSocketAssumption DEF WsTypes, SentInv
  <1>3. \A m \in 1..Len(sent) : sent[m] = sent[n] => m = n
    BY <1>2, UniqueMessage
  <1>4. (CHOOSE m \in 1..Len(sent) : sent[m] = sent[n]) = n
    BY <1>3
  <1>. QED  BY <1>1, <1>4 DEF MessageOf

LEMMA WsInvInit ==
    ASSUME WsInit
    PROVE  WsInv
  <1>0. Len(<<>>) = 0 /\ \A i \in 1..0 : FALSE
    OBVIOUS
  <1>1. WsTypes /\ closed_ \in BOOLEAN
    <2>1. header \in Frames
      BY DEF WsInit, Frames, Opcodes
    <2>2. closed_ \in BOOLEAN
      BY DEF WsInit
    <2>. QED  BY <2>1, <2>2, WebSocketAssumption DEF WsInit, WsTypes
  <1>2. WsQueues
    BY WebSocketAssumption DEF WsInit, WsQueues, Halves
  <1>3. SentInv
    BY <1>0 DEF WsInit, SentInv, MessagesOK, Shape
  <1>4. WireInv
    BY <1>0 DEF WsInit, WireInv, WireOK
  <1>5. ReadInv
    <2>1. Assembled = 0 /\ Progress = <<>> /\ sent = <<>>
      BY DEF WsInit, Assembled, Progress
    <2>2. ReadOK(0, <<>>, NextFrame, <<>>, Open)
      BY <1>0 DEF ReadOK
    <2>. QED  BY <2>1, <2>2 DEF ReadInv
  <1>6. PlaceInv
    BY WebSocketAssumption DEF WsInit, PlaceInv, Host, Firmware
  <1>7. HostInv
    BY DEF WsInit, HostInv
  <1>8. QueueInv
    BY <1>0 DEF WsInit, QueueInv, QueueOK
  <1>. QED  BY <1>1, <1>2, <1>3, <1>4, <1>5, <1>6, <1>7, <1>8 DEF WsInv

\* PeerStartsFrame, whatever frame it starts.
LEMMA NewFrame ==
    ASSUME WsInv, PeerStartsFrame
    PROVE  \E g \in Frames :
              /\ half_frame' = <<g>> /\ wire' = Append(wire, [part |-> "head", f |-> g])
              /\ g.f = frames_used + 1
              /\ sent' \in Seq(Seq(Nat)) /\ Len(sent) <= Len(sent')
              /\ Grows(sent, Open, sent', Open', frames_used + 1)
              /\ MessagesOK(sent', Open', frames_used + 1)
              /\ FrameFits(g, sent', Open')
              /\ peer_sends' = "message" => Len(sent') > 0
              /\ peer_sends' \in {"idle", "message", "cut", "closed"}
  <1>1. PICK op \in Opcodes, fin \in BOOLEAN, len \in {0, 1} :
          /\ op # "text" => fin /\ len = 0
          /\ len = 0 /\ op = "text" => ~fin /\ peer_sends = "idle"
          /\ LET f == [f |-> frames_used + 1, op |-> op, fin |-> fin, len |-> len]
             IN  /\ half_frame' = <<f>> /\ wire' = Append(wire, [part |-> "head", f |-> f])
                 /\ sent' = IF op # "text" THEN sent
                            ELSE LET add == IF len = 1 THEN <<f.f>> ELSE <<>>
                                 IN  IF peer_sends = "message"
                                     THEN [sent EXCEPT ![Len(sent)] = @ \o add]
                                     ELSE Append(sent, add)
          /\ peer_sends' = IF op = "close" THEN PeerClosed
                           ELSE IF op = "text" THEN (IF fin THEN "idle" ELSE "message")
                           ELSE peer_sends
    BY Zenon DEF PeerStartsFrame
  <1> DEFINE g == [f |-> frames_used + 1, op |-> op, fin |-> fin, len |-> len]
  <1>2. /\ op # "text" => fin /\ len = 0
        /\ len = 0 /\ op = "text" => ~fin /\ peer_sends = "idle"
        /\ peer_sends \in {"idle", "message"}
    BY <1>1 DEF PeerStartsFrame
  <1>3. half_frame' = <<g>> /\ wire' = Append(wire, [part |-> "head", f |-> g])
    BY <1>1
  <1>4. g.f = frames_used + 1 /\ g.op = op /\ g.fin = fin /\ g.len = len
    OBVIOUS
  <1>5. /\ sent' = IF op # "text" THEN sent
                   ELSE LET add == IF len = 1 THEN <<frames_used + 1>> ELSE <<>>
                        IN  IF peer_sends = "message"
                            THEN [sent EXCEPT ![Len(sent)] = @ \o add]
                            ELSE Append(sent, add)
        /\ peer_sends' = IF op = "close" THEN PeerClosed
                         ELSE IF op = "text" THEN (IF fin THEN "idle" ELSE "message")
                         ELSE peer_sends
    BY <1>1, <1>4
  <1> DEFINE used == frames_used
  <1>6. /\ used \in Nat /\ sent \in Seq(Seq(Nat)) /\ MessagesOK(sent, Open, used) /\ Len(sent) \in Nat
        /\ peer_sends = "message" => Len(sent) > 0
    BY WebSocketAssumption DEF WsInv, WsTypes, WsQueues, SentInv
  <1>7. g \in Frames /\ g.f = used + 1 /\ g.op = op /\ g.fin = fin /\ g.len = len
    BY <1>6, <1>4 DEF Frames
  <1> HIDE DEF g
  <1>8. Open \in BOOLEAN /\ Open' \in BOOLEAN
    BY DEF Open
  <1>9. \A n \in 1..Len(sent) : \A i \in 1..Len(sent[n]) : sent[n][i] # used + 1
    <2>1. Shape(sent)
      BY <1>6 DEF MessagesOK
    <2>2. \A n \in 1..Len(sent) : \A i \in 1..Len(sent[n]) : sent[n][i] \in Nat /\ sent[n][i] <= used
      BY <1>6, <2>1 DEF MessagesOK, Shape
    <2>. QED  BY <1>6, <2>2
  <1> DEFINE Goal == /\ sent' \in Seq(Seq(Nat)) /\ Len(sent) <= Len(sent')
                     /\ Grows(sent, Open, sent', Open', used + 1)
                     /\ MessagesOK(sent', Open', used + 1)
                     /\ FrameFits(g, sent', Open')
                     /\ peer_sends' = "message" => Len(sent') > 0
  <1>10. ASSUME op # "text" PROVE Goal
    <2>1. sent' = sent
      BY <1>5, <1>10
    <2>2. Open' <=> Open
      BY <1>5, <1>10 DEF Open, PeerClosed
    <2>3. Open' = Open
      BY <1>8, <2>2
    <2>4. Grows(sent, Open, sent, Open, used + 1) /\ MessagesOK(sent, Open, used + 1)
      BY <1>6, <1>8, GrowsByNone
    <2>5. FrameFits(g, sent, Open)
      BY <1>7, <1>9, <1>10 DEF FrameFits
    <2>6. peer_sends' = "message" => Len(sent) > 0
      BY <1>5, <1>6, <1>10 DEF PeerClosed
    <2>. QED  BY <1>6, <2>1, <2>3, <2>4, <2>5, <2>6
  <1>11. ASSUME op = "text", peer_sends = "idle" PROVE Goal
    <2> DEFINE add == IF len = 1 THEN <<used + 1>> ELSE <<>>
               L == Len(sent)
    <2>1. sent' = Append(sent, add)
      BY <1>5, <1>7, <1>11
    <2>2. add \in Seq(Nat) /\ Len(add) = len /\ (len = 1 => add[1] = used + 1)
      BY <1>6
    <2>3. Open = FALSE /\ Open' = ~fin
      BY <1>5, <1>11 DEF Open
    <2> HIDE DEF add
    <2>4. /\ sent' \in Seq(Seq(Nat)) /\ Len(sent') = L + 1 /\ sent'[L + 1] = add
          /\ \A n \in 1..L : sent'[n] = sent[n]
      BY <1>6, <2>1, <2>2
    <2>5. Grows(sent, FALSE, sent', ~fin, used + 1) /\ MessagesOK(sent', ~fin, used + 1)
      <3>1. Len(add) \in 0..1 /\ (Len(add) = 0 => ~fin) /\ (Len(add) = 1 => add[1] = used + 1)
        BY <1>2, <1>11, <2>2
      <3>2. MessagesOK(sent, FALSE, used) /\ (~fin) \in BOOLEAN
        BY <1>6, <2>3
      <3>. QED  BY <1>6, <2>4, <3>1, <3>2, GrowsByMessage
    <2>6. FrameFits(g, sent', ~fin)
      <3>1. CASE len = 1
        <4>1. L + 1 \in 1..Len(sent') /\ 1 \in 1..Len(sent'[L + 1]) /\ sent'[L + 1][1] = g.f
              /\ 1 = Len(sent'[L + 1])
          <5>1. sent'[L + 1] = add /\ Len(add) = 1 /\ add[1] = g.f
            BY <1>7, <2>2, <2>4, <3>1
          <5>2. L + 1 \in 1..Len(sent') /\ 1 \in 1..1
            BY <1>6, <2>4
          <5>. QED  BY <5>1, <5>2
        <4>2. WholeIn(L + 1, sent', ~fin) <=> fin
          BY <1>6, <2>4 DEF WholeIn
        <4>. QED  BY <1>7, <1>11, <3>1, <4>1, <4>2 DEF FrameFits
      <3>2. CASE len = 0
        <4>1. \A n \in 1..Len(sent') : n \in 1..L \/ n = L + 1
          BY <1>6, <2>4
        <4>2. \A i \in 1..Len(sent'[L + 1]) : FALSE
          BY <2>2, <2>4, <3>2
        <4>3. \A n \in 1..Len(sent') : \A i \in 1..Len(sent'[n]) : sent'[n][i] # g.f
          BY <1>7, <1>9, <2>4, <4>1, <4>2
        <4>4. ~fin
          BY <1>2, <1>11, <3>2
        <4>. QED  BY <1>7, <3>2, <4>3, <4>4 DEF FrameFits
      <3>. QED  BY <3>1, <3>2
    <2>7. /\ Grows(sent, Open, sent', Open', used + 1) /\ MessagesOK(sent', Open', used + 1)
          /\ FrameFits(g, sent', Open')
      BY <2>3, <2>5, <2>6, Zenon
    <2>8. Len(sent) <= Len(sent') /\ Len(sent') > 0
      BY <1>6, <2>4
    <2>. QED  BY <2>4, <2>7, <2>8
  <1>12. ASSUME op = "text", peer_sends = "message" PROVE Goal
    <2> DEFINE L == Len(sent)
    <2>1. len = 1 /\ L \in 1..L /\ sent[L] \in Seq(Nat) /\ Len(sent[L]) \in Nat /\ L > 0
      BY <1>6, <1>2, <1>12
    <2>2. Open = TRUE /\ Open' = ~fin
      BY <1>5, <1>12 DEF Open
    <2> DEFINE last == sent[L] \o <<used + 1>>
    <2>3. sent' = [sent EXCEPT ![L] = last]
      BY <1>5, <1>7, <1>12, <2>1
    <2>4. /\ last \in Seq(Nat) /\ Len(last) = Len(sent[L]) + 1 /\ last[Len(sent[L]) + 1] = used + 1
          /\ \A i \in 1..Len(sent[L]) : last[i] = sent[L][i]
      BY <1>6, <2>1
    <2> HIDE DEF last
    <2>5. /\ sent' \in Seq(Seq(Nat)) /\ Len(sent') = L /\ sent'[L] = last
          /\ \A n \in 1..L : n # L => sent'[n] = sent[n]
      BY <1>6, <2>1, <2>3, <2>4
    <2>6. Grows(sent, TRUE, sent', ~fin, used + 1) /\ MessagesOK(sent', ~fin, used + 1)
      <3>1. MessagesOK(sent, TRUE, used) /\ (~fin) \in BOOLEAN
        BY <1>6, <2>2
      <3>2. /\ Len(sent'[L]) = Len(sent[L]) + 1 /\ sent'[L][Len(sent[L]) + 1] = used + 1
            /\ \A i \in 1..Len(sent[L]) : sent'[L][i] = sent[L][i]
        BY <2>4, <2>5
      <3>. QED  BY <1>6, <2>1, <2>5, <3>1, <3>2, GrowsByFragment
    <2>7. FrameFits(g, sent', ~fin)
      <3>1. /\ L \in 1..Len(sent') /\ Len(last) \in 1..Len(sent'[L])
            /\ sent'[L][Len(last)] = g.f /\ Len(last) = Len(sent'[L])
        BY <1>7, <2>1, <2>4, <2>5
      <3>2. WholeIn(L, sent', ~fin) <=> fin
        BY <1>6, <2>5 DEF WholeIn
      <3>. QED  BY <1>7, <1>12, <2>1, <3>1, <3>2 DEF FrameFits
    <2>8. /\ Grows(sent, Open, sent', Open', used + 1) /\ MessagesOK(sent', Open', used + 1)
          /\ FrameFits(g, sent', Open')
      BY <2>2, <2>6, <2>7, Zenon
    <2>9. Len(sent) <= Len(sent') /\ Len(sent') > 0
      BY <1>6, <2>1, <2>5
    <2>. QED  BY <2>5, <2>8, <2>9
  <1>13. Goal
    BY <1>2, <1>10, <1>11, <1>12
  <1>14. peer_sends' \in {"idle", "message", "cut", "closed"}
    BY <1>5, <1>2 DEF PeerClosed
  <1>. QED  BY <1>3, <1>7, <1>13, <1>14

\* Facts of the invariant that the steps keep using.
LEMMA WsFacts ==
    ASSUME WsInv
    PROVE  /\ frames_used \in Nat /\ returned \in Nat /\ sent \in Seq(Seq(Nat)) /\ Len(sent) \in Nat
           /\ MessagesOK(sent, Open, frames_used) /\ Shape(sent) /\ Len(sent) <= frames_used
           /\ wire \in Seq(Cells) /\ half_frame \in Halves /\ partial \in Seq(Nat)
           /\ Assembled \in Nat /\ Progress \in Seq(Nat)
           /\ NextFrame \in Nat /\ NextFrame <= frames_used + 1
  <1>1. /\ frames_used \in Nat /\ returned \in Nat /\ sent \in Seq(Seq(Nat)) /\ Len(sent) \in Nat
        /\ wire \in Seq(Cells) /\ half_frame \in Halves /\ partial \in Seq(Nat) /\ ws_queue \in Seq(Nat)
    BY WebSocketAssumption DEF WsInv, WsTypes, WsQueues
  <1>2. MessagesOK(sent, Open, frames_used) /\ Shape(sent) /\ Len(sent) <= frames_used
    BY DEF WsInv, SentInv, MessagesOK
  <1>3. Assembled \in Nat /\ Progress \in Seq(Nat)
    BY <1>1 DEF Assembled, Progress
  <1>4. NextFrame \in Nat /\ NextFrame <= frames_used + 1
    BY <1>1, NextBounded DEF WsInv, WireInv, NextFrame
  <1>. QED  BY <1>1, <1>2, <1>3, <1>4

LEMMA PeerStartsKeeps ==
    ASSUME WsInv, PeerStartsFrame
    PROVE  WsInv'
  <1>1. PICK g \in Frames :
              /\ half_frame' = <<g>> /\ wire' = Append(wire, [part |-> "head", f |-> g])
              /\ g.f = frames_used + 1
              /\ sent' \in Seq(Seq(Nat)) /\ Len(sent) <= Len(sent')
              /\ Grows(sent, Open, sent', Open', frames_used + 1)
              /\ MessagesOK(sent', Open', frames_used + 1)
              /\ FrameFits(g, sent', Open')
              /\ peer_sends' = "message" => Len(sent') > 0
              /\ peer_sends' \in {"idle", "message", "cut", "closed"}
    BY NewFrame
  <1>2. /\ half_frame = <<>> /\ frames_used < MaxWsFrames /\ frames_used' = frames_used + 1
        /\ handle \in {"open", "connecting"}
        /\ UNCHANGED <<ws_client, handle, closed_, partial, ws_queue, ws_pc, header,
                       connect_result, library, returned, dropped>>
    BY DEF PeerStartsFrame, connection
  <1>3. /\ frames_used \in Nat /\ sent \in Seq(Seq(Nat)) /\ Len(sent) \in Nat /\ Shape(sent)
        /\ wire \in Seq(Cells) /\ Assembled \in Nat /\ Progress \in Seq(Nat)
        /\ NextFrame \in Nat /\ NextFrame <= frames_used + 1
    BY WsFacts
  <1>4. Shape(sent')
    BY <1>1 DEF MessagesOK
  <1>5. WireOK(wire, <<>>, frames_used, sent, Open)
    BY <1>2 DEF WsInv, WireInv
  <1>6. /\ WireOK(wire', <<g>>, frames_used + 1, sent', Open') /\ wire' \in Seq(Cells)
        /\ NextOn(wire', <<g>>, frames_used + 1) = NextOn(wire, <<>>, frames_used)
        /\ wire' # <<>>
        /\ wire = <<>> => wire'[1].part = "head"
        /\ wire # <<>> => wire'[1] = wire[1]
    <2> DEFINE cell == [part |-> "head", f |-> g]
    <2>1. wire' = Append(wire, cell) /\ cell \in Cells /\ cell.part = "head" /\ cell.f = g
      BY <1>1 DEF Cells
    <2> HIDE DEF cell
    <2>2. Grows(sent, Open, sent', Open', frames_used + 1) /\ g.f = frames_used + 1 /\ FrameFits(g, sent', Open')
      BY <1>1
    <2>3. frames_used \in Nat /\ wire \in Seq(Cells) /\ Shape(sent)
      BY <1>3
    <2>. QED  BY <1>4, <1>5, <2>1, <2>2, <2>3, WireStarts
  <1>7. NextFrame' = NextFrame /\ Assembled' = Assembled /\ Progress' = Progress /\ (Usable' <=> Usable)
    BY <1>1, <1>2, <1>6 DEF NextFrame, Assembled, Progress, Usable, Host
  <1>8. WsTypes' /\ (closed_ \in BOOLEAN)'
    BY <1>1, <1>2, WebSocketAssumption DEF WsInv, WsTypes
  <1>9. WsQueues'
    BY <1>1, <1>2, <1>6 DEF WsInv, WsQueues, Halves
  <1>10. SentInv'
    BY <1>1, <1>2 DEF SentInv
  <1>11. WireInv'
    BY <1>1, <1>2, <1>6 DEF WireInv
  <1>12. ReadInv'
    <2>1. SUFFICES ASSUME Usable PROVE ReadOK(Assembled, Progress, NextFrame, sent', Open')
      BY <1>7 DEF ReadInv
    <2>2. ReadOK(Assembled, Progress, NextFrame, sent, Open)
      BY <2>1 DEF WsInv, ReadInv
    <2>3. Grows(sent, Open, sent', Open', frames_used + 1) /\ MessagesOK(sent', Open', frames_used + 1)
      BY <1>1
    <2>. QED  BY <1>3, <2>2, <2>3, ReadGrows
  <1>13. PlaceInv'
    BY <1>2 DEF WsInv, PlaceInv, Host, Firmware
  <1>14. HostInv'
    <2>1. SUFFICES ASSUME Host
          PROVE  /\ Usable /\ ws_pc # "rest" => wire'[1].part = "head"
                 /\ ws_pc = "rest" => wire'[1].part = "body" /\ wire'[1].f = header
      BY <1>2, <1>6, <1>7 DEF HostInv, Host
    <2>2. /\ Usable /\ ws_pc # "rest" => IF wire = <<>> THEN half_frame = <<>> ELSE wire[1].part = "head"
          /\ ws_pc = "rest" => IF wire = <<>> THEN half_frame = <<header>>
                                 ELSE wire[1].part = "body" /\ wire[1].f = header
      BY <2>1 DEF WsInv, HostInv
    <2>3. wire = <<>> => ws_pc # "rest"
      BY <1>2, <2>2
    <2>. QED  BY <1>6, <2>2, <2>3
  <1>15. QueueInv'
    <2>1. QueueOK(ws_queue, returned, Len(sent), dropped)
      BY DEF WsInv, QueueInv
    <2>2. returned \in Nat /\ Len(sent') \in Nat /\ Len(sent) <= Len(sent') /\ ws_queue \in Seq(Nat)
      BY <1>1 DEF WsInv, WsTypes, WsQueues
    <2>3. QueueOK(ws_queue, returned, Len(sent'), dropped)
      <3>1. \A i \in 1..Len(ws_queue) : ws_queue[i] \in Nat
        BY <2>2
      <3>. QED  BY <1>3, <2>1, <2>2, <3>1 DEF QueueOK
    <2>. QED  BY <1>2, <2>3 DEF QueueInv
  <1>. QED  BY <1>8, <1>9, <1>10, <1>11, <1>12, <1>13, <1>14, <1>15 DEF WsInv

LEMMA PeerEndsKeeps ==
    ASSUME WsInv, PeerEndsFrame
    PROVE  WsInv'
  <1>1. /\ half_frame # <<>> /\ half_frame' = <<>>
        /\ wire' = Append(wire, [part |-> "body", f |-> half_frame[1]])
        /\ UNCHANGED <<ws_client, handle, closed_, partial, ws_queue, ws_pc, header,
                       connect_result, library, returned, dropped, sent, peer_sends, frames_used>>
    BY DEF PeerEndsFrame, connection
  <1>2. frames_used \in Nat /\ wire \in Seq(Cells) /\ half_frame \in Halves
    BY WsFacts
  <1>3. PICK g \in Frames : half_frame = <<g>>
    BY <1>1, <1>2 DEF Halves
  <1>4. WireOK(wire, <<g>>, frames_used, sent, Open) /\ wire' = Append(wire, [part |-> "body", f |-> g])
    BY <1>1, <1>3 DEF WsInv, WireInv
  <1>5. /\ WireOK(wire', <<>>, frames_used, sent, Open) /\ wire' \in Seq(Cells)
        /\ NextOn(wire', <<>>, frames_used) = NextOn(wire, <<g>>, frames_used)
        /\ wire' # <<>>
        /\ wire = <<>> => wire'[1].part = "body" /\ wire'[1].f = g
        /\ wire # <<>> => wire'[1] = wire[1]
    <2> DEFINE cell == [part |-> "body", f |-> g]
    <2>1. wire' = Append(wire, cell) /\ cell \in Cells /\ cell.part = "body" /\ cell.f = g
      BY <1>4 DEF Cells
    <2> HIDE DEF cell
    <2>. QED  BY <1>2, <1>4, <2>1, WireEnds
  <1>6. (Open' <=> Open) /\ NextFrame' = NextFrame /\ Assembled' = Assembled /\ Progress' = Progress
        /\ (Usable' <=> Usable)
    BY <1>1, <1>3, <1>5 DEF Open, NextFrame, Assembled, Progress, Usable, Host
  <1>7. Open' = Open
    BY <1>1 DEF Open
  <1>8. WsTypes' /\ (closed_ \in BOOLEAN)' /\ WsQueues'
    BY <1>1, <1>5 DEF WsInv, WsTypes, WsQueues, Halves
  <1>9. SentInv' /\ PlaceInv' /\ QueueInv'
    <2>1. SentInv'
      BY <1>1, <1>7 DEF WsInv, SentInv
    <2>2. PlaceInv'
      BY <1>1 DEF WsInv, PlaceInv, Host, Firmware
    <2>3. QueueInv'
      BY <1>1 DEF WsInv, QueueInv
    <2>. QED  BY <2>1, <2>2, <2>3
  <1>10. WireInv'
    BY <1>1, <1>5, <1>7 DEF WireInv
  <1>11. ReadInv'
    BY <1>1, <1>6, <1>7 DEF WsInv, ReadInv
  <1>12. HostInv'
    <2>1. SUFFICES ASSUME Host
          PROVE  /\ Usable /\ ws_pc # "rest" => wire'[1].part = "head"
                 /\ ws_pc = "rest" => wire'[1].part = "body" /\ wire'[1].f = header
      BY <1>1, <1>5, <1>6 DEF HostInv, Host
    <2>2. /\ Usable /\ ws_pc # "rest" => IF wire = <<>> THEN half_frame = <<>> ELSE wire[1].part = "head"
          /\ ws_pc = "rest" => IF wire = <<>> THEN half_frame = <<header>>
                                 ELSE wire[1].part = "body" /\ wire[1].f = header
      BY <2>1 DEF WsInv, HostInv
    <2>3. wire = <<>> => ~(Usable /\ ws_pc # "rest")
      BY <1>1, <2>2
    <2>4. wire = <<>> /\ ws_pc = "rest" => header = g
      BY <1>3, <2>2
    <2>. QED  BY <1>5, <2>2, <2>3, <2>4
  <1>. QED  BY <1>8, <1>9, <1>10, <1>11, <1>12 DEF WsInv

\* WireRead, for the wire of a state.
LEMMA WireStep ==
    ASSUME WsInv, wire # <<>>
    PROVE  /\ WireOK(Tail(wire), half_frame, frames_used, sent, Open) /\ Tail(wire) \in Seq(Cells)
           /\ Head(wire) = wire[1] /\ wire[1] \in Cells /\ FrameFits(wire[1].f, sent, Open)
           /\ wire[1].f \in Frames /\ wire[1].f.f \in Nat /\ NextFrame = wire[1].f.f
           /\ wire[1].part = "head" =>
                 /\ NextOn(Tail(wire), half_frame, frames_used) = wire[1].f.f
                 /\ IF Tail(wire) = <<>> THEN half_frame = <<wire[1].f>>
                    ELSE Tail(wire)[1].part = "body" /\ Tail(wire)[1].f = wire[1].f
           /\ wire[1].part = "body" =>
                 /\ NextOn(Tail(wire), half_frame, frames_used) = wire[1].f.f + 1
                 /\ IF Tail(wire) = <<>> THEN half_frame = <<>> ELSE Tail(wire)[1].part = "head"
  <1>1. /\ wire \in Seq(Cells) /\ half_frame \in Halves /\ frames_used \in Nat
        /\ WireOK(wire, half_frame, frames_used, sent, Open)
    BY WsFacts DEF WsInv, WireInv
  <1>2. wire[1] \in Cells
    BY <1>1, WireRead
  <1>3. wire[1].f \in Frames /\ wire[1].f.f \in Nat
    BY <1>2 DEF Cells, Frames
  <1>. QED  BY <1>1, <1>3, WireRead DEF NextFrame

\* The host reads the first byte of a frame, never a byte of its payload.
LEMMA HeadKeeps ==
    ASSUME WsInv, HostReadsHead
    PROVE  WsInv' /\ returned' = returned
  <1>1. Host /\ ws_pc = "first_byte" /\ wire # <<>> /\ wire' = Tail(wire)
    BY DEF HostReadsHead
  <1>2. handle = "open" /\ ~closed_ /\ Usable /\ wire[1].part = "head"
    BY <1>1 DEF WsInv, PlaceInv, HostInv, Usable
  <1>3. Head(wire) = wire[1]
    BY <1>1, WireStep
  <1>4. /\ ws_pc' = "rest" /\ header' = wire[1].f
        /\ UNCHANGED <<ws_client, handle, closed_, partial, ws_queue, connect_result,
                       library, sent, peer_sends, half_frame, frames_used, returned, dropped>>
    BY <1>2, <1>3 DEF HostReadsHead, peer
  <1>5. /\ WireOK(Tail(wire), half_frame, frames_used, sent, Open) /\ Tail(wire) \in Seq(Cells)
        /\ wire[1].f \in Frames /\ NextFrame = wire[1].f.f
        /\ NextOn(Tail(wire), half_frame, frames_used) = wire[1].f.f
        /\ IF Tail(wire) = <<>> THEN half_frame = <<wire[1].f>>
           ELSE Tail(wire)[1].part = "body" /\ Tail(wire)[1].f = wire[1].f
    BY <1>1, <1>2, WireStep
  <1>6. Open' = Open /\ NextFrame' = NextFrame /\ Assembled' = Assembled /\ Progress' = Progress
    <2>1. Open' = Open
      BY <1>4 DEF Open
    <2>2. NextFrame' = NextFrame
      BY <1>1, <1>4, <1>5 DEF NextFrame
    <2>3. Assembled' = Assembled /\ Progress' = Progress
      BY <1>1, <1>4 DEF Assembled, Progress, Host
    <2>. QED  BY <2>1, <2>2, <2>3
  <1>7. WsTypes' /\ (closed_ \in BOOLEAN)' /\ WsQueues'
    BY <1>1, <1>4, <1>5 DEF WsInv, WsTypes, WsQueues
  <1>8. SentInv'
    BY <1>4, <1>6 DEF WsInv, SentInv
  <1>9. WireInv'
    BY <1>1, <1>4, <1>5, <1>6 DEF WireInv
  <1>10. ReadInv'
    BY <1>2, <1>4, <1>6 DEF WsInv, ReadInv
  <1>11. PlaceInv'
    BY <1>1, <1>2, <1>4 DEF WsInv, PlaceInv, Host, Firmware
  <1>12. HostInv'
    BY <1>1, <1>4, <1>5 DEF HostInv, Host
  <1>13. QueueInv'
    BY <1>4 DEF WsInv, QueueInv
  <1>. QED  BY <1>4, <1>7, <1>8, <1>9, <1>10, <1>11, <1>12, <1>13 DEF WsInv

\* The host reads the rest: at the end of a message, of the next one.
LEMMA RestKeeps ==
    ASSUME WsInv, HostReadsRest
    PROVE  WsInv' /\ (returned' # returned => returned' = returned + 1)
  <1> DEFINE content == IF header.len = 1 THEN Append(partial, header.f) ELSE partial
  <1>1. Host /\ ws_pc = "rest" /\ wire # <<>> /\ wire' = Tail(wire) /\ header' = header
    BY DEF HostReadsRest
  <1>2. /\ handle = "open" /\ ~closed_ /\ Usable /\ wire[1].part = "body" /\ wire[1].f = header
        /\ ws_queue = <<>>
    BY <1>1 DEF WsInv, PlaceInv, HostInv, Usable
  <1>3. /\ WireOK(Tail(wire), half_frame, frames_used, sent, Open) /\ Tail(wire) \in Seq(Cells)
        /\ header \in Frames /\ NextFrame = header.f /\ FrameFits(header, sent, Open)
        /\ NextOn(Tail(wire), half_frame, frames_used) = header.f + 1
        /\ IF Tail(wire) = <<>> THEN half_frame = <<>> ELSE Tail(wire)[1].part = "head"
    BY <1>1, <1>2, WireStep
  <1>4. /\ sent \in Seq(Seq(Nat)) /\ MessagesOK(sent, Open, frames_used) /\ frames_used \in Nat
        /\ returned \in Nat /\ partial \in Seq(Nat) /\ Len(sent) \in Nat
    BY WsFacts
  <1>5. ReadOK(returned, partial, header.f, sent, Open)
    BY <1>1, <1>2, <1>3 DEF WsInv, ReadInv, Assembled, Progress
  <1>6. /\ header.op # "text" \/ header.len = 0 => ReadOK(returned, partial, header.f + 1, sent, Open)
        /\ header.op = "text" /\ header.len = 1 /\ ~header.fin =>
                 ReadOK(returned, Append(partial, header.f), header.f + 1, sent, Open)
        /\ header.op = "text" /\ header.fin =>
                 /\ header.len = 1 /\ returned + 1 \in 1..Len(sent) /\ WholeIn(returned + 1, sent, Open)
                 /\ Append(partial, header.f) = sent[returned + 1]
                 /\ ReadOK(returned + 1, <<>>, header.f + 1, sent, Open)
    BY <1>3, <1>4, <1>5, TakesFrame
  <1>7. header.op \in Opcodes /\ header.len \in {0, 1} /\ header.f \in Nat
    BY <1>3 DEF Frames
  <1>8. /\ UNCHANGED <<ws_client, handle, ws_queue, connect_result, library, header,
                        sent, peer_sends, half_frame, frames_used, dropped>>
        /\ \/ ws_pc' = "idle" /\ returned' = returned /\ closed_' = TRUE /\ partial' = partial
           \/ /\ FrameOutcome = "message" /\ ws_pc' = "idle" /\ returned' = MessageOf(content)
              /\ closed_' = closed_ /\ partial' = partial
           \/ /\ FrameOutcome \in {"next", "more"} /\ ws_pc' = "first_byte" /\ returned' = returned
              /\ partial' = (IF FrameOutcome = "more" THEN content ELSE partial) /\ closed_' = closed_
    BY DEF HostReadsRest, HostReturns, peer
  <1> HIDE DEF content
  <1>9. Open' = Open /\ NextFrame' = header.f + 1 /\ Assembled' = returned'
    <2>1. Open' = Open
      BY <1>8 DEF Open
    <2>2. NextFrame' = header.f + 1
      BY <1>1, <1>3, <1>8 DEF NextFrame
    <2>3. Assembled' = returned'
      BY <1>2, <1>8 DEF Assembled
    <2>. QED  BY <2>1, <2>2, <2>3
  <1> DEFINE Frame == /\ partial' \in Seq(Nat) /\ Len(partial') <= MaxMessageFrames
                      /\ returned' \in Nat /\ returned' <= Len(sent)
                      /\ returned' # returned => returned' = returned + 1
                      /\ closed_' \in BOOLEAN /\ ws_pc' \in {"idle", "first_byte"}
                      /\ ws_pc' # "idle" => ~closed_'
                      /\ ~closed_' => ReadOK(returned', Progress', header.f + 1, sent, Open)
  <1>10. partial \in Seq(Nat) /\ Len(partial) <= MaxMessageFrames /\ returned <= Len(sent)
    BY <1>4 DEF WsInv, WsQueues, QueueInv, QueueOK
  <1>11. ASSUME ws_pc' = "idle" /\ returned' = returned /\ closed_' = TRUE /\ partial' = partial
         PROVE  Frame
    BY <1>4, <1>10, <1>11
  <1>12. ASSUME /\ FrameOutcome = "message" /\ ws_pc' = "idle" /\ returned' = MessageOf(content)
                /\ closed_' = closed_ /\ partial' = partial
         PROVE  Frame
    <2>1. header.op = "text" /\ header.fin
      BY <1>7, <1>12 DEF FrameOutcome, Opcodes
    <2>2. /\ content = sent[returned + 1] /\ returned + 1 \in 1..Len(sent)
          /\ WholeIn(returned + 1, sent, Open) /\ ReadOK(returned + 1, <<>>, header.f + 1, sent, Open)
      BY <1>6, <2>1 DEF content
    <2>3. MessageOf(sent[returned + 1]) = returned + 1
      BY <2>2, MessageIs DEF WsInv
    <2>4. returned' = returned + 1
      BY <1>12, <2>2, <2>3
    <2>5. Progress' = <<>>
      BY <1>1, <1>8, <1>12 DEF Progress, Host
    <2>6. closed_' \in BOOLEAN
      BY <1>2, <1>12 DEF WsInv
    <2>. QED  BY <1>4, <1>10, <1>12, <2>2, <2>4, <2>5, <2>6
  <1>13. ASSUME /\ FrameOutcome \in {"next", "more"} /\ ws_pc' = "first_byte" /\ returned' = returned
                /\ partial' = (IF FrameOutcome = "more" THEN content ELSE partial) /\ closed_' = closed_
         PROVE  Frame
    <2>1. Progress' = partial'
      BY <1>13 DEF Progress
    <2>2. closed_' \in BOOLEAN /\ ~closed_'
      BY <1>2, <1>13 DEF WsInv
    <2>3. CASE FrameOutcome = "next"
      <3>1. header.op # "text" /\ partial' = partial
        BY <1>7, <1>13, <2>3 DEF FrameOutcome, Opcodes
      <3>. QED  BY <1>4, <1>6, <1>10, <1>13, <2>1, <2>2, <3>1
    <2>4. CASE FrameOutcome = "more"
      <3>1. /\ header.op = "text" /\ ~header.fin /\ Len(partial) + header.len <= MaxMessageFrames
            /\ partial' = content
        <4>1. Len(partial) + header.len \in Nat /\ MaxMessageFrames \in Nat
          BY <1>4, <1>7, WebSocketAssumption
        <4>. QED  BY <1>7, <1>13, <2>4, <4>1 DEF FrameOutcome, Opcodes
      <3>2. CASE header.len = 1
        <4>1. content = Append(partial, header.f) /\ content \in Seq(Nat) /\ Len(content) = Len(partial) + 1
          BY <1>4, <1>7, <3>2 DEF content
        <4>. QED  BY <1>4, <1>6, <1>10, <1>13, <2>1, <2>2, <3>1, <3>2, <4>1
      <3>3. CASE header.len = 0
        <4>1. content = partial
          BY <3>3 DEF content
        <4>. QED  BY <1>4, <1>6, <1>10, <1>13, <2>1, <2>2, <3>1, <3>3, <4>1
      <3>. QED  BY <1>7, <3>2, <3>3
    <2>. QED  BY <1>13, <2>3, <2>4
  <1>14. Frame
    BY <1>8, <1>11, <1>12, <1>13
  <1> HIDE DEF Frame
  <1>15. WsTypes' /\ (closed_ \in BOOLEAN)'
    BY <1>1, <1>8, <1>14 DEF WsInv, WsTypes, Frame
  <1>16. WsQueues'
    BY <1>1, <1>3, <1>8, <1>14 DEF WsInv, WsQueues, Frame
  <1>17. SentInv'
    BY <1>8, <1>9 DEF WsInv, SentInv
  <1>18. WireInv'
    BY <1>1, <1>3, <1>8, <1>9 DEF WireInv
  <1>19. ReadInv'
    <2>1. Usable' => ~closed_'
      BY DEF Usable
    <2>. QED  BY <1>8, <1>9, <1>14, <2>1 DEF ReadInv, Frame
  <1>20. PlaceInv'
    BY <1>1, <1>2, <1>8, <1>14 DEF WsInv, PlaceInv, Host, Firmware, Frame
  <1>21. HostInv'
    BY <1>1, <1>3, <1>8, <1>14 DEF HostInv, Frame
  <1>22. QueueInv'
    <2>1. ws_queue' = <<>> /\ Len(<<>>) = 0 /\ \A i \in 1..0 : FALSE
      BY <1>2, <1>8
    <2>. QED  BY <1>8, <1>14, <2>1 DEF QueueInv, QueueOK, Frame
  <1>. QED  BY <1>14, <1>15, <1>16, <1>17, <1>18, <1>19, <1>20, <1>21, <1>22 DEF WsInv, Frame

\* The library's task delivers a chunk of a frame.
LEMMA DataKeeps ==
    ASSUME WsInv, HandleData
    PROVE  WsInv' /\ returned' = returned
  <1> DEFINE cell == wire[1]
             g == wire[1].f
             result == Add(g, cell.part = "body")
             content == IF g.len = 1 THEN Append(partial, g.f) ELSE partial
  <1>1. /\ Firmware /\ ~Host /\ library = "on" /\ wire # <<>> /\ wire' = Tail(wire)
        /\ UNCHANGED <<ws_client, handle, ws_pc, header, library, sent, peer_sends, half_frame,
                       frames_used, returned>>
    BY DEF HandleData, peer, Firmware, Host
  <1>2. handle \in {"connecting", "open"} /\ ws_pc = "idle" /\ Progress = partial
    BY <1>1 DEF WsInv, PlaceInv, Progress
  <1>3. /\ WireOK(Tail(wire), half_frame, frames_used, sent, Open) /\ Tail(wire) \in Seq(Cells)
        /\ Head(wire) = cell /\ cell \in Cells /\ FrameFits(g, sent, Open)
        /\ g \in Frames /\ g.f \in Nat /\ NextFrame = g.f
        /\ cell.part = "head" => NextOn(Tail(wire), half_frame, frames_used) = g.f
        /\ cell.part = "body" => NextOn(Tail(wire), half_frame, frames_used) = g.f + 1
    BY <1>1, WireStep
  <1>4. /\ IF g.op # "text" \/ closed_
           THEN UNCHANGED <<closed_, connect_result, partial, ws_queue, dropped>>
           ELSE /\ partial' = result.progress /\ ws_queue' = result.queue
                /\ dropped' = dropped \cup (ToSet(ws_queue) \ ToSet(result.queue))
                /\ IF result.oversized THEN Closed ELSE UNCHANGED <<closed_, connect_result>>
    BY <1>3 DEF HandleData, IsApplicationDataOpcode
  <1>5. /\ sent \in Seq(Seq(Nat)) /\ MessagesOK(sent, Open, frames_used) /\ frames_used \in Nat
        /\ returned \in Nat /\ partial \in Seq(Nat) /\ Len(sent) \in Nat /\ Assembled \in Nat
        /\ ws_queue \in Seq(Nat) /\ Len(ws_queue) <= MaxQueuedMessages
        /\ Len(partial) \in Nat /\ Len(partial) <= MaxMessageFrames
        /\ MaxMessageFrames \in Nat \ {0} /\ MaxQueuedMessages \in Nat \ {0}
        /\ QueueOK(ws_queue, returned, Len(sent), dropped)
        /\ connect_result \in {"none", "pending", "succeeded", "failed"} /\ closed_ \in BOOLEAN
    BY WsFacts, WebSocketAssumption DEF WsInv, WsTypes, WsQueues, QueueInv
  <1>6. g.op \in Opcodes /\ g.len \in {0, 1} /\ g.fin \in BOOLEAN /\ cell.part \in {"head", "body"}
    BY <1>3 DEF Frames, Cells
  <1>7. ~closed_ => ReadOK(Assembled, partial, g.f, sent, Open)
    BY <1>2, <1>3 DEF WsInv, ReadInv, Usable
  <1>8. ~closed_ =>
        /\ g.op # "text" \/ g.len = 0 => ReadOK(Assembled, partial, g.f + 1, sent, Open)
        /\ g.op = "text" /\ g.len = 1 /\ ~g.fin =>
                 ReadOK(Assembled, Append(partial, g.f), g.f + 1, sent, Open)
        /\ g.op = "text" /\ g.fin =>
                 /\ g.len = 1 /\ Assembled + 1 \in 1..Len(sent) /\ WholeIn(Assembled + 1, sent, Open)
                 /\ Append(partial, g.f) = sent[Assembled + 1]
                 /\ ReadOK(Assembled + 1, <<>>, g.f + 1, sent, Open)
    BY <1>3, <1>5, <1>7, TakesFrame
  <1>9. /\ Open' = Open /\ Progress' = partial'
        /\ NextFrame' = IF cell.part = "head" THEN g.f ELSE g.f + 1
        /\ ws_queue' = ws_queue => Assembled' = Assembled
    <2>1. Open' = Open
      BY <1>1 DEF Open
    <2>2. NextFrame' = IF cell.part = "head" THEN g.f ELSE g.f + 1
      BY <1>1, <1>3, <1>6 DEF NextFrame
    <2>3. Progress' = partial' /\ (ws_queue' = ws_queue => Assembled' = Assembled)
      BY <1>1 DEF Progress, Host, Assembled
    <2>. QED  BY <2>1, <2>2, <2>3
  <1> DEFINE Chunk == /\ partial' \in Seq(Nat) /\ Len(partial') <= MaxMessageFrames
                      /\ ws_queue' \in Seq(Nat) /\ Len(ws_queue') <= MaxQueuedMessages
                      /\ connect_result' \in {"none", "pending", "succeeded", "failed"}
                      /\ closed_' \in BOOLEAN
                      /\ QueueOK(ws_queue', returned, Len(sent), dropped')
                      /\ ~closed_' => ReadOK(Assembled', partial', NextFrame', sent, Open)
  <1> HIDE DEF cell, g, result, content
  <1>10. ASSUME g.op # "text" \/ closed_ PROVE Chunk
    <2>1. UNCHANGED <<closed_, connect_result, partial, ws_queue, dropped>>
      BY <1>4, <1>10
    <2>2. ~closed_ => ReadOK(Assembled, partial, NextFrame', sent, Open)
      BY <1>6, <1>7, <1>8, <1>9, <1>10
    <2>. QED  BY <1>5, <1>9, <2>1, <2>2
  <1>11. ASSUME ~(g.op # "text" \/ closed_), cell.part = "head" PROVE Chunk
    <2>1. result = [oversized |-> FALSE, queue |-> ws_queue, progress |-> partial]
      BY <1>5, <1>11 DEF result, Add
    <2>2. UNCHANGED <<closed_, connect_result, partial, ws_queue>> /\ dropped' = dropped
      BY <1>4, <1>11, <2>1
    <2>3. ReadOK(Assembled, partial, NextFrame', sent, Open)
      BY <1>7, <1>9, <1>11
    <2>. QED  BY <1>5, <1>9, <2>2, <2>3
  <1>12. ASSUME ~(g.op # "text" \/ closed_), cell.part = "body" PROVE Chunk
    <2>0. content \in Seq(Nat) /\ Len(content) \in Nat /\ NextFrame' = g.f + 1 /\ g.op = "text" /\ ~closed_
      BY <1>3, <1>5, <1>9, <1>12 DEF content
    <2>1. CASE Len(content) > MaxMessageFrames
      <3>1. result = [oversized |-> TRUE, queue |-> ws_queue, progress |-> <<>>]
        BY <1>12, <2>1 DEF result, Add, content
      <3>2. /\ partial' = <<>> /\ ws_queue' = ws_queue /\ dropped' = dropped /\ closed_' = TRUE
            /\ connect_result' \in {"none", "pending", "succeeded", "failed"}
        BY <1>4, <1>5, <1>12, <3>1 DEF Closed
      <3>. QED  BY <1>5, <3>2
    <2>2. CASE ~(Len(content) > MaxMessageFrames) /\ ~g.fin
      <3>1. result = [oversized |-> FALSE, queue |-> ws_queue, progress |-> content]
        BY <1>12, <2>2 DEF result, Add, content
      <3>2. UNCHANGED <<closed_, connect_result, ws_queue>> /\ dropped' = dropped /\ partial' = content
        BY <1>4, <1>12, <3>1
      <3>3. ReadOK(Assembled, content, g.f + 1, sent, Open)
        BY <1>6, <1>8, <2>0, <2>2 DEF content
      <3>. QED  BY <1>5, <1>9, <2>0, <2>2, <3>2, <3>3
    <2>3. CASE ~(Len(content) > MaxMessageFrames) /\ g.fin
      <3>1. /\ content = sent[Assembled + 1] /\ Assembled + 1 \in 1..Len(sent)
            /\ WholeIn(Assembled + 1, sent, Open) /\ ReadOK(Assembled + 1, <<>>, g.f + 1, sent, Open)
        BY <1>8, <2>0, <2>3 DEF content
      <3>2. MessageOf(content) = Assembled + 1
        BY <3>1, MessageIs DEF WsInv
      <3> DEFINE q2 == Capped(ws_queue, Assembled + 1, MaxQueuedMessages)
      <3>3. result = [oversized |-> FALSE, progress |-> <<>>, queue |-> q2]
        BY <1>12, <2>3, <3>2 DEF result, Add, content, Capped
      <3> HIDE DEF q2
      <3>4. /\ UNCHANGED <<closed_, connect_result>> /\ partial' = <<>> /\ ws_queue' = q2
            /\ dropped' = dropped \cup (ToSet(ws_queue) \ ToSet(q2))
        BY <1>4, <1>12, <3>3
      <3>5. Assembled = LastOf(ws_queue, returned) /\ Assembled' = LastOf(ws_queue', returned')
        BY DEF Assembled, LastOf
      <3>6. LastOf(ws_queue, returned) + 1 <= Len(sent)
        BY <1>5, <3>1, <3>5
      <3>7. q2 = Capped(ws_queue, LastOf(ws_queue, returned) + 1, MaxQueuedMessages)
        BY <3>5 DEF q2
      <3>8. /\ q2 \in Seq(Nat) /\ Len(q2) <= MaxQueuedMessages
            /\ LastOf(q2, returned) = Assembled + 1
            /\ QueueOK(q2, returned, Len(sent), dropped \cup (ToSet(ws_queue) \ ToSet(q2)))
        BY <1>5, <3>5, <3>6, <3>7, QueueAdds
      <3>9. Assembled' = Assembled + 1
        BY <1>1, <3>4, <3>5, <3>8
      <3>. QED  BY <1>5, <2>0, <3>1, <3>4, <3>8, <3>9
    <2>. QED  BY <1>6, <2>1, <2>2, <2>3
  <1>13. Chunk
    BY <1>6, <1>10, <1>11, <1>12
  <1> HIDE DEF Chunk
  <1>14. WsTypes' /\ (closed_ \in BOOLEAN)'
    BY <1>1, <1>13 DEF WsInv, WsTypes, Chunk
  <1>15. WsQueues'
    BY <1>1, <1>3, <1>13 DEF WsInv, WsQueues, Chunk
  <1>16. SentInv'
    BY <1>1, <1>9 DEF WsInv, SentInv
  <1>17. WireInv'
    BY <1>1, <1>3, <1>9 DEF WireInv
  <1>18. ReadInv'
    <2>1. Usable' => ~closed_'
      BY DEF Usable
    <2>. QED  BY <1>1, <1>9, <1>13, <2>1 DEF ReadInv, Chunk
  <1>19. PlaceInv'
    BY <1>1, <1>2 DEF WsInv, PlaceInv, Host, Firmware
  <1>20. HostInv'
    BY <1>1 DEF HostInv, Host
  <1>21. QueueInv'
    BY <1>1, <1>13 DEF QueueInv, Chunk
  <1>. QED  BY <1>1, <1>14, <1>15, <1>16, <1>17, <1>18, <1>19, <1>20, <1>21 DEF WsInv

LEMMA ReceiveKeeps ==
    ASSUME WsInv, FirmwareReceiveText
    PROVE  WsInv' /\ InOrder
  <1>1. /\ Firmware /\ ~Host /\ handle = "open" /\ ws_queue # <<>>
        /\ returned' = Head(ws_queue) /\ ws_queue' = Tail(ws_queue)
        /\ UNCHANGED <<ws_client, handle, closed_, partial, ws_pc, header, connect_result, library,
                       wire, sent, peer_sends, half_frame, frames_used, dropped>>
    BY DEF FirmwareReceiveText, peer, Firmware, Host
  <1>2. /\ ws_queue \in Seq(Nat) /\ returned \in Nat /\ Len(sent) \in Nat
        /\ QueueOK(ws_queue, returned, Len(sent), dropped)
    BY WsFacts DEF WsInv, WsQueues, QueueInv
  <1>3. /\ Head(ws_queue) = ws_queue[1] /\ ws_queue[1] \in Nat
        /\ Tail(ws_queue) \in Seq(Nat) /\ Len(Tail(ws_queue)) <= Len(ws_queue)
        /\ ws_queue[1] > returned /\ ws_queue[1] <= Len(sent)
        /\ (returned + 1)..(ws_queue[1] - 1) \subseteq dropped
        /\ QueueOK(Tail(ws_queue), ws_queue[1], Len(sent), dropped)
        /\ ws_queue[Len(ws_queue)] = IF Tail(ws_queue) = <<>> THEN ws_queue[1]
                                     ELSE Tail(ws_queue)[Len(Tail(ws_queue))]
    BY <1>1, <1>2, QueueGives
  <1>4. returned' = ws_queue[1] /\ returned' \in Nat
    BY <1>1, <1>3
  <1>5. Open' = Open /\ NextFrame' = NextFrame /\ Assembled' = Assembled /\ Progress' = Progress
    <2>1. Open' = Open
      BY <1>1 DEF Open
    <2>2. NextFrame' = NextFrame /\ Progress' = Progress
      BY <1>1 DEF NextFrame, Progress, Host
    <2>3. Assembled' = Assembled
      BY <1>1, <1>3, <1>4 DEF Assembled
    <2>. QED  BY <2>1, <2>2, <2>3
  <1>6. WsTypes' /\ (closed_ \in BOOLEAN)'
    BY <1>1, <1>4 DEF WsInv, WsTypes
  <1>7. WsQueues'
    <2>1. Len(ws_queue') <= MaxQueuedMessages
      BY <1>1, <1>2, <1>3, WebSocketAssumption DEF WsInv, WsQueues
    <2>. QED  BY <1>1, <1>3, <2>1 DEF WsInv, WsQueues
  <1>8. SentInv'
    BY <1>1, <1>5 DEF WsInv, SentInv
  <1>9. WireInv'
    BY <1>1, <1>5 DEF WsInv, WireInv
  <1>10. ReadInv'
    BY <1>1, <1>5 DEF WsInv, ReadInv, Usable
  <1>11. PlaceInv' /\ HostInv'
    BY <1>1 DEF WsInv, PlaceInv, HostInv, Host, Firmware
  <1>12. QueueInv'
    BY <1>1, <1>3, <1>4 DEF QueueInv
  <1>13. InOrder
    BY <1>1, <1>3, <1>4 DEF InOrder
  <1>. QED  BY <1>6, <1>7, <1>8, <1>9, <1>10, <1>11, <1>12, <1>13 DEF WsInv

\* A step that leaves the peer, the wire and what was read alone.
LEMMA QuietKeeps ==
    ASSUME WsInv, PlaceInv',
           handle' \in {"new", "connecting", "open", "closed"}, closed_' \in BOOLEAN,
           ws_pc' \in {"idle", "first_byte"} \/ ws_pc' = ws_pc,
           connect_result' \in {"none", "pending", "succeeded", "failed"},
           library' \in {"off", "on", "down"},
           partial' = partial \/ partial' = <<>>,
           UNCHANGED <<ws_client, header, ws_queue, wire, sent, peer_sends, half_frame, frames_used,
                       returned, dropped>>,
           Usable' => Usable /\ Progress' = Progress /\ (ws_pc = "rest" => ws_pc' = "rest")
    PROVE  WsInv'
  <1>1. Open' = Open /\ NextFrame' = NextFrame /\ Assembled' = Assembled
    <2>1. Open' = Open
      BY DEF Open
    <2>2. NextFrame' = NextFrame /\ Assembled' = Assembled
      BY DEF NextFrame, Assembled
    <2>. QED  BY <2>1, <2>2
  <1>2. WsTypes' /\ (closed_ \in BOOLEAN)'
    BY DEF WsInv, WsTypes
  <1>3. WsQueues'
    <2>1. partial' \in Seq(Nat) /\ Len(partial') <= MaxMessageFrames
      <3>1. CASE partial' = partial
        BY <3>1 DEF WsInv, WsQueues
      <3>2. CASE partial' = <<>>
        <4>1. MaxMessageFrames \in Nat /\ Len(<<>>) = 0 /\ <<>> \in Seq(Nat)
          BY WebSocketAssumption
        <4>. QED  BY <3>2, <4>1
      <3>. QED  BY <3>1, <3>2
    <2>. QED  BY <2>1 DEF WsInv, WsQueues
  <1>4. SentInv'
    BY <1>1 DEF WsInv, SentInv
  <1>5. WireInv'
    BY <1>1 DEF WsInv, WireInv
  <1>6. ReadInv'
    <2>1. SUFFICES ASSUME Usable' PROVE ReadOK(Assembled, Progress, NextFrame, sent, Open)
      BY <1>1 DEF ReadInv
    <2>. QED  BY <2>1 DEF WsInv, ReadInv
  <1>7. HostInv'
    <2>1. Host' => Host
      BY DEF Host
    <2>2. Usable' /\ ws_pc' # "rest" => Usable /\ ws_pc # "rest"
      OBVIOUS
    <2>3. ws_pc' = "rest" => ws_pc = "rest"
      OBVIOUS
    <2>. QED  BY <2>1, <2>2, <2>3 DEF WsInv, HostInv
  <1>8. QueueInv'
    BY DEF WsInv, QueueInv
  <1>. QED  BY <1>2, <1>3, <1>4, <1>5, <1>6, <1>7, <1>8 DEF WsInv

LEMMA CloseKeeps ==
    ASSUME WsInv, WsClose
    PROVE  WsInv' /\ returned' = returned
  <1>0. Len(<<>>) = 0 /\ \A i \in 1..0 : FALSE
    OBVIOUS
  <1>1. /\ handle' = "closed" /\ closed_' = (closed_ \/ Firmware) /\ ws_pc = "idle"
        /\ partial' = <<>> /\ ws_queue' = <<>> /\ wire' = <<>> /\ half_frame' = <<>>
        /\ library' = (IF library = "on" THEN "down" ELSE library) /\ peer_sends' = PeerClosed
        /\ UNCHANGED <<ws_client, ws_pc, header, connect_result, sent, frames_used, returned, dropped>>
    BY DEF WsClose
  <1>2. Open' = Open
    <2>1. Open' <=> Open
      BY <1>1 DEF Open, PeerClosed
    <2>2. Open \in BOOLEAN /\ Open' \in BOOLEAN
      BY DEF Open
    <2>. QED  BY <2>1, <2>2
  <1>3. WsTypes' /\ (closed_ \in BOOLEAN)'
    <2>1. (closed_ \in BOOLEAN)'
      BY <1>1 DEF WsInv, Firmware
    <2>2. peer_sends' \in {"idle", "message", "cut", "closed"}
      BY <1>1 DEF PeerClosed
    <2>. QED  BY <1>1, <2>1, <2>2 DEF WsInv, WsTypes
  <1>4. WsQueues'
    BY <1>0, <1>1, WebSocketAssumption DEF WsInv, WsQueues, Halves
  <1>5. SentInv'
    <2>1. peer_sends' # "message"
      BY <1>1 DEF PeerClosed
    <2>. QED  BY <1>1, <1>2, <2>1 DEF WsInv, SentInv
  <1>6. WireInv'
    BY <1>0, <1>1 DEF WireInv, WireOK
  <1>7. ~Usable'
    BY <1>1 DEF Usable
  <1>8. ReadInv' /\ HostInv'
    BY <1>1, <1>7 DEF ReadInv, HostInv
  <1>9. PlaceInv'
    BY <1>1 DEF WsInv, WsTypes, PlaceInv, Host, Firmware
  <1>10. QueueInv'
    BY <1>0, <1>1 DEF WsInv, QueueInv, QueueOK
  <1>. QED  BY <1>1, <1>3, <1>4, <1>5, <1>6, <1>8, <1>9, <1>10 DEF WsInv

\* Every step of a client that is not read after its failure keeps the
\* invariant and returns messages in order.
LEMMA WsStepKeeps ==
    ASSUME WsInv, ~ReadsFailed, WsNext
    PROVE  WsInv' /\ (returned' # returned => InOrder)
  <1>0. returned \in Nat
    BY WsFacts
  <1>1. CASE PeerStartsFrame
    BY <1>1, PeerStartsKeeps DEF PeerStartsFrame
  <1>2. CASE PeerEndsFrame
    BY <1>2, PeerEndsKeeps DEF PeerEndsFrame
  <1>3. CASE HostReadsHead
    BY <1>3, HeadKeeps
  <1>4. CASE HostReadsRest
    <2>1. returned' # returned => InOrder
      <3>1. SUFFICES ASSUME returned' = returned + 1 PROVE InOrder
        BY <1>4, RestKeeps
      <3>. QED  BY <1>0, <3>1 DEF InOrder
    <2>. QED  BY <1>4, <2>1, RestKeeps
  <1>5. CASE HandleData
    BY <1>5, DataKeeps
  <1>6. CASE FirmwareReceiveText
    BY <1>6, ReceiveKeeps
  <1>7. CASE WsClose
    BY <1>7, CloseKeeps
  <1> DEFINE Quiet == UNCHANGED <<ws_client, header, ws_queue, wire, sent, peer_sends, half_frame,
                                  frames_used, returned, dropped>>
  <1>8. CASE HostConnect
    <2>1. /\ Quiet /\ UNCHANGED <<partial, ws_pc, connect_result, library>> /\ handle = "new"
          /\ handle' \in {"open", "closed"} /\ closed_' = FALSE /\ Host
      BY <1>8 DEF HostConnect, peer
    <2>2. ws_pc = "idle" /\ ~closed_ /\ library = "off"
      BY <2>1 DEF WsInv, PlaceInv
    <2>3. PlaceInv'
      BY <2>1, <2>2 DEF WsInv, PlaceInv, Host, Firmware
    <2>4. Usable /\ Progress' = Progress
      BY <2>1, <2>2 DEF Usable, Progress, Host
    <2>. QED  BY <2>1, <2>2, <2>3, <2>4, QuietKeeps DEF WsInv, WsTypes
  <1>9. CASE HostReceiveText
    <2>1. /\ Quiet /\ UNCHANGED <<handle, closed_, connect_result, library>> /\ handle = "open"
          /\ ws_pc = "idle" /\ ws_pc' = "first_byte" /\ partial' = <<>> /\ Host /\ CallerReads
      BY <1>9 DEF HostReceiveText, peer
    <2>2. ~closed_
      <3>1. ws_client \in {"host", "firmware"} \X {"harmony", "kodi"}
        BY WebSocketAssumption DEF WsInv, WsTypes
      <3>2. ws_client[2] = "harmony" \/ ws_client = <<"host", "kodi">>
        BY <2>1, <3>1 DEF Host
      <3>. QED  BY <2>1, <3>2 DEF CallerReads, ReadsFailed
    <2>3. PlaceInv'
      BY <2>1, <2>2 DEF WsInv, PlaceInv, Host, Firmware
    <2>4. Usable /\ Progress' = Progress
      BY <2>1, <2>2 DEF Usable, Progress, Host
    <2>. QED  BY <2>1, <2>2, <2>3, <2>4, QuietKeeps DEF WsInv, WsTypes
  <1>10. CASE HostTimeout
    <2>1. /\ Quiet /\ UNCHANGED <<handle, partial, connect_result, library>> /\ Host
          /\ ws_pc \in {"first_byte", "rest"} /\ ws_pc' = "idle"
          /\ closed_' = (closed_ \/ ws_pc = "rest" \/ partial # <<>>)
      BY <1>10 DEF HostTimeout, HostReturns, peer
    <2>2. closed_' \in BOOLEAN
      BY <2>1 DEF WsInv
    <2>3. PlaceInv'
      BY <2>1 DEF WsInv, PlaceInv, Host, Firmware
    <2>4. Usable' => Usable /\ Progress' = Progress /\ ws_pc # "rest"
      BY <2>1 DEF Usable, Progress, Host
    <2>. QED  BY <2>1, <2>2, <2>3, <2>4, QuietKeeps DEF WsInv, WsTypes
  <1>11. CASE FirmwareConnect
    <2>1. /\ Quiet /\ UNCHANGED <<partial, ws_pc>> /\ handle = "new" /\ Firmware
          /\ \/ /\ handle' = "connecting" /\ connect_result' = "pending"
                /\ closed_' = FALSE /\ library' = "on"
             \/ /\ handle' = "closed" /\ UNCHANGED <<closed_, connect_result, library>>
      BY <1>11 DEF FirmwareConnect, peer
    <2>2. ws_pc = "idle" /\ ~closed_ /\ library = "off" /\ closed_ \in BOOLEAN
      BY <2>1 DEF WsInv, PlaceInv
    <2>3. PlaceInv'
      BY <2>1, <2>2 DEF WsInv, PlaceInv, Host, Firmware
    <2>4. Usable /\ Progress' = Progress
      BY <2>1, <2>2 DEF Usable, Progress, Host
    <2>5. closed_' \in BOOLEAN
      BY <2>1, <2>2
    <2>. QED  BY <2>1, <2>2, <2>3, <2>4, <2>5, QuietKeeps DEF WsInv, WsTypes
  <1>12. CASE HandleConnected \/ FirmwareConnected
    <2>1. /\ Quiet /\ UNCHANGED <<partial, ws_pc, closed_, library>>
          /\ \/ handle' = handle /\ connect_result' = "succeeded"
             \/ handle = "connecting" /\ handle' = "open" /\ connect_result' = connect_result
      BY <1>12 DEF HandleConnected, FirmwareConnected, peer
    <2>2. PlaceInv'
      BY <2>1 DEF WsInv, PlaceInv, Host, Firmware
    <2>3. Usable' => Usable /\ Progress' = Progress
      BY <2>1 DEF Usable, Progress, Host
    <2>. QED  BY <2>1, <2>2, <2>3, QuietKeeps DEF WsInv, WsTypes
  <1>13. CASE HandleClosed
    <2>1. /\ Quiet /\ UNCHANGED <<partial, ws_pc, handle>> /\ Firmware
          /\ library = "on" /\ library' = "down" /\ closed_' = TRUE
          /\ connect_result' = IF connect_result = "pending" THEN "failed" ELSE connect_result
      BY <1>13 DEF HandleClosed, Closed, peer
    <2>2. PlaceInv'
      BY <2>1 DEF WsInv, PlaceInv, Host, Firmware
    <2>3. ~Usable'
      BY <2>1 DEF Usable
    <2>. QED  BY <2>1, <2>2, <2>3, QuietKeeps DEF WsInv, WsTypes
  <1>. QED  BY <1>1, <1>2, <1>3, <1>4, <1>5, <1>6, <1>7, <1>8, <1>9, <1>10, <1>11, <1>12, <1>13
            DEF WsNext

\* A message in progress that is empty is in its bound.
LEMMA EmptyBounded == <<>> \in Seq(Nat) /\ Len(<<>>) <= MaxMessageFrames
  <1>1. MaxMessageFrames \in Nat /\ Len(<<>>) = 0
    BY WebSocketAssumption
  <1>. QED  BY <1>1

\* What has failed stays failed, and in its bounds.
LEMMA FailedKeeps ==
    ASSUME FailedInv, WsNext
    PROVE  FailedInv'
  <1>0. /\ ws_client = <<"host", "kodi">> /\ Host /\ ~Firmware /\ closed_ = TRUE
        /\ MaxMessageFrames \in Nat
    <2>1. ws_client = <<"host", "kodi">> /\ closed_
      BY DEF FailedInv, ReadsFailed
    <2>2. Host /\ ~Firmware
      BY <2>1 DEF Host, Firmware
    <2>. QED  BY <2>1, <2>2, WebSocketAssumption
  <1>1. CASE PeerStartsFrame
    <2>1. PICK g \in Frames : /\ half_frame' = <<g>>
                              /\ wire' = Append(wire, [part |-> "head", f |-> g])
      <3>1. PICK op \in Opcodes, fin \in BOOLEAN, len \in {0, 1} :
              LET f == [f |-> frames_used + 1, op |-> op, fin |-> fin, len |-> len]
              IN  half_frame' = <<f>> /\ wire' = Append(wire, [part |-> "head", f |-> f])
        BY <1>1 DEF PeerStartsFrame
      <3>2. [f |-> frames_used + 1, op |-> op, fin |-> fin, len |-> len] \in Frames
        BY DEF FailedInv, Frames
      <3>. QED  BY <3>1, <3>2
    <2>2. [part |-> "head", f |-> g] \in Cells
      BY DEF Cells
    <2>3. wire' \in Seq(Cells) /\ half_frame' \in Halves
      BY <2>1, <2>2 DEF FailedInv, Halves
    <2>4. /\ frames_used' = frames_used + 1
          /\ UNCHANGED <<ws_client, handle, closed_, partial, ws_queue, ws_pc, header,
                         connect_result, library>>
      BY <1>1 DEF PeerStartsFrame, connection
    <2>. QED  BY <2>3, <2>4 DEF FailedInv, ReadsFailed
  <1>2. CASE PeerEndsFrame
    <2>1. half_frame # <<>> /\ wire' = Append(wire, [part |-> "body", f |-> half_frame[1]])
      BY <1>2 DEF PeerEndsFrame
    <2>2. half_frame[1] \in Frames
      BY <2>1 DEF FailedInv, Halves
    <2>3. [part |-> "body", f |-> half_frame[1]] \in Cells
      BY <2>2 DEF Cells
    <2>4. wire' \in Seq(Cells)
      BY <2>1, <2>3 DEF FailedInv
    <2>5. /\ half_frame' = <<>>
          /\ UNCHANGED <<ws_client, handle, closed_, partial, ws_queue, ws_pc, header,
                         connect_result, library, frames_used>>
      BY <1>2 DEF PeerEndsFrame, connection
    <2>. QED  BY <2>4, <2>5 DEF FailedInv, ReadsFailed, Halves
  <1>3. CASE HostReadsHead \/ HostReadsRest
    <2>1. /\ wire' = Tail(wire) /\ wire # <<>>
          /\ UNCHANGED <<ws_client, handle, ws_queue, connect_result, library, half_frame, frames_used>>
      BY <1>3 DEF HostReadsHead, HostReadsRest, HostReturns, peer
    <2>2. Tail(wire) \in Seq(Cells) /\ Head(wire) \in Cells
      BY <2>1 DEF FailedInv
    <2>3. Head(wire).f \in Frames
      BY <2>2 DEF Cells
    <2>4. closed_' = TRUE
      BY <1>0, <1>3 DEF HostReadsHead, HostReadsRest, HostReturns
    <2>5. ws_pc' \in {"idle", "first_byte", "rest"}
      BY <1>3 DEF HostReadsHead, HostReadsRest, HostReturns
    <2>6. header' \in Frames
      BY <1>3, <2>3 DEF FailedInv, HostReadsHead, HostReadsRest
    <2>7. partial' \in Seq(Nat) /\ Len(partial') <= MaxMessageFrames
      <3> DEFINE content == IF header.len = 1 THEN Append(partial, header.f) ELSE partial
      <3>1. partial' = partial \/ (FrameOutcome = "more" /\ partial' = content)
        BY <1>3 DEF HostReadsHead, HostReadsRest, HostReturns
      <3>2. partial \in Seq(Nat) /\ Len(partial) \in Nat /\ Len(partial) <= MaxMessageFrames
            /\ header.len \in {0, 1} /\ header.f \in Nat
        BY DEF FailedInv, Frames
      <3>3. CASE FrameOutcome = "more" /\ partial' = content
        <4>1. ~(Len(partial) + header.len > MaxMessageFrames)
          BY <3>3 DEF FrameOutcome
        <4>2. content \in Seq(Nat) /\ Len(content) = Len(partial) + header.len
          BY <3>2
        <4>. QED  BY <1>0, <3>2, <3>3, <4>1, <4>2
      <3>. QED  BY <3>1, <3>2, <3>3
    <2>. QED  BY <2>1, <2>2, <2>4, <2>5, <2>6, <2>7 DEF FailedInv, ReadsFailed
  <1>4. CASE WsClose
    <2>1. /\ handle' = "closed" /\ closed_' = (closed_ \/ Firmware)
          /\ partial' = <<>> /\ ws_queue' = <<>> /\ wire' = <<>> /\ half_frame' = <<>>
          /\ library' = (IF library = "on" THEN "down" ELSE library)
          /\ UNCHANGED <<ws_client, ws_pc, header, connect_result, frames_used>>
      BY <1>4 DEF WsClose
    <2>2. partial' \in Seq(Nat) /\ Len(partial') <= MaxMessageFrames
      BY <2>1, EmptyBounded
    <2>3. wire' \in Seq(Cells) /\ half_frame' \in Halves
      BY <2>1 DEF Halves
    <2>4. closed_' = TRUE
      BY <1>0, <2>1
    <2>. QED  BY <2>1, <2>2, <2>3, <2>4 DEF FailedInv, ReadsFailed
  <1>5. CASE HostReceiveText \/ HostTimeout
    <2>1. /\ UNCHANGED <<ws_client, handle, ws_queue, header, connect_result, library, wire,
                         half_frame, frames_used>>
          /\ ws_pc' \in {"idle", "first_byte"} /\ closed_' = TRUE
          /\ partial' = partial \/ partial' = <<>>
      <3>1. CASE HostReceiveText
        BY <1>0, <3>1 DEF HostReceiveText, peer
      <3>2. CASE HostTimeout
        BY <1>0, <3>2 DEF HostTimeout, HostReturns, peer
      <3>. QED  BY <1>5, <3>1, <3>2
    <2>2. partial' \in Seq(Nat) /\ Len(partial') <= MaxMessageFrames
      <3>1. CASE partial' = partial
        BY <3>1 DEF FailedInv
      <3>2. CASE partial' = <<>>
        BY <3>2, EmptyBounded
      <3>. QED  BY <2>1, <3>1, <3>2
    <2>. QED  BY <2>1, <2>2 DEF FailedInv, ReadsFailed
  <1>6. CASE FirmwareConnected
    BY <1>6 DEF FirmwareConnected, FailedInv, ReadsFailed, peer
  <1>7. ~HostConnect
    BY DEF HostConnect, FailedInv
  <1>8. ~(FirmwareConnect \/ HandleConnected \/ HandleClosed \/ HandleData \/ FirmwareReceiveText)
    BY <1>0 DEF FirmwareConnect, HandleConnected, HandleClosed, HandleData, FirmwareReceiveText
  <1>. QED  BY <1>1, <1>2, <1>3, <1>4, <1>5, <1>6, <1>7, <1>8 DEF WsNext

\* Either way the client is at its place or has failed.
LEMMA ClientSplit ==
    ASSUME WsInv
    PROVE  ClientInv
  <1>1. SUFFICES ASSUME ReadsFailed PROVE FailedInv
    BY DEF ClientInv
  <1>2. Host /\ closed_
    BY <1>1 DEF ReadsFailed, Host
  <1>3. handle # "new" /\ ws_queue = <<>>
    BY <1>2 DEF WsInv, PlaceInv
  <1>4. frames_used \in Nat
    BY WebSocketAssumption DEF WsInv, WsTypes
  <1>. QED  BY <1>1, <1>3, <1>4 DEF WsInv, WsTypes, WsQueues, FailedInv

\* Whatever arrives when, and for all four pairs of backend and caller,
\* ReceiveText() returns only whole messages of the peer, once and in order,
\* and skips only what the assembler's bound dropped, until a host client that
\* KodiClient reads has failed; the queue and the message in progress keep to
\* their bounds also after that (MessagesIntact).
THEOREM MessagesIntactHolds == WsSpec => MessagesIntact
  <1>1. WsInit => ClientInv
    BY WsInvInit, ClientSplit
  <1>2. ClientInv /\ [WsNext]_ws_vars => ClientInv'
    <2>1. ASSUME WsInv, ~ReadsFailed, [WsNext]_ws_vars PROVE WsInv'
      <3>1. SUFFICES ASSUME UNCHANGED ws_vars PROVE WsInv'
        BY <2>1, WsStepKeeps
      <3>2. UNCHANGED <<ws_client, handle, closed_, partial, ws_queue, ws_pc, header, connect_result,
                        library, wire, sent, peer_sends, half_frame, frames_used, returned, dropped>>
        BY <3>1 DEF ws_vars, connection, peer
      <3>3. PlaceInv' /\ Usable' = Usable /\ Progress' = Progress
        BY <2>1, <3>2 DEF WsInv, PlaceInv, Usable, Progress, Host, Firmware
      <3>. QED  BY <2>1, <3>2, <3>3, QuietKeeps DEF WsInv, WsTypes
    <2>2. ASSUME FailedInv, [WsNext]_ws_vars PROVE FailedInv'
      <3>1. SUFFICES ASSUME UNCHANGED ws_vars PROVE FailedInv'
        BY <2>2, FailedKeeps
      <3>2. UNCHANGED <<ws_client, handle, closed_, partial, ws_queue, ws_pc, header, connect_result,
                        library, wire, half_frame, frames_used>>
        BY <3>1 DEF ws_vars, connection, peer
      <3>. QED  BY <2>2, <3>2 DEF FailedInv, ReadsFailed
    <2>3. WsInv' => ClientInv'
      BY ClientSplit, PTL
    <2>. QED  BY <2>1, <2>2, <2>3 DEF ClientInv
  <1>3. ClientInv /\ ClientInv' /\ [WsNext]_ws_vars
        => [/\ returned' # returned /\ ~ReadsFailed => returned' # Garbage /\ InOrder
            /\ WsTypeOK']_ws_vars
    <2>1. SUFFICES ASSUME ClientInv, ClientInv', WsNext
          PROVE  (returned' # returned /\ ~ReadsFailed => returned' # Garbage /\ InOrder) /\ WsTypeOK'
      OBVIOUS
    <2>2. ASSUME returned' # returned, ~ReadsFailed PROVE returned' # Garbage /\ InOrder
      <3>1. WsInv
        BY <2>1, <2>2 DEF ClientInv, FailedInv
      <3>2. WsInv' /\ InOrder
        BY <2>1, <2>2, <3>1, WsStepKeeps
      <3>3. /\ returned' \in Nat /\ returned' <= Len(sent') /\ Len(sent') <= frames_used'
            /\ frames_used' <= MaxWsFrames /\ MaxWsFrames \in Nat /\ Len(sent') \in Nat /\ frames_used' \in Nat
        BY <3>2, WebSocketAssumption
        DEF WsInv, QueueInv, QueueOK, SentInv, MessagesOK, Shape, WsTypes
      <3>4. returned' # Garbage
        BY <3>3 DEF Garbage
      <3>. QED  BY <3>2, <3>4
    <2>3. WsTypeOK'
      <3>1. CASE WsInv'
        BY <3>1 DEF WsInv, WsTypes, WsQueues, WsTypeOK, Frames
      <3>2. CASE FailedInv'
        <4>1. closed_' \in BOOLEAN /\ Len(ws_queue') <= MaxQueuedMessages
          <5>1. ws_queue' = <<>> /\ closed_'
            BY <3>2 DEF FailedInv, ReadsFailed
          <5>. QED  BY <5>1, WebSocketAssumption
        <4>. QED  BY <3>2, <4>1 DEF FailedInv, WsTypeOK, Frames
      <3>. QED  BY <2>1, <3>1, <3>2 DEF ClientInv
    <2>. QED  BY <2>2, <2>3
  <1>. QED  BY <1>1, <1>2, <1>3, PTL DEF WsSpec, MessagesIntact
=============================================================================
