-------------------------- MODULE PreviewProofs --------------------------
(***************************************************************************)
(* What a client is sent of a preview between two event_starts has no      *)
(* hole, for any number of streams, previews, deltas and channel places.   *)
(* A delta travels from the turn over the connection and a channel to the  *)
(* client; wherever it is, its predecessor is ahead of it, unless the      *)
(* stream drops both or a preview was started between them.                *)
(***************************************************************************)
EXTENDS EventStreamProofs

\* The delta before f, which f must follow unless a preview was started between.
Prev(f) == [f EXCEPT !.at = @ - 1, !.n = @ - 1]
IsNext(f) == f.type = "event_delta" /\ f.n > 1
Starts(note, t) == note.frame.type = "event_start" /\ note.frame.thread = t

\* Of the first L notifications, one that starts a preview of thread t is
\* followed by the delta p; or none is a start or p.
Preceded(w, p, t, L) == \A k \in 1 .. L : Starts(w[k], t) => \E j \in k + 1 .. L : w[j].frame = p
Clear(w, p, t, L) == \A k \in 1 .. L : ~Starts(w[k], t) /\ w[k].frame # p

\* Of the first m frames of a channel, a start is followed by p; and where id's
\* deltas are forwarded, p is among them or was sent.
Backed(q, st, sh, p, id, m) ==
    /\ \A k \in 1 .. m : q[k].type = "event_start" => \E j \in k + 1 .. m : q[j] = p
    /\ id \in st => \/ \E j \in 1 .. m : q[j] = p
                    \/ \E j \in DOMAIN sh : sh[j] = p

\* The previews a stream forwards the deltas of, st[s] being those it has begun.
Open(st, s) == IF "message" \in OptIn[s] THEN st[s] ELSE {}

\* f follows its predecessor on the way to s, behind the first m frames of its
\* channel.
Follows(fr, st, sh, s, f, m) == Backed(fr[s], Open(st, s), sh[s], Prev(f), f.id, m)

\* f comes behind the first L notifications of the connection w: a start among
\* them is followed by f's predecessor, and a stream that will take f has the
\* predecessor before it.
Upcoming(w, lossy, fr, st, sh, f, L) ==
    /\ Preceded(w, Prev(f), f.thread, L)
    /\ \A s \in Streams :
           ~lossy[s] /\ f.thread = Surface[s] /\ Clear(w, Prev(f), f.thread, L) =>
               Follows(fr, st, sh, s, f, Len(fr[s]))

NextDelta == [type |-> "event_delta", thread |-> turn.thread, id |-> turn.message,
              of |-> "none", at |-> turn.at + 1, n |-> turn.sent + 1]

Away(s) == frames[s] = <<>> /\ started[s] = {}

PrefixType ==
    /\ unbroken \in BOOLEAN
    /\ frames \in [Streams -> Seq(Frame)] /\ shown \in [Streams -> Seq(Frame)]
    /\ \A s \in Streams : Len(frames[s]) <= FrameCap
    /\ started \in [Streams -> SUBSET Nat] /\ lossyDeltas \in [Streams -> BOOLEAN]
    /\ \A i \in DOMAIN owed : owed[i].type \notin {"event_start", "event_delta"}

ChannelOrder ==
    \A s \in Streams : \A i \in DOMAIN frames[s] :
        IsNext(frames[s][i]) => Follows(frames, started, shown, s, frames[s][i], i - 1)
WireOrder ==
    \A i \in DOMAIN wire :
        IsNext(wire[i].frame) => Upcoming(wire, lossyDeltas, frames, started, shown, wire[i].frame, i - 1)
TurnOrder ==
    turn.message # 0 /\ turn.thinking = 0 /\ turn.sent > 0 =>
        Upcoming(wire, lossyDeltas, frames, started, shown, NextDelta, Len(wire))
ShownOrder == \A s \in Streams : \A d \in DOMAIN shown[s] :
                  IsNext(shown[s][d]) => \E i \in 1 .. d - 1 : shown[s][i] = Prev(shown[s][d])

\* What one connection keeps.
Kept ==
    /\ late = <<>> /\ listener # "down"
    /\ listener \in {"off", "dialing"} => wire = <<>> /\ \A s \in Streams : Away(s)
    /\ \A s \in Streams : pc[s] \notin Subscribed => Away(s)
    /\ ChannelOrder /\ WireOrder /\ TurnOrder /\ ShownOrder

PrefixInv == PrefixType /\ (unbroken => Kept)

-----------------------------------------------------------------------------
\* The connection's head is taken: the rest is as before, and where the head
\* was a start or the delta itself, the delta is no longer missing or is about
\* to be.
LEMMA PrecededTail ==
    ASSUME NEW w, w \in Seq(Notification), w # <<>>, NEW p, NEW t, NEW L \in Nat, L >= 1, L <= Len(w), Preceded(w, p, t, L)
    PROVE  /\ Preceded(Tail(w), p, t, L - 1)
           /\ Starts(w[1], t) => ~Clear(Tail(w), p, t, L - 1)
           /\ ~Starts(w[1], t) /\ w[1].frame # p /\ Clear(Tail(w), p, t, L - 1) => Clear(w, p, t, L)
<1>0. Len(Tail(w)) = Len(w) - 1 /\ \A k \in 1 .. Len(w) - 1 : Tail(w)[k] = w[k + 1]
  OBVIOUS
<1>1. Preceded(Tail(w), p, t, L - 1)
  <2> SUFFICES ASSUME NEW k \in 1 .. L - 1, Starts(Tail(w)[k], t) PROVE \E j \in k + 1 .. L - 1 : Tail(w)[j].frame = p
    BY DEF Preceded
  <2>1. PICK j \in k + 2 .. L : w[j].frame = p
    BY <1>0 DEF Preceded
  <2>2. j - 1 \in k + 1 .. L - 1 /\ Tail(w)[j - 1] = w[j]
    BY <1>0
  <2> QED BY <2>1, <2>2
<1>2. ASSUME Starts(w[1], t) PROVE ~Clear(Tail(w), p, t, L - 1)
  <2>1. PICK j \in 2 .. L : w[j].frame = p
    BY <1>2 DEF Preceded
  <2>2. j - 1 \in 1 .. L - 1 /\ Tail(w)[j - 1] = w[j]
    BY <1>0
  <2> QED BY <2>1, <2>2 DEF Clear
<1>3. ASSUME ~Starts(w[1], t), w[1].frame # p, Clear(Tail(w), p, t, L - 1) PROVE Clear(w, p, t, L)
  <2> SUFFICES ASSUME NEW k \in 1 .. L, k # 1 PROVE ~Starts(w[k], t) /\ w[k].frame # p
    BY <1>3 DEF Clear
  <2>1. k - 1 \in 1 .. L - 1 /\ Tail(w)[k - 1] = w[k]
    BY <1>0
  <2> QED BY <1>3, <2>1 DEF Clear
<1> QED BY <1>1, <1>2, <1>3

\* A notification put at the end leaves what is before it as it was.
LEMMA PrecededAppend ==
    ASSUME NEW w \in Seq(Notification), NEW n \in Notification, NEW p, NEW t, NEW L \in 0 .. Len(w)
    PROVE  /\ Preceded(Append(w, n), p, t, L) <=> Preceded(w, p, t, L)
           /\ Clear(Append(w, n), p, t, L) <=> Clear(w, p, t, L)
<1>1. \A k \in 1 .. L : Append(w, n)[k] = w[k]
  OBVIOUS
<1> QED BY <1>1 DEF Preceded, Clear

\* A notification that starts no preview of the thread may come between.
LEMMA PrecededNext ==
    ASSUME NEW w \in Seq(Notification), NEW n \in Notification, NEW p, NEW t, ~Starts(n, t)
    PROVE  /\ Preceded(w, p, t, Len(w)) \/ n.frame = p => Preceded(Append(w, n), p, t, Len(w) + 1)
           /\ Clear(Append(w, n), p, t, Len(w) + 1) => Clear(w, p, t, Len(w)) /\ n.frame # p
<1>1. \A k \in 1 .. Len(w) : Append(w, n)[k] = w[k]
  OBVIOUS
<1>2. Append(w, n)[Len(w) + 1] = n
  OBVIOUS
<1>3. ASSUME NEW k \in 1 .. Len(w) + 1, Starts(Append(w, n)[k], t)
      PROVE  k \in 1 .. Len(w) /\ Starts(w[k], t)
  BY <1>1, <1>2, <1>3
<1>4. ASSUME Preceded(w, p, t, Len(w)) \/ n.frame = p PROVE Preceded(Append(w, n), p, t, Len(w) + 1)
  <2> SUFFICES ASSUME NEW k \in 1 .. Len(w) + 1, Starts(Append(w, n)[k], t)
               PROVE  \E j \in k + 1 .. Len(w) + 1 : Append(w, n)[j].frame = p
    BY DEF Preceded
  <2>1. k \in 1 .. Len(w) /\ Starts(w[k], t)
    BY <1>3
  <2>2. CASE n.frame = p
    BY <1>2, <2>1, <2>2
  <2>3. CASE Preceded(w, p, t, Len(w))
    <3>1. PICK j \in k + 1 .. Len(w) : w[j].frame = p
      BY <2>1, <2>3 DEF Preceded
    <3> QED BY <3>1, <1>1
  <2> QED BY <1>4, <2>2, <2>3
<1>5. ASSUME Clear(Append(w, n), p, t, Len(w) + 1) PROVE Clear(w, p, t, Len(w)) /\ n.frame # p
  BY <1>1, <1>2, <1>5 DEF Clear
<1> QED BY <1>4, <1>5

\* An empty channel of a stream that has begun no preview owes nothing.
LEMMA BackedEmpty == ASSUME NEW sh, NEW p, NEW id PROVE Backed(<<>>, {}, sh, p, id, 0)
BY DEF Backed

\* A frame put at the end leaves what is before it as it was, and one that is
\* no start may come between.
LEMMA BackedAppend ==
    ASSUME NEW q \in Seq(Frame), NEW x \in Frame, NEW st, NEW sh, NEW p, NEW id
    PROVE  /\ \A m \in 0 .. Len(q) : Backed(Append(q, x), st, sh, p, id, m) <=> Backed(q, st, sh, p, id, m)
           /\ x.type # "event_start" /\ (Backed(q, st, sh, p, id, Len(q)) \/ x = p) =>
                  Backed(Append(q, x), st, sh, p, id, Len(q) + 1)
<1>1. \A k \in 1 .. Len(q) : Append(q, x)[k] = q[k]
  OBVIOUS
<1>2. Append(q, x)[Len(q) + 1] = x
  OBVIOUS
<1>3. ASSUME NEW m \in 0 .. Len(q) PROVE Backed(Append(q, x), st, sh, p, id, m) <=> Backed(q, st, sh, p, id, m)
  <2>1. \A k \in 1 .. m : Append(q, x)[k] = q[k]
    BY <1>1
  <2> QED BY <2>1 DEF Backed
<1>4. ASSUME x.type # "event_start", x = p PROVE Backed(Append(q, x), st, sh, p, id, Len(q) + 1)
  BY <1>1, <1>2, <1>4 DEF Backed
<1>5. ASSUME x.type # "event_start", Backed(q, st, sh, p, id, Len(q))
      PROVE  Backed(Append(q, x), st, sh, p, id, Len(q) + 1)
  <2>1. ASSUME NEW k \in 1 .. Len(q) + 1, Append(q, x)[k].type = "event_start"
        PROVE  \E j \in k + 1 .. Len(q) + 1 : Append(q, x)[j] = p
    <3>1. k \in 1 .. Len(q) /\ q[k].type = "event_start"
      BY <1>1, <1>2, <1>5, <2>1
    <3>2. PICK j \in k + 1 .. Len(q) : q[j] = p
      BY <3>1, <1>5 DEF Backed
    <3> QED BY <3>2, <1>1
  <2>2. id \in st => \/ \E j \in 1 .. Len(q) + 1 : Append(q, x)[j] = p
                     \/ \E j \in DOMAIN sh : sh[j] = p
    BY <1>1, <1>5 DEF Backed
  <2> QED BY <2>1, <2>2 DEF Backed
<1> QED BY <1>3, <1>4, <1>5

\* The channel's head is taken: a start is noted as begun, a delta of a begun
\* preview is sent.
LEMMA BackedTail ==
    ASSUME NEW q \in Seq(Frame), q # <<>>, NEW st, NEW sh \in Seq(Frame), NEW p, NEW id, NEW m \in 1 .. Len(q),
           Backed(q, st, sh, p, id, m), p.type = "event_delta", p.id = id,
           NEW su, NEW si \in Seq(Frame),
           su = st \/ q[1].type = "event_start",
           si = sh \/ si = Append(sh, q[1]),
           q[1].type = "event_delta" /\ q[1].id \in st => si = Append(sh, q[1])
    PROVE  Backed(Tail(q), su, si, p, id, m - 1)
<1>0. \A k \in 1 .. Len(q) - 1 : Tail(q)[k] = q[k + 1]
  OBVIOUS
<1>1. ASSUME NEW k \in 1 .. m - 1, Tail(q)[k].type = "event_start"
      PROVE  \E j \in k + 1 .. m - 1 : Tail(q)[j] = p
  <2>1. PICK j \in k + 2 .. m : q[j] = p
    BY <1>0, <1>1 DEF Backed
  <2>2. j - 1 \in k + 1 .. m - 1 /\ Tail(q)[j - 1] = q[j]
    BY <1>0
  <2> QED BY <2>1, <2>2
<1>2. ASSUME NEW j \in 2 .. m, q[j] = p PROVE \E i \in 1 .. m - 1 : Tail(q)[i] = p
  <2>1. j - 1 \in 1 .. m - 1 /\ Tail(q)[j - 1] = q[j]
    BY <1>0
  <2> QED BY <1>2, <2>1
<1>3. ASSUME NEW j \in DOMAIN sh, sh[j] = p PROVE \E i \in DOMAIN si : si[i] = p
  <2>1. j \in DOMAIN si /\ si[j] = sh[j]
    <3>1. CASE si = sh
      BY <3>1
    <3>2. CASE si = Append(sh, q[1])
      <4>1. \A i \in DOMAIN sh : i \in DOMAIN Append(sh, q[1]) /\ Append(sh, q[1])[i] = sh[i]
        OBVIOUS
      <4> QED BY <3>2, <4>1
    <3> QED BY <3>1, <3>2
  <2> QED BY <1>3, <2>1
<1>4. ASSUME id \in su PROVE (\E j \in 1 .. m - 1 : Tail(q)[j] = p) \/ \E j \in DOMAIN si : si[j] = p
  <2>1. CASE q[1].type = "event_start"
    <3>1. PICK j \in 2 .. m : q[j] = p
      BY <2>1 DEF Backed
    <3> QED BY <3>1, <1>2
  <2>2. CASE q[1].type # "event_start"
    <3>1. id \in st
      BY <1>4, <2>2
    <3>2. CASE q[1] = p
      <4>1. si = Append(sh, q[1])
        BY <3>1, <3>2
      <4>2. Len(sh) + 1 \in DOMAIN si /\ si[Len(sh) + 1] = q[1]
        BY <4>1
      <4> QED BY <3>2, <4>2
    <3>3. CASE q[1] # p
      <4>1. (\E j \in 1 .. m : q[j] = p) \/ \E j \in DOMAIN sh : sh[j] = p
        BY <3>1 DEF Backed
      <4>2. \A j \in 1 .. m : q[j] = p => j \in 2 .. m
        BY <3>3
      <4> QED BY <4>1, <4>2, <1>2, <1>3
    <3> QED BY <3>2, <3>3
  <2> QED BY <2>1, <2>2
<1> QED BY <1>1, <1>4 DEF Backed

\* The delta before one that is not the first.
LEMMA PrevOf ==
    ASSUME NEW t, NEW id, NEW a, NEW b, NEW k, NEW l, a - 1 = b, k - 1 = l, NEW f,
           f = [type |-> "event_delta", thread |-> t, id |-> id, of |-> "none", at |-> a, n |-> k]
    PROVE  Prev(f) = [type |-> "event_delta", thread |-> t, id |-> id, of |-> "none", at |-> b, n |-> l]
<1> DEFINE g == [type |-> "event_delta", thread |-> t, id |-> id, of |-> "none", at |-> b, n |-> k]
<1>1. [f EXCEPT !.at = @ - 1] = g
  OBVIOUS
<1>2. [g EXCEPT !.n = @ - 1] = [type |-> "event_delta", thread |-> t, id |-> id, of |-> "none", at |-> b, n |-> l]
  OBVIOUS
<1>3. Prev(f) = [[f EXCEPT !.at = @ - 1] EXCEPT !.n = @ - 1]
  BY Zenon DEF Prev
<1> QED BY <1>1, <1>2, <1>3

\* Initially no notification, frame or preview exists.
LEMMA InitPrefix == Init => PrefixInv
<1> SUFFICES ASSUME Init PROVE PrefixInv
  OBVIOUS
<1>1. turn.message = 0 /\ wire = <<>> /\ late = <<>> /\ listener = "off" /\ unbroken /\ owed = <<>>
  BY DEF Init, NoTurn, Streaming
<1>2. \A s \in Streams : frames[s] = <<>> /\ shown[s] = <<>> /\ started[s] = {}
  BY DEF Init
<1>3. PrefixType
  BY <1>1, <1>2, StreamAssumption DEF Init, PrefixType
<1>4. Kept
  BY <1>1, <1>2 DEF Kept, Away, ChannelOrder, WireOrder, TurnOrder, ShownOrder
<1> QED BY <1>3, <1>4 DEF PrefixInv

\* What a client was sent is a prefix.
LEMMA ShownIsPrefix == PrefixInv => CleanPrefix
<1> SUFFICES ASSUME PrefixInv, unbroken, NEW s \in Streams, NEW d \in DOMAIN shown[s],
                    shown[s][d].type = "event_delta", shown[s][d].n > 1
             PROVE  \E i \in Positions(s, "event_delta", shown[s][d].id) :
                        i < d /\ shown[s][i] = [shown[s][d] EXCEPT !.at = @ - 1, !.n = @ - 1]
  BY DEF CleanPrefix
<1>1. shown[s] \in Seq(Frame) /\ shown[s][d] \in Frame
  BY DEF PrefixInv, PrefixType
<1>2. PICK i \in 1 .. d - 1 : shown[s][i] = Prev(shown[s][d])
  BY DEF PrefixInv, Kept, ShownOrder, IsNext
<1>3. i \in DOMAIN shown[s] /\ i < d
  BY <1>1
<1>4. Prev(shown[s][d]).type = "event_delta" /\ Prev(shown[s][d]).id = shown[s][d].id
  BY <1>1 DEF Prev, Frame
<1> QED BY <1>2, <1>3, <1>4 DEF Positions, Prev

\* Steps that move a stream or the listener on.
LEMMA QuietPrefix ==
    ASSUME PrefixInv, UNCHANGED <<turn, wire, late, unbroken, frames, lossyDeltas, started, shown>>,
           owed' = owed \/ \A i \in DOMAIN owed' : owed'[i].type \notin {"event_start", "event_delta"},
           listener' \in {"off", "dialing"} => listener \in {"off", "dialing"} \/ ~unbroken,
           listener' = "down" => listener = "down" \/ ~unbroken,
           \A s \in Streams : pc'[s] \notin Subscribed => pc[s] \notin Subscribed
    PROVE  PrefixInv'
<1>1. PrefixType'
  BY DEF PrefixInv, PrefixType
<1>2. ASSUME unbroken PROVE Kept'
  <2>0. Kept
    BY <1>2 DEF PrefixInv
  <2>3. ChannelOrder'
    BY <2>0 DEF Kept, ChannelOrder
  <2>4. WireOrder'
    BY <2>0 DEF Kept, WireOrder
  <2>5. TurnOrder'
    BY <2>0 DEF Kept, TurnOrder, NextDelta
  <2>6. ShownOrder'
    BY <2>0 DEF Kept, ShownOrder
  <2>7. (\A s \in Streams : pc[s] \notin Subscribed => Away(s))'
    BY <2>0 DEF Kept, Away
  <2>8. (listener \in {"off", "dialing"} => wire = <<>> /\ \A s \in Streams : Away(s))'
    BY <1>2, <2>0 DEF Kept, Away
  <2>9. late' = <<>> /\ listener' # "down"
    BY <1>2, <2>0 DEF Kept
  <2> QED BY <2>3, <2>4, <2>5, <2>6, <2>7, <2>8, <2>9 DEF Kept
<1> QED BY <1>1, <1>2 DEF PrefixInv

-----------------------------------------------------------------------------
(* The producer. *)

\* A notification is put on the connection: a delta where it is the turn's next.
LEMMA WireGrows ==
    ASSUME IInv, PrefixInv, unbroken, NEW n \in Notification, Notify(n),
           UNCHANGED <<listener, late, unbroken, frames, lossyDeltas, started, shown, pc>>,
           IsNext(n.frame) => Upcoming(wire, lossyDeltas, frames, started, shown, n.frame, Len(wire)),
           TurnOrder'
    PROVE  Kept'
<1>1. Kept /\ wire \in Seq(Notification)
  BY DEF PrefixInv, IInv, StreamType
<1>2. wire' = wire \/ wire' = Append(wire, n)
  BY DEF Notify
<1>4. ASSUME NEW f, NEW L \in 0 .. Len(wire), Upcoming(wire, lossyDeltas, frames, started, shown, f, L)
      PROVE  Upcoming(wire', lossyDeltas, frames, started, shown, f, L)
  <2>1. CASE wire' = Append(wire, n)
    <3>1. /\ Preceded(wire', Prev(f), f.thread, L) <=> Preceded(wire, Prev(f), f.thread, L)
          /\ Clear(wire', Prev(f), f.thread, L) <=> Clear(wire, Prev(f), f.thread, L)
      BY <1>1, <2>1, PrecededAppend
    <3> QED BY <1>4, <3>1 DEF Upcoming
  <2> QED BY <1>2, <1>4, <2>1
<1>5. WireOrder'
  <2> SUFFICES ASSUME NEW i \in DOMAIN wire', IsNext(wire'[i].frame)
               PROVE  Upcoming(wire', lossyDeltas, frames, started, shown, wire'[i].frame, i - 1)
    BY DEF WireOrder
  <2>1. CASE i \in DOMAIN wire
    <3>1. wire'[i] = wire[i] /\ i - 1 \in 0 .. Len(wire)
      BY <1>1, <1>2, <2>1
    <3>2. Upcoming(wire, lossyDeltas, frames, started, shown, wire[i].frame, i - 1)
      BY <1>1, <2>1, <3>1 DEF Kept, WireOrder
    <3> QED BY <3>1, <3>2, <1>4
  <2>2. CASE i \notin DOMAIN wire
    <3>1. wire'[i] = n /\ i - 1 = Len(wire) /\ Len(wire) \in 0 .. Len(wire)
      BY <1>1, <1>2, <2>2
    <3> QED BY <3>1, <1>4
  <2> QED BY <2>1, <2>2
<1>6. ChannelOrder'
  BY <1>1 DEF Kept, ChannelOrder
<1>7. ShownOrder'
  BY <1>1 DEF Kept, ShownOrder
<1>8. (\A s \in Streams : pc[s] \notin Subscribed => Away(s))'
  BY <1>1 DEF Kept, Away
<1>9. (listener \in {"off", "dialing"} => wire = <<>> /\ \A s \in Streams : Away(s))'
  BY <1>1 DEF Kept, Away, Notify
<1>10. late' = <<>> /\ listener' # "down"
  BY <1>1 DEF Kept
<1> QED BY <1>5, <1>6, <1>7, <1>8, <1>9, <1>10 DEF Kept

\* The turn goes on while a notification that starts no preview of its thread
\* is put on the connection; and its delta leads to the next.
LEMMA TurnGoesOn ==
    ASSUME IInv, PrefixInv, unbroken, NEW n \in Notification, Notify(n),
           n.frame.type # "event_start", NEW f,
           Upcoming(wire, lossyDeltas, frames, started, shown, f, Len(wire)) \/ n.frame = Prev(f)
    PROVE  Upcoming(wire', lossyDeltas, frames, started, shown, f, Len(wire'))
<1>1. Kept /\ wire \in Seq(Notification)
  BY DEF PrefixInv, IInv, StreamType
<1>2. ~Starts(n, f.thread)
  BY DEF Starts
<1>3. CASE wire' = Append(wire, n)
  <2>1. Len(wire') = Len(wire) + 1
    BY <1>1, <1>3
  <2>2. Preceded(wire', Prev(f), f.thread, Len(wire) + 1)
    <3>1. Preceded(wire, Prev(f), f.thread, Len(wire)) \/ n.frame = Prev(f)
      BY DEF Upcoming
    <3> QED BY <1>1, <1>2, <1>3, <3>1, PrecededNext
  <2>3. Clear(wire', Prev(f), f.thread, Len(wire) + 1) => Clear(wire, Prev(f), f.thread, Len(wire)) /\ n.frame # Prev(f)
    BY <1>1, <1>2, <1>3, PrecededNext
  <2>4. ASSUME NEW s \in Streams, ~lossyDeltas[s], f.thread = Surface[s], Clear(wire', Prev(f), f.thread, Len(wire) + 1)
        PROVE  Follows(frames, started, shown, s, f, Len(frames[s]))
    BY <2>3, <2>4 DEF Upcoming
  <2> QED BY <2>1, <2>2, <2>4 DEF Upcoming
<1>4. CASE wire' # Append(wire, n)
  <2>1. listener \notin {"armed", "waking", "on"} /\ wire' = wire
    BY <1>4 DEF Notify
  <2>2. listener \in {"off", "dialing"}
    BY <2>1, <1>1 DEF Kept, IInv, StreamType
  <2>3. wire = <<>> /\ \A s \in Streams : Away(s)
    BY <2>2, <1>1 DEF Kept
  <2>4. Preceded(wire', Prev(f), f.thread, Len(wire'))
    BY <2>1, <2>3 DEF Preceded
  <2>5. ASSUME NEW s \in Streams PROVE Follows(frames, started, shown, s, f, Len(frames[s]))
    <3>1. frames[s] = <<>> /\ Open(started, s) = {} /\ Len(frames[s]) = 0
      BY <2>3 DEF Away, Open
    <3> QED BY <3>1, BackedEmpty DEF Follows
  <2> QED BY <2>4, <2>5 DEF Upcoming
<1> QED BY <1>3, <1>4

\* What a delete with a live child owes, frame by frame.
LEMMA ThreeOwed ==
    ASSUME NEW a, NEW b, NEW c
    PROVE  LET o == <<a, b>> \o <<c>> IN DOMAIN o = 1 .. 3 /\ o[1] = a /\ o[2] = b /\ o[3] = c
<1>1. <<a, b>> \in Seq({a, b, c}) /\ <<c>> \in Seq({a, b, c})
  OBVIOUS
<1> QED BY <1>1

\* A notification is put on the connection, and a frame owed may be it.
LEMMA NotifyPrefix ==
    ASSUME IInv, PrefixInv, NEW n \in Notification, Notify(n),
           listener' = listener, late' = late, unbroken' = unbroken, frames' = frames, lossyDeltas' = lossyDeltas,
           started' = started, shown' = shown, pc' = pc,
           owed' = owed \/ (owed # <<>> /\ owed' = Tail(owed)),
           unbroken /\ IsNext(n.frame) => Upcoming(wire, lossyDeltas, frames, started, shown, n.frame, Len(wire)),
           unbroken => TurnOrder'
    PROVE  PrefixInv'
<1>t. owed \in Seq(Frame)
  BY DEF IInv, StreamType
<1>1. \A i \in DOMAIN owed' : owed'[i].type \notin {"event_start", "event_delta"}
  <2>1. CASE owed' = owed
    BY <2>1 DEF PrefixInv, PrefixType
  <2>2. CASE owed # <<>> /\ owed' = Tail(owed)
    <3>1. \A i \in DOMAIN owed' : i + 1 \in DOMAIN owed /\ owed'[i] = owed[i + 1]
      BY <1>t, <2>2
    <3> QED BY <3>1 DEF PrefixInv, PrefixType
  <2> QED BY <2>1, <2>2
<1>2. PrefixType'
  BY <1>1 DEF PrefixInv, PrefixType
<1>3. ASSUME unbroken PROVE Kept'
  BY <1>3, WireGrows
<1> QED BY <1>2, <1>3 DEF PrefixInv

\* Every writer, a turn's too, keeps the invariant.
LEMMA WriterPrefix ==
    ASSUME IInv, PrefixInv, Produce \/ (\E t \in Threads : DeleteSession(t)) \/ \E b \in BOOLEAN : Broadcast(b)
    PROVE  PrefixInv'
<1>t. turn \in Turn /\ previews \in 0 .. MaxPreviews /\ owed \in Seq(Frame)
  BY DEF IInv, StreamType
<1>n. EventsNote \in Notification /\ EventsNote.frame.type = "none"
  BY DEF EventsNote, Notification, NoFrame
<1>q. ~IsNext(EventsNote.frame)
  BY <1>n DEF IsNext
<1>1. ASSUME NEW rows, Commit(rows) PROVE PrefixInv'
  <2>1. /\ Notify(EventsNote) /\ turn' = turn
        /\ listener' = listener /\ late' = late /\ unbroken' = unbroken /\ frames' = frames /\ lossyDeltas' = lossyDeltas
        /\ started' = started /\ shown' = shown /\ pc' = pc /\ owed' = owed
    BY <1>1 DEF Commit, AppendInTx, subVars, localVars
  <2>2. ASSUME unbroken PROVE TurnOrder'
    <3>1. TurnOrder /\ NextDelta' = NextDelta
      BY <2>1, <2>2 DEF PrefixInv, Kept, NextDelta
    <3> QED BY <2>1, <2>2, <3>1, <1>n, TurnGoesOn DEF TurnOrder
  <2> QED BY NotifyPrefix, <1>q, <1>n, <2>1, <2>2
<1>2. ASSUME NEW t \in Turns, OpenThinking(t) \/ OpenMessage(t) PROVE PrefixInv'
  <2>0. t \in Threads
    BY StreamAssumption
  <2>1. PICK of \in {"thinking", "message"} : StartPreview(t, of)
    BY <1>2 DEF OpenThinking, OpenMessage
  <2> DEFINE f == [type |-> "event_start", thread |-> t, id |-> previews + 1, of |-> of, at |-> 0, n |-> 0]
             n == [kind |-> "frame", frame |-> f]
  <2>2. n \in Notification
    BY <1>t, <2>0, <2>1, StreamAssumption DEF Notification, Frame, StartPreview
  <2>3. n.frame.type = "event_start" /\ Notify(n)
    BY <2>1 DEF StartPreview, publishFrame
  <2>4. /\ listener' = listener /\ late' = late /\ unbroken' = unbroken /\ frames' = frames /\ lossyDeltas' = lossyDeltas
        /\ started' = started /\ shown' = shown /\ pc' = pc /\ owed' = owed
    BY <1>2 DEF OpenThinking, OpenMessage, subVars, localVars
  <2>5. turn'.thinking # 0 \/ turn'.sent = 0
    BY <1>2, <1>t DEF OpenThinking, OpenMessage, Streaming
  <2>6. TurnOrder'
    BY <2>5 DEF TurnOrder
  <2> HIDE DEF n
  <2>7. ~IsNext(n.frame)
    BY <2>3 DEF IsNext
  <2> QED BY NotifyPrefix, <2>2, <2>3, <2>4, <2>6, <2>7
<1>3. ASSUME NEW t \in Turns, CloseThinking(t) \/ SettleTurn(t) PROVE PrefixInv'
  <2>1. /\ Notify(EventsNote)
        /\ listener' = listener /\ late' = late /\ unbroken' = unbroken /\ frames' = frames /\ lossyDeltas' = lossyDeltas
        /\ started' = started /\ shown' = shown /\ pc' = pc /\ owed' = owed
    BY <1>3 DEF CloseThinking, SettleTurn, AppendInTx, subVars, localVars
  <2>2. turn'.message = 0 \/ turn'.sent = 0
    BY <1>3 DEF CloseThinking, SettleTurn, Streaming, NoTurn
  <2>3. TurnOrder'
    BY <2>2 DEF TurnOrder
  <2> QED BY NotifyPrefix, <1>q, <1>n, <2>1, <2>3
<1>4. ASSUME NEW t \in Turns, TextDelta(t) PROVE PrefixInv'
  <2> DEFINE f == [type |-> "event_delta", thread |-> turn.thread, id |-> turn.message,
                   of |-> "none", at |-> turn.at + 1, n |-> turn.sent + 1]
             n == [kind |-> "frame", frame |-> f]
  <2>1. f = NextDelta /\ n.frame = f /\ f.type = "event_delta" /\ f.n = turn.sent + 1
    BY DEF NextDelta
  <2>2. n \in Notification
    <3>1. turn \in Turn /\ turn.sent + 1 \in 0 .. MaxDeltas /\ turn.at + 1 \in Nat
      BY <1>t, <1>4, StreamAssumption DEF TextDelta, Turn
    <3>2. f \in Frame
      BY <3>1 DEF Turn, Frame
    <3> QED BY <3>2 DEF Notification
  <2>3. /\ Notify(n)
        /\ listener' = listener /\ late' = late /\ unbroken' = unbroken /\ frames' = frames /\ lossyDeltas' = lossyDeltas
        /\ started' = started /\ shown' = shown /\ pc' = pc /\ owed' = owed
    BY <1>4 DEF TextDelta, publishFrame, subVars, localVars
  <2>4. turn.message # 0 /\ turn.thinking = 0 /\ turn.sent \in Nat /\ turn.at \in Nat
    BY <1>4, <1>t, StreamAssumption DEF TextDelta, Turn
  <2>5. f = Prev(NextDelta')
    <3>1. turn' = Streaming(turn.thread, turn.message, 0, turn.at + 1, turn.sent + 1)
      BY <1>4 DEF TextDelta
    <3> DEFINE b == turn.at + 1
               a == b + 1
               l == turn.sent + 1
               k == l + 1
               th == turn.thread
               id == turn.message
    <3>2. NextDelta' = [type |-> "event_delta", thread |-> th, id |-> id, of |-> "none", at |-> a, n |-> k]
      BY <3>1 DEF Streaming, NextDelta
    <3>3. a - 1 = b /\ k - 1 = l
      BY <2>4
    <3>4. f = [type |-> "event_delta", thread |-> th, id |-> id, of |-> "none", at |-> b, n |-> l]
      OBVIOUS
    <3> HIDE DEF a, b, k, l, th, id, f
    <3>5. Prev(NextDelta') = [type |-> "event_delta", thread |-> th, id |-> id, of |-> "none", at |-> b, n |-> l]
      BY <3>2, <3>3, PrevOf
    <3> QED BY <3>4, <3>5
  <2> HIDE DEF n, f
  <2>6. ASSUME unbroken, IsNext(n.frame) PROVE Upcoming(wire, lossyDeltas, frames, started, shown, n.frame, Len(wire))
    <3>1. turn.sent > 0
      BY <2>1, <2>4, <2>6 DEF IsNext
    <3> QED BY <2>1, <2>4, <2>6, <3>1 DEF PrefixInv, Kept, TurnOrder
  <2>7. ASSUME unbroken PROVE TurnOrder'
    <3>1. Upcoming(wire', lossyDeltas, frames, started, shown, NextDelta', Len(wire'))
      BY <2>1, <2>2, <2>3, <2>5, <2>7, TurnGoesOn
    <3> QED BY <2>3, <3>1 DEF TurnOrder
  <2> QED BY NotifyPrefix, <2>2, <2>3, <2>6, <2>7
<1>5. ASSUME NEW t \in Turns, FailTurn(t) PROVE PrefixInv'
  <2>1. UNCHANGED <<listener, wire, late, unbroken, frames, lossyDeltas, started, shown, pc, owed>> /\ turn'.message = 0
    BY <1>5 DEF FailTurn, brokerVars, subVars, localVars, NoTurn, Streaming
  <2>2. TurnOrder'
    BY <2>1 DEF TurnOrder
  <2>3. PrefixType'
    BY <2>1 DEF PrefixInv, PrefixType
  <2>4. ASSUME unbroken PROVE Kept'
    <3>1. Kept
      BY <2>4 DEF PrefixInv
    <3>2. ChannelOrder' /\ WireOrder' /\ ShownOrder'
      BY <2>1, <3>1 DEF Kept, ChannelOrder, WireOrder, ShownOrder
    <3> QED BY <2>1, <2>2, <3>1, <3>2 DEF Kept, Away
  <2> QED BY <2>1, <2>3, <2>4 DEF PrefixInv
<1>6. ASSUME NEW t \in Threads, DeleteSession(t) PROVE PrefixInv'
  <2>1. UNCHANGED <<turn, listener, wire, late, unbroken, frames, lossyDeltas, started, shown, pc>>
    BY <1>6 DEF DeleteSession, brokerVars, subVars, localVars
  <2>2. \A i \in DOMAIN owed' : owed'[i].type \notin {"event_start", "event_delta"}
    <3>1. CASE t = Primary
      <4>1. owed' = <<Ending("session.deleted", Primary)>>
        BY <1>6, <3>1 DEF DeleteSession
      <4> QED BY <4>1 DEF Ending
    <3>2. CASE t # Primary
      <4>1. owed' = <<Ending("thread_terminated", t), Ending("thread_terminated", Primary)>>
                        \o <<Ending("session.deleted", Primary)>>
        BY <1>6, <3>2, Zenon DEF DeleteSession
      <4>2. DOMAIN owed' = 1 .. 3 /\ \A i \in 1 .. 3 : owed'[i].type \in {"thread_terminated", "session.deleted"}
        BY <4>1, ThreeOwed DEF Ending
      <4> QED BY <4>2
    <3> QED BY <3>1, <3>2
  <2> QED BY <2>1, <2>2, QuietPrefix
<1>7. ASSUME NEW b \in BOOLEAN, Broadcast(b) PROVE PrefixInv'
  <2>1. /\ UNCHANGED <<turn, listener, late, unbroken, frames, lossyDeltas, started, shown, pc>>
        /\ owed # <<>> /\ owed' = Tail(owed)
    BY <1>7 DEF Broadcast, subVars, localVars
  <2>2. Head(owed) \in Frame /\ Head(owed) = owed[1] /\ 1 \in DOMAIN owed
    BY <1>t, <2>1
  <2>3. Head(owed).type \notin {"event_start", "event_delta"}
    BY <2>2 DEF PrefixInv, PrefixType
  <2>4. CASE wire' = wire
    <3>1. \A i \in DOMAIN owed' : i + 1 \in DOMAIN owed /\ owed'[i] = owed[i + 1]
      BY <1>t, <2>1
    <3>2. \A i \in DOMAIN owed' : owed'[i].type \notin {"event_start", "event_delta"}
      BY <3>1 DEF PrefixInv, PrefixType
    <3> QED BY <2>1, <2>4, <3>2, QuietPrefix
  <2>5. CASE wire' # wire
    <3> DEFINE n == [kind |-> "frame", frame |-> Head(owed)]
    <3>1. n \in Notification /\ n.frame = Head(owed)
      BY <2>2 DEF Notification
    <3>2. Notify(n)
      BY <1>7, <2>5 DEF Broadcast, publishFrame
    <3> HIDE DEF n
    <3>3. ASSUME unbroken PROVE TurnOrder'
      <4>1. TurnOrder /\ NextDelta' = NextDelta
        BY <2>1, <3>3 DEF PrefixInv, Kept, NextDelta
      <4> QED BY <2>1, <2>3, <3>1, <3>2, <3>3, <4>1, TurnGoesOn DEF TurnOrder
    <3> QED BY NotifyPrefix, <2>1, <2>3, <3>1, <3>2, <3>3 DEF IsNext
  <2> QED BY <2>4, <2>5
<1> QED BY <1>1, <1>2, <1>3, <1>4, <1>5, <1>6, <1>7 DEF Produce

-----------------------------------------------------------------------------
(* The broker. *)

\* What a frame changes of a stream: its channel takes it or not, and a delta it
\* does not take, the stream being subscribed to its thread, leaves it lossy.
LEMMA DeliverShare ==
    ASSUME IInv, PrefixInv, NEW x \in Frame, Deliver(x), NEW s \in Streams
    PROVE  /\ \/ frames'[s] = frames[s]
              \/ Takes(s, x) /\ frames'[s] = Append(frames[s], x)
           /\ frames'[s] \in Seq(Frame) /\ Len(frames'[s]) <= FrameCap /\ lossyDeltas'[s] \in BOOLEAN
           /\ x.type # "event_start" \/ x.thread # Surface[s] => (~lossyDeltas'[s] => ~lossyDeltas[s])
           /\ s \in Members /\ x.type = "event_delta" /\ x.thread = Surface[s] /\ ~lossyDeltas'[s] =>
                  frames'[s] = Append(frames[s], x)
<1>1. frames[s] \in Seq(Frame) /\ lossyDeltas[s] \in BOOLEAN
  BY DEF PrefixInv, PrefixType
<1>2. frames'[s] = IF Takes(s, x) /\ Len(frames[s]) < FrameCap THEN Append(frames[s], x) ELSE frames[s]
  BY DEF Deliver
<1>3. lossyDeltas'[s] = IF s \in Members /\ x.thread = Surface[s]
           THEN CASE x.type = "event_start" -> FALSE
                  [] x.type = "event_delta" -> lossyDeltas[s] \/ Len(frames[s]) = FrameCap
                  [] OTHER -> lossyDeltas[s]
           ELSE lossyDeltas[s]
  BY DEF Deliver
<1>4. Len(frames[s]) <= FrameCap /\ FrameCap \in Nat
  BY StreamAssumption DEF PrefixInv, PrefixType
<1>5. \/ frames'[s] = frames[s]
      \/ Takes(s, x) /\ frames'[s] = Append(frames[s], x)
  BY <1>2
<1>6. frames'[s] \in Seq(Frame) /\ Len(frames'[s]) <= FrameCap
  <2>1. CASE Takes(s, x) /\ Len(frames[s]) < FrameCap
    BY <1>1, <1>2, <1>4, <2>1
  <2>2. CASE ~(Takes(s, x) /\ Len(frames[s]) < FrameCap)
    BY <1>1, <1>2, <1>4, <2>2
  <2> QED BY <2>1, <2>2
<1>7. lossyDeltas'[s] \in BOOLEAN /\ (x.type # "event_start" \/ x.thread # Surface[s] => (~lossyDeltas'[s] => ~lossyDeltas[s]))
  BY <1>1, <1>3
<1>8. ASSUME s \in Members, x.type = "event_delta", x.thread = Surface[s], ~lossyDeltas'[s]
      PROVE  frames'[s] = Append(frames[s], x)
  <2>1. ~lossyDeltas[s] /\ Len(frames[s]) # FrameCap
    BY <1>3, <1>8
  <2>2. Takes(s, x)
    BY <1>8, <2>1 DEF Takes
  <2>3. Len(frames[s]) < FrameCap
    BY <1>1, <1>4, <2>1
  <2> QED BY <1>2, <2>2, <2>3
<1> QED BY <1>5, <1>6, <1>7, <1>8

\* A stream with nothing in its channel and no preview begun is behind nothing.
LEMMA NothingFollows ==
    ASSUME NEW fr, NEW st, NEW sh, NEW s, NEW f, fr[s] = <<>>, st[s] = {}
    PROVE  Follows(fr, st, sh, s, f, Len(fr[s]))
<1>1. Len(fr[s]) = 0 /\ Open(st, s) = {}
  BY DEF Open
<1> QED BY <1>1, BackedEmpty DEF Follows

\* A delta on the connection is a frame.
LEMMA DeltaIsFrame ==
    ASSUME NEW n \in Notification, IsNext(n.frame)
    PROVE  n.frame \in Frame /\ n.frame.type = "event_delta"
BY DEF IsNext, Notification, NoFrame

\* What the dispatch of x makes of the channels: each takes x or does not, and
\* one that takes deltas afterwards took this one.
Taken(x, fr, ly) ==
    \A s \in Streams :
        /\ \/ fr[s] = frames[s]
           \/ Takes(s, x) /\ fr[s] = Append(frames[s], x) /\ x \in Frame
        /\ x.type # "event_start" \/ x.thread # Surface[s] => (~ly[s] => ~lossyDeltas[s])
        /\ s \in Members /\ x.type = "event_delta" /\ x.thread = Surface[s] /\ ~ly[s] =>
               fr[s] = Append(frames[s], x) /\ x \in Frame

\* A delta that follows the dispatched notification still has its predecessor
\* before it.
LEMMA DispatchedBefore ==
    ASSUME IInv, PrefixInv, unbroken, wire # <<>>, NEW x, x = Head(wire).frame,
           NEW f, f.type = "event_delta", Prev(f).type = "event_delta", Prev(f).thread = f.thread,
           NEW L \in 1 .. Len(wire),
           Upcoming(wire, lossyDeltas, frames, started, shown, f, L),
           NEW fr, NEW ly,
           Taken(x, fr, ly)
    PROVE  Upcoming(Tail(wire), ly, fr, started, shown, f, L - 1)
<1> DEFINE p == Prev(f)
           t == f.thread
<1>w. wire \in Seq(Notification) /\ Head(wire) = wire[1] /\ L \in Nat /\ L >= 1 /\ L <= Len(wire)
  <2>1. wire \in Seq(Notification)
    BY DEF IInv, StreamType
  <2>2. PICK n \in Nat : n = Len(wire)
    BY <2>1
  <2>3. L \in 1 .. n
    BY <2>2
  <2>4. L \in Nat /\ L >= 1 /\ L <= n
    BY <2>2, <2>3
  <2>5. Head(wire) = wire[1]
    BY <2>1
  <2> QED BY <2>1, <2>2, <2>4, <2>5
<1>k. Kept
  BY DEF PrefixInv
<1>1. Preceded(wire, p, t, L)
  BY DEF Upcoming
<1>2. /\ Preceded(Tail(wire), p, t, L - 1)
      /\ Starts(wire[1], t) => ~Clear(Tail(wire), p, t, L - 1)
      /\ ~Starts(wire[1], t) /\ wire[1].frame # p /\ Clear(Tail(wire), p, t, L - 1) => Clear(wire, p, t, L)
  BY <1>w, <1>1, PrecededTail
<1>3. ASSUME NEW s \in Streams, ~ly[s], t = Surface[s], Clear(Tail(wire), p, t, L - 1)
      PROVE  Follows(fr, started, shown, s, f, Len(fr[s]))
  <2>q. frames[s] \in Seq(Frame)
    BY DEF PrefixInv, PrefixType
  <2>a. \/ fr[s] = frames[s]
        \/ Takes(s, x) /\ fr[s] = Append(frames[s], x) /\ x \in Frame
    BY DEF Taken
  <2>b. x.type # "event_start" \/ x.thread # Surface[s] => (~ly[s] => ~lossyDeltas[s])
    BY DEF Taken
  <2>c. s \in Members /\ x.type = "event_delta" /\ x.thread = Surface[s] /\ ~ly[s] =>
            fr[s] = Append(frames[s], x) /\ x \in Frame
    BY DEF Taken
  <2>1. ~Starts(wire[1], t)
    BY <1>2, <1>3
  <2>2. CASE s \notin Members
    <3>1. Away(s) /\ fr[s] = frames[s]
      BY <1>k, <2>2, <2>a DEF Kept, Members, Takes
    <3>2. fr[s] = <<>> /\ started[s] = {}
      BY <3>1 DEF Away
    <3> QED BY <3>2, NothingFollows
  <2>3. CASE s \in Members /\ x = p
    <3>1. fr[s] = Append(frames[s], x) /\ x \in Frame
      BY <1>3, <2>3, <2>c
    <3>2. Len(fr[s]) = Len(frames[s]) + 1 /\ x.type # "event_start"
      <4>1. Len(fr[s]) = Len(frames[s]) + 1
        BY <2>q, <3>1
      <4>2. x.type # "event_start"
        BY <2>3
      <4> QED BY <4>1, <4>2
    <3>3. Backed(Append(frames[s], x), Open(started, s), shown[s], p, f.id, Len(frames[s]) + 1)
      BY <2>3, <2>q, <3>1, <3>2, BackedAppend
    <3> QED BY <3>1, <3>2, <3>3 DEF Follows
  <2>4. CASE s \in Members /\ x # p
    <3>1. Clear(wire, p, t, L)
      BY <1>2, <1>3, <1>w, <2>1, <2>4
    <3>2. x.type # "event_start" \/ x.thread # Surface[s]
      BY <1>3, <1>w, <2>1 DEF Starts
    <3>3. ~lossyDeltas[s]
      BY <1>3, <2>b, <3>2
    <3>4. Follows(frames, started, shown, s, f, Len(frames[s]))
      BY <1>3, <3>1, <3>3 DEF Upcoming
    <3>5. CASE fr[s] = frames[s]
      BY <3>4, <3>5 DEF Follows
    <3>6. CASE Takes(s, x) /\ fr[s] = Append(frames[s], x) /\ x \in Frame
      <4>1. x.type # "event_start"
        BY <3>2, <3>6 DEF Takes
      <4>2. Len(fr[s]) = Len(frames[s]) + 1
        BY <2>q, <3>6
      <4>3. Backed(frames[s], Open(started, s), shown[s], p, f.id, Len(frames[s]))
        BY <3>4 DEF Follows
      <4>4. Backed(Append(frames[s], x), Open(started, s), shown[s], p, f.id, Len(frames[s]) + 1)
        BY <2>q, <3>6, <4>1, <4>3, BackedAppend
      <4> QED BY <3>6, <4>2, <4>4 DEF Follows
    <3> QED BY <2>a, <3>5, <3>6
  <2> QED BY <2>2, <2>3, <2>4
<1> QED BY <1>2, <1>3 DEF Upcoming

\* The predecessor of a delta is a delta of its thread.
LEMMA PrevKeeps ==
    ASSUME NEW f, f \in Frame \/ f = NextDelta
    PROVE  Prev(f).type = f.type /\ Prev(f).thread = f.thread /\ Prev(f).id = f.id
<1>1. CASE f \in Frame
  BY <1>1 DEF Frame, Prev
<1>2. CASE f = NextDelta
  BY <1>2 DEF NextDelta, Prev
<1> QED BY <1>1, <1>2

\* The listener dispatches the notification at the connection's head.
LEMMA DispatchPrefix ==
    ASSUME IInv, PrefixInv, Dispatch
    PROVE  PrefixInv'
<1> DEFINE note == Head(wire)
           x == note.frame
<1>w. wire \in Seq(Notification) /\ wire # <<>> /\ note = wire[1] /\ note \in Notification /\ 1 \in DOMAIN wire
  BY DEF Dispatch, IInv, StreamType
<1>u. /\ wire' = Tail(wire) /\ listener' = listener /\ listener = "on" /\ late' = late /\ unbroken' = unbroken /\ pc' = pc
      /\ started' = started /\ shown' = shown /\ turn' = turn /\ owed' = owed
  BY DEF Dispatch, logVars, localVars
<1>d. dispatch(note)
  BY DEF Dispatch
<1> HIDE DEF note
<1>f. note.kind = "frame" => x \in Frame
  BY <1>w DEF Notification
<1>q. /\ frames \in [Streams -> Seq(Frame)] /\ lossyDeltas \in [Streams -> BOOLEAN]
      /\ \A s \in Streams : Len(frames[s]) <= FrameCap
  BY DEF PrefixInv, PrefixType
<1>1. /\ frames' \in [Streams -> Seq(Frame)] /\ \A s \in Streams : Len(frames'[s]) <= FrameCap
      /\ lossyDeltas' \in [Streams -> BOOLEAN]
      /\ Taken(x, frames', lossyDeltas')
  <2>1. CASE note.kind = "frame"
    <3>1. Deliver(x) /\ x \in Frame
      BY <1>d, <1>f, <2>1 DEF dispatch
    <3>2. DOMAIN frames' = Streams /\ DOMAIN lossyDeltas' = Streams
      BY <3>1 DEF Deliver
    <3>3. \A s \in Streams :
              /\ \/ frames'[s] = frames[s]
                 \/ Takes(s, x) /\ frames'[s] = Append(frames[s], x)
              /\ frames'[s] \in Seq(Frame) /\ Len(frames'[s]) <= FrameCap /\ lossyDeltas'[s] \in BOOLEAN
              /\ x.type # "event_start" \/ x.thread # Surface[s] => (~lossyDeltas'[s] => ~lossyDeltas[s])
              /\ s \in Members /\ x.type = "event_delta" /\ x.thread = Surface[s] /\ ~lossyDeltas'[s] =>
                     frames'[s] = Append(frames[s], x)
      BY <3>1, DeliverShare
    <3>4. frames' = [s \in Streams |-> frames'[s]] /\ lossyDeltas' = [s \in Streams |-> lossyDeltas'[s]]
      BY <3>1 DEF Deliver
    <3> HIDE DEF x
    <3>5. frames' \in [Streams -> Seq(Frame)] /\ lossyDeltas' \in [Streams -> BOOLEAN]
      BY <3>3, <3>4
    <3>6. Taken(x, frames', lossyDeltas')
      BY <3>1, <3>3 DEF Taken
    <3> QED BY <3>3, <3>5, <3>6
  <2>2. CASE note.kind # "frame"
    <3>1. frames' = frames /\ lossyDeltas' = lossyDeltas
      BY <1>d, <2>2 DEF dispatch
    <3>2. x.type = "none"
      <4>1. note \in Notification
        BY <1>w
      <4>2. note.frame = NoFrame
        BY <2>2, <4>1 DEF Notification
      <4> QED BY <4>2 DEF NoFrame
    <3>3. Taken(x, frames', lossyDeltas')
      BY <3>1, <3>2 DEF Taken
    <3> QED BY <1>q, <3>1, <3>3
  <2> QED BY <2>1, <2>2
<1> HIDE DEF x
<1>2. PrefixType'
  BY <1>u, <1>1 DEF PrefixInv, PrefixType
<1>3. ASSUME unbroken PROVE Kept'
  <2>k. Kept
    BY <1>3 DEF PrefixInv
  <2>1. ASSUME NEW f, f \in Frame \/ f = NextDelta, f.type = "event_delta", NEW L \in 1 .. Len(wire),
               Upcoming(wire, lossyDeltas, frames, started, shown, f, L)
        PROVE  Upcoming(wire', lossyDeltas', frames', started', shown', f, L - 1)
    <3>1. Prev(f).type = "event_delta" /\ Prev(f).thread = f.thread
      BY <2>1, PrevKeeps
    <3>2. Upcoming(Tail(wire), lossyDeltas', frames', started, shown, f, L - 1)
      BY <1>1, <1>3, <1>w, <2>1, <3>1, DispatchedBefore DEF note, x
    <3> QED BY <1>u, <3>2
  <2>2. WireOrder'
    <3> SUFFICES ASSUME NEW i \in DOMAIN wire', IsNext(wire'[i].frame)
                 PROVE  Upcoming(wire', lossyDeltas', frames', started', shown', wire'[i].frame, i - 1)
      BY DEF WireOrder
    <3>1. /\ i + 1 \in DOMAIN wire /\ wire'[i] = wire[i + 1] /\ i \in 1 .. Len(wire) /\ (i + 1) - 1 = i
          /\ wire[i + 1] \in Notification
      BY <1>u, <1>w
    <3>2. Upcoming(wire, lossyDeltas, frames, started, shown, wire[i + 1].frame, i)
      BY <2>k, <3>1 DEF Kept, WireOrder
    <3>3. wire[i + 1].frame \in Frame /\ wire[i + 1].frame.type = "event_delta"
      BY <3>1, DeltaIsFrame
    <3> QED BY <2>1, <3>1, <3>2, <3>3
  <2>3. TurnOrder'
    <3> SUFFICES ASSUME turn.message # 0, turn.thinking = 0, turn.sent > 0
                 PROVE  Upcoming(wire', lossyDeltas', frames', started', shown', NextDelta, Len(wire'))
      BY <1>u DEF TurnOrder, NextDelta
    <3>1. Upcoming(wire, lossyDeltas, frames, started, shown, NextDelta, Len(wire))
      BY <2>k DEF Kept, TurnOrder
    <3>2. Len(wire) \in 1 .. Len(wire) /\ Len(wire') = Len(wire) - 1 /\ NextDelta.type = "event_delta"
      BY <1>u, <1>w DEF NextDelta
    <3> QED BY <2>1, <3>1, <3>2
  <2>4. ChannelOrder'
    <3> SUFFICES ASSUME NEW s \in Streams, NEW i \in DOMAIN frames'[s], IsNext(frames'[s][i])
                 PROVE  Follows(frames', started, shown, s, frames'[s][i], i - 1)
      BY <1>u DEF ChannelOrder
    <3>q. frames[s] \in Seq(Frame)
      BY <1>q
    <3>1. CASE frames'[s] = frames[s]
      BY <2>k, <3>1 DEF Kept, ChannelOrder, Follows
    <3>2. CASE Takes(s, x) /\ frames'[s] = Append(frames[s], x) /\ x \in Frame
      <4>1. CASE i \in DOMAIN frames[s]
        <5>1. frames'[s][i] = frames[s][i] /\ i - 1 \in 0 .. Len(frames[s])
          BY <3>q, <3>2, <4>1
        <5>2. Follows(frames, started, shown, s, frames[s][i], i - 1)
          BY <2>k, <4>1, <5>1 DEF Kept, ChannelOrder
        <5>3. Backed(Append(frames[s], x), Open(started, s), shown[s], Prev(frames[s][i]), frames[s][i].id, i - 1)
          BY <3>q, <3>2, <5>1, <5>2, BackedAppend DEF Follows
        <5> QED BY <3>2, <5>1, <5>3 DEF Follows
      <4>2. CASE i \notin DOMAIN frames[s]
        <5>1. frames'[s][i] = x /\ i - 1 = Len(frames[s]) /\ Len(frames[s]) \in 0 .. Len(frames[s])
          BY <3>q, <3>2, <4>2
        <5>2. x.type = "event_delta" /\ ~lossyDeltas[s] /\ x.thread = Surface[s]
          BY <3>2, <5>1 DEF IsNext, Takes
        <5>3. Upcoming(wire, lossyDeltas, frames, started, shown, x, 0)
          <6>1. wire[1].frame = x /\ 1 - 1 = 0
            BY <1>w DEF x
          <6> QED BY <1>w, <2>k, <5>1, <6>1 DEF Kept, WireOrder
        <5>4. Clear(wire, Prev(x), x.thread, 0)
          BY DEF Clear
        <5>5. Follows(frames, started, shown, s, x, Len(frames[s]))
          BY <5>2, <5>3, <5>4 DEF Upcoming
        <5>6. Backed(Append(frames[s], x), Open(started, s), shown[s], Prev(x), x.id, Len(frames[s]))
          BY <3>q, <3>2, <5>1, <5>5, BackedAppend DEF Follows
        <5> QED BY <3>2, <5>1, <5>6 DEF Follows
      <4> QED BY <4>1, <4>2
    <3> QED BY <1>1, <3>1, <3>2 DEF Taken
  <2>5. ShownOrder'
    BY <1>u, <2>k DEF Kept, ShownOrder
  <2>6. (\A s \in Streams : pc[s] \notin Subscribed => Away(s))'
    <3> SUFFICES ASSUME NEW s \in Streams, pc[s] \notin Subscribed PROVE frames'[s] = <<>> /\ started'[s] = {}
      BY <1>u DEF Away
    <3>1. frames'[s] = frames[s]
      BY <1>1 DEF Taken, Takes, Members
    <3> QED BY <1>u, <2>k, <3>1 DEF Kept, Away
  <2> QED BY <1>u, <2>k, <2>2, <2>3, <2>4, <2>5, <2>6 DEF Kept
<1> QED BY <1>u, <1>2, <1>3 DEF PrefixInv

\* A break ends what the connection keeps; a late notification needs a listener
\* given up with it in hand.
LEMMA BrokerPrefix ==
    ASSUME IInv, PrefixInv, Listening \/ Break \/ DispatchLate
    PROVE  PrefixInv'
<1>k. unbroken \in BOOLEAN /\ (unbroken => Kept)
  BY DEF PrefixInv, PrefixType
<1>1. CASE Lower \/ Listen \/ Raise \/ wakeAll
  <2>1. /\ UNCHANGED <<turn, wire, late, unbroken, frames, lossyDeltas, started, shown, owed, pc>>
        /\ listener' # "down" /\ (listener' \in {"off", "dialing"} => listener = "down")
    BY <1>1 DEF Lower, Listen, Raise, wakeAll, logVars, subVars, localVars
  <2>2. listener' \in {"off", "dialing"} => ~unbroken
    BY <1>k, <2>1 DEF Kept
  <2> QED BY <2>1, <2>2, QuietPrefix
<1>2. CASE Dispatch
  BY <1>2, DispatchPrefix
<1>3. CASE Break
  <2>1. /\ UNCHANGED <<frames, lossyDeltas, started, shown, owed>>
        /\ unbroken' = FALSE
    BY <1>3 DEF Break, logVars, subVars, localVars
  <2>2. unbroken' \in BOOLEAN /\ ~unbroken'
    BY <1>k, <2>1
  <2>3. PrefixType'
    BY <2>1, <2>2 DEF PrefixInv, PrefixType
  <2> QED BY <2>2, <2>3 DEF PrefixInv
<1>4. CASE DispatchLate
  <2> DEFINE note == Head(late)
             x == note.frame
  <2>1. /\ late # <<>> /\ dispatch(note) /\ note \in Notification
        /\ unbroken' = unbroken /\ started' = started /\ shown' = shown /\ owed' = owed
    BY <1>4 DEF DispatchLate, logVars, localVars, IInv, StreamType
  <2>2. ~unbroken'
    BY <1>k, <2>1 DEF Kept
  <2> HIDE DEF note
  <2>3. CASE note.kind = "frame"
    <3>1. Deliver(x) /\ x \in Frame
      BY <2>1, <2>3 DEF dispatch, Notification
    <3> HIDE DEF x
    <3>2. \A s \in Streams : frames'[s] \in Seq(Frame) /\ Len(frames'[s]) <= FrameCap /\ lossyDeltas'[s] \in BOOLEAN
      BY <3>1, DeliverShare
    <3>3. frames' = [s \in Streams |-> frames'[s]] /\ lossyDeltas' = [s \in Streams |-> lossyDeltas'[s]]
      BY <3>1 DEF Deliver
    <3>4. PrefixType'
      BY <2>1, <3>2, <3>3 DEF PrefixInv, PrefixType
    <3> QED BY <2>2, <3>4 DEF PrefixInv
  <2>4. CASE note.kind # "frame"
    <3>1. frames' = frames /\ lossyDeltas' = lossyDeltas
      BY <2>1, <2>4 DEF dispatch
    <3>2. PrefixType'
      BY <2>1, <3>1 DEF PrefixInv, PrefixType
    <3> QED BY <2>2, <3>2 DEF PrefixInv
  <2> QED BY <2>3, <2>4
<1> QED BY <1>1, <1>2, <1>3, <1>4 DEF Listening

-----------------------------------------------------------------------------
(* The handlers. *)

\* A step of one stream's handler: only its own channel, begun previews and sent
\* frames change.
Alone(s, q, st, sh) ==
    /\ q \in Seq(Frame) /\ st \in SUBSET Nat /\ sh \in Seq(Frame)
    /\ frames' = [frames EXCEPT ![s] = q] /\ started' = [started EXCEPT ![s] = st]
    /\ shown' = [shown EXCEPT ![s] = sh]
    /\ turn' = turn /\ wire' = wire /\ late' = late /\ listener' = listener
    /\ \A r \in Streams : r # s => lossyDeltas'[r] = lossyDeltas[r] /\ pc'[r] = pc[r]
    /\ lossyDeltas'[s] = lossyDeltas[s] \/ (q = <<>> /\ st = {})
    /\ pc'[s] \in Subscribed \/ (q = <<>> /\ st = {})
    /\ frames[s] = <<>> /\ started[s] = {} => q = <<>> /\ st = {}

\* The deltas in its channel and those it has sent have their predecessors.
InOrder(s, q, sh) ==
    /\ \A i \in DOMAIN q : IsNext(q[i]) => Follows(frames', started', shown', s, q[i], i - 1)
    /\ \A i \in DOMAIN sh : IsNext(sh[i]) => \E j \in 1 .. i - 1 : sh[j] = Prev(sh[i])

\* A delta on its way to the stream still follows its predecessor.
GoesOn(s, q, next) ==
    \A f \in Frame \cup {next} :
        f.type = "event_delta" /\ Follows(frames, started, shown, s, f, Len(frames[s])) =>
            Follows(frames', started', shown', s, f, Len(q))

\* Such a step keeps what one connection keeps.
LEMMA OneStream ==
    ASSUME IInv, PrefixInv, unbroken, NEW s \in Streams, NEW q, NEW st, NEW sh,
           Alone(s, q, st, sh), InOrder(s, q, sh), GoesOn(s, q, NextDelta)
    PROVE  Kept'
<1>a. /\ frames' = [frames EXCEPT ![s] = q] /\ started' = [started EXCEPT ![s] = st]
      /\ shown' = [shown EXCEPT ![s] = sh]
  BY DEF Alone
<1>b. turn' = turn /\ wire' = wire /\ late' = late /\ listener' = listener
  BY DEF Alone
<1>c. /\ \A r \in Streams : r # s => lossyDeltas'[r] = lossyDeltas[r] /\ pc'[r] = pc[r]
      /\ lossyDeltas'[s] = lossyDeltas[s] \/ (q = <<>> /\ st = {})
      /\ pc'[s] \in Subscribed \/ (q = <<>> /\ st = {})
      /\ frames[s] = <<>> /\ started[s] = {} => q = <<>> /\ st = {}
  BY DEF Alone
<1>k. Kept
  BY DEF PrefixInv
<1>t. /\ frames \in [Streams -> Seq(Frame)] /\ started \in [Streams -> SUBSET Nat] /\ shown \in [Streams -> Seq(Frame)]
  BY DEF PrefixInv, PrefixType
<1>1. /\ frames'[s] = q /\ started'[s] = st /\ shown'[s] = sh
      /\ \A r \in Streams : r # s => frames'[r] = frames[r] /\ started'[r] = started[r] /\ shown'[r] = shown[r]
  BY <1>a, <1>t
<1>2. \A r \in Streams : \A f, m : r # s =>
          (Follows(frames, started, shown, r, f, m) <=> Follows(frames', started', shown', r, f, m))
  BY <1>1 DEF Follows, Open
<1>3. ASSUME NEW f \in Frame \cup {NextDelta}, f.type = "event_delta", NEW L,
             Upcoming(wire, lossyDeltas, frames, started, shown, f, L)
      PROVE  Upcoming(wire, lossyDeltas', frames', started', shown', f, L)
  <2> SUFFICES ASSUME NEW r \in Streams, ~lossyDeltas'[r], f.thread = Surface[r], Clear(wire, Prev(f), f.thread, L)
               PROVE  Follows(frames', started', shown', r, f, Len(frames'[r]))
    BY <1>3 DEF Upcoming
  <2>1. CASE r # s
    <3>1. Follows(frames, started, shown, r, f, Len(frames[r]))
      BY <1>3, <1>c, <2>1 DEF Upcoming
    <3> QED BY <1>1, <1>2, <2>1, <3>1
  <2>2. CASE r = s /\ lossyDeltas'[s] = lossyDeltas[s]
    <3>1. Follows(frames, started, shown, s, f, Len(frames[s]))
      BY <1>3, <2>2 DEF Upcoming
    <3> QED BY <1>1, <1>3, <2>2, <3>1 DEF GoesOn
  <2>3. CASE r = s /\ q = <<>> /\ st = {}
    BY <1>1, <2>3, NothingFollows
  <2> QED BY <1>c, <2>1, <2>2, <2>3
<1>4. WireOrder'
  <2> SUFFICES ASSUME NEW i \in DOMAIN wire, IsNext(wire[i].frame)
               PROVE  Upcoming(wire, lossyDeltas', frames', started', shown', wire[i].frame, i - 1)
    BY <1>b DEF WireOrder
  <2>1. wire[i].frame \in Frame /\ wire[i].frame.type = "event_delta"
    <3>1. wire[i] \in Notification
      BY DEF IInv, StreamType
    <3> QED BY <3>1, DeltaIsFrame
  <2>2. Upcoming(wire, lossyDeltas, frames, started, shown, wire[i].frame, i - 1)
    BY <1>k DEF Kept, WireOrder
  <2> QED BY <1>3, <2>1, <2>2
<1>5. TurnOrder'
  <2> SUFFICES ASSUME turn.message # 0, turn.thinking = 0, turn.sent > 0
               PROVE  Upcoming(wire, lossyDeltas', frames', started', shown', NextDelta, Len(wire))
    BY <1>b DEF TurnOrder, NextDelta
  <2>1. Upcoming(wire, lossyDeltas, frames, started, shown, NextDelta, Len(wire))
    BY <1>k DEF Kept, TurnOrder
  <2>2. NextDelta.type = "event_delta"
    BY DEF NextDelta
  <2> QED BY <1>3, <2>1, <2>2
<1>6. ChannelOrder'
  <2> SUFFICES ASSUME NEW r \in Streams, NEW i \in DOMAIN frames'[r], IsNext(frames'[r][i])
               PROVE  Follows(frames', started', shown', r, frames'[r][i], i - 1)
    BY DEF ChannelOrder
  <2>1. CASE r = s
    BY <1>1, <2>1 DEF InOrder
  <2>2. CASE r # s
    <3>1. Follows(frames, started, shown, r, frames[r][i], i - 1)
      BY <1>1, <1>k, <2>2 DEF Kept, ChannelOrder
    <3> QED BY <1>1, <1>2, <2>2, <3>1
  <2> QED BY <2>1, <2>2
<1>7. ShownOrder'
  <2> SUFFICES ASSUME NEW r \in Streams, NEW i \in DOMAIN shown'[r], IsNext(shown'[r][i])
               PROVE  \E j \in 1 .. i - 1 : shown'[r][j] = Prev(shown'[r][i])
    BY DEF ShownOrder
  <2>1. CASE r = s
    BY <1>1, <2>1 DEF InOrder
  <2>2. CASE r # s
    BY <1>1, <1>k, <2>2 DEF Kept, ShownOrder
  <2> QED BY <2>1, <2>2
<1>8. (\A r \in Streams : pc[r] \notin Subscribed => Away(r))'
  BY <1>1, <1>c, <1>k DEF Kept, Away
<1>9. (listener \in {"off", "dialing"} => wire = <<>> /\ \A r \in Streams : Away(r))'
  BY <1>1, <1>b, <1>c, <1>k DEF Kept, Away
<1> QED BY <1>b, <1>k, <1>4, <1>5, <1>6, <1>7, <1>8, <1>9 DEF Kept

\* The handler takes a frame: a start is noted, what the client asked for is
\* sent, and a delta behind the frame has it where it needs it.
LEMMA FramePrefix ==
    ASSUME IInv, PrefixInv, NEW s \in Streams, processFrame(s)
    PROVE  PrefixInv'
<1> DEFINE x == frames[s][1]
           q == Tail(frames[s])
           st == IF x.type = "event_start" THEN started[s] \cup {x.id} ELSE started[s]
           sh == IF Forwards(s, x) THEN Append(shown[s], x) ELSE shown[s]
<1>t. /\ frames \in [Streams -> Seq(Frame)] /\ started \in [Streams -> SUBSET Nat] /\ shown \in [Streams -> Seq(Frame)]
      /\ Len(frames[s]) <= FrameCap /\ FrameCap \in Nat
  BY StreamAssumption DEF PrefixInv, PrefixType
<1>1. frames[s] # <<>> /\ Head(frames[s]) = x /\ x \in Frame /\ 1 \in DOMAIN frames[s]
  BY <1>t DEF processFrame
<1>2. /\ q \in Seq(Frame) /\ Len(q) = Len(frames[s]) - 1
      /\ \A i \in DOMAIN q : i + 1 \in DOMAIN frames[s] /\ q[i] = frames[s][i + 1]
  BY <1>t, <1>1
<1>3. x.id \in Nat
  BY <1>1 DEF Frame
<1>4. st \in SUBSET Nat /\ sh \in Seq(Frame)
  BY <1>t, <1>1, <1>3
<1>5. /\ frames' = [frames EXCEPT ![s] = q] /\ started' = [started EXCEPT ![s] = st]
      /\ shown' = [shown EXCEPT ![s] = sh]
  BY <1>1 DEF processFrame
<1>6. /\ turn' = turn /\ wire' = wire /\ late' = late /\ listener' = listener /\ lossyDeltas' = lossyDeltas
      /\ pc' = pc /\ unbroken' = unbroken /\ owed' = owed /\ pc[s] \in Subscribed
  BY DEF processFrame, logVars, brokerVars, Subscribed
<1>7. frames'[s] = q /\ started'[s] = st /\ shown'[s] = sh
  BY <1>t, <1>5
<1>8. PrefixType'
  <2>1. Len(q) <= FrameCap
    BY <1>2, <1>t
  <2>2. \A r \in Streams : Len(frames'[r]) <= FrameCap
    BY <1>5, <1>t, <2>1 DEF PrefixInv, PrefixType
  <2>3. /\ frames' \in [Streams -> Seq(Frame)] /\ started' \in [Streams -> SUBSET Nat]
        /\ shown' \in [Streams -> Seq(Frame)]
    BY <1>2, <1>4, <1>5, <1>t
  <2> QED BY <1>6, <2>2, <2>3 DEF PrefixInv, PrefixType
<1>9. ASSUME unbroken PROVE Kept'
  <2>k. Kept
    BY <1>9 DEF PrefixInv
  <2>1. ASSUME NEW f \in Frame \cup {NextDelta}, f.type = "event_delta", NEW m \in 1 .. Len(frames[s]),
               Follows(frames, started, shown, s, f, m)
        PROVE  Follows(frames', started', shown', s, f, m - 1)
    <3> DEFINE so == Open(started, s)
               sn == Open(started', s)
    <3>1. Prev(f).type = "event_delta" /\ Prev(f).id = f.id
      BY <2>1, PrevKeeps
    <3>2. Backed(frames[s], so, shown[s], Prev(f), f.id, m)
      BY <2>1 DEF Follows
    <3>3. sn = so \/ x.type = "event_start"
      BY <1>7 DEF Open
    <3>4. sh = shown[s] \/ sh = Append(shown[s], x)
      OBVIOUS
    <3>5. x.type = "event_delta" /\ x.id \in so => sh = Append(shown[s], x)
      BY DEF Open, Forwards
    <3> HIDE DEF so, sn, sh, st
    <3>6. Backed(q, sn, sh, Prev(f), f.id, m - 1)
      BY <1>1, <1>4, <1>t, <3>1, <3>2, <3>3, <3>4, <3>5, BackedTail
    <3> QED BY <1>7, <3>6 DEF Follows, sn
  <2>2. ASSUME NEW i \in DOMAIN q, IsNext(q[i]) PROVE Follows(frames', started', shown', s, q[i], i - 1)
    <3>0. i + 1 \in DOMAIN frames[s] /\ q[i] = frames[s][i + 1] /\ i \in 1 .. Len(q)
      BY <1>2
    <3>1. i + 1 \in DOMAIN frames[s] /\ q[i] = frames[s][i + 1] /\ (i + 1) - 1 = i /\ i \in 1 .. Len(frames[s])
      <4> HIDE DEF q
      <4> QED BY <1>2, <1>t, <3>0
    <3>2. Follows(frames, started, shown, s, q[i], i)
      BY <2>k, <2>2, <3>1 DEF Kept, ChannelOrder
    <3>3. q[i] \in Frame /\ q[i].type = "event_delta"
      BY <1>2, <2>2 DEF IsNext
    <3> QED BY <2>1, <3>1, <3>2, <3>3
  <2>3. ASSUME NEW i \in DOMAIN sh, IsNext(sh[i]) PROVE \E j \in 1 .. i - 1 : sh[j] = Prev(sh[i])
    <3>1. CASE i \in DOMAIN shown[s]
      <4>1. sh[i] = shown[s][i] /\ \A j \in 1 .. i - 1 : sh[j] = shown[s][j]
        BY <1>t, <1>1, <3>1
      <4>2. \E j \in 1 .. i - 1 : shown[s][j] = Prev(shown[s][i])
        BY <2>3, <2>k, <3>1, <4>1 DEF Kept, ShownOrder
      <4> QED BY <4>1, <4>2
    <3>2. CASE i \notin DOMAIN shown[s]
      <4>1. Forwards(s, x) /\ sh = Append(shown[s], x)
        BY <2>3, <3>2
      <4>2. i = Len(shown[s]) + 1 /\ sh[i] = x /\ \A j \in DOMAIN shown[s] : j \in 1 .. i - 1 /\ sh[j] = shown[s][j]
        BY <1>t, <1>1, <2>3, <3>2, <4>1
      <4>3. x.id \in Open(started, s)
        BY <2>3, <4>1, <4>2 DEF IsNext, Forwards, Open
      <4>4. Follows(frames, started, shown, s, x, 0)
        <5>1. IsNext(frames[s][1]) /\ 1 - 1 = 0
          BY <2>3, <4>2
        <5>2. Follows(frames, started, shown, s, frames[s][1], 1 - 1)
          BY <1>1, <2>k, <5>1 DEF Kept, ChannelOrder
        <5> QED BY <5>1, <5>2
      <4>5. \E j \in DOMAIN shown[s] : shown[s][j] = Prev(x)
        <5>1. Backed(frames[s], Open(started, s), shown[s], Prev(x), x.id, 0)
          BY <4>4 DEF Follows
        <5>2. \/ \E j \in 1 .. 0 : frames[s][j] = Prev(x)
              \/ \E j \in DOMAIN shown[s] : shown[s][j] = Prev(x)
          BY <4>3, <5>1 DEF Backed
        <5>3. 1 .. 0 = {}
          OBVIOUS
        <5> QED BY <5>2, <5>3
      <4> QED BY <4>2, <4>5
    <3> QED BY <3>1, <3>2
  <2>4. ASSUME NEW f \in Frame \cup {NextDelta}, f.type = "event_delta",
               Follows(frames, started, shown, s, f, Len(frames[s]))
        PROVE  Follows(frames', started', shown', s, f, Len(q))
    <3>1. Len(frames[s]) \in 1 .. Len(frames[s])
      BY <1>1, <1>t
    <3> QED BY <1>2, <2>1, <2>4, <3>1
  <2> HIDE DEF q, st, sh
  <2>5. Alone(s, q, st, sh)
    BY <1>1, <1>2, <1>4, <1>5, <1>6 DEF Alone
  <2>6. InOrder(s, q, sh) /\ GoesOn(s, q, NextDelta)
    BY <2>2, <2>3, <2>4 DEF InOrder, GoesOn
  <2> QED BY <1>9, <2>5, <2>6, OneStream
<1> QED BY <1>6, <1>8, <1>9 DEF PrefixInv

\* A page ends the previews whose events it has written.
LEMMA PagePrefix ==
    ASSUME IInv, PrefixInv, NEW s \in Streams, Page(s)
    PROVE  PrefixInv'
<1>t. /\ frames \in [Streams -> Seq(Frame)] /\ started \in [Streams -> SUBSET Nat] /\ shown \in [Streams -> Seq(Frame)]
  BY DEF PrefixInv, PrefixType
<1>1. PICK ids : started' = [started EXCEPT ![s] = started[s] \ ids]
  BY DEF Page
<1>2. /\ turn' = turn /\ wire' = wire /\ late' = late /\ listener' = listener /\ lossyDeltas' = lossyDeltas
      /\ unbroken' = unbroken /\ owed' = owed /\ frames' = frames /\ shown' = shown
  BY DEF Page, logVars, brokerVars, subVars
<1>3. (\A r \in Streams : r # s => pc'[r] = pc[r]) /\ pc'[s] \in Subscribed
  <2>1. PICK to \in {"page", "select", "gone"} : pc' = [pc EXCEPT ![s] = to]
    BY DEF Page, Goto
  <2> QED BY <2>1 DEF IInv, StreamType, Subscribed
<1> DEFINE st == started[s] \ ids
<1>4. st \in SUBSET Nat /\ started' = [started EXCEPT ![s] = st] /\ started'[s] = st /\ st \subseteq started[s]
  BY <1>1, <1>t
<1>5. PrefixType'
  BY <1>2, <1>4 DEF PrefixInv, PrefixType
<1>6. ASSUME unbroken PROVE Kept'
  <2>1. ASSUME NEW f, NEW m, Follows(frames, started, shown, s, f, m)
        PROVE  Follows(frames', started', shown', s, f, m)
    <3>1. Open(started', s) \subseteq Open(started, s)
      BY <1>4 DEF Open
    <3> QED BY <1>2, <2>1, <3>1 DEF Follows, Backed
  <2>2. /\ \A i \in DOMAIN frames[s] : IsNext(frames[s][i]) => Follows(frames', started', shown', s, frames[s][i], i - 1)
        /\ \A i \in DOMAIN shown[s] : IsNext(shown[s][i]) => \E j \in 1 .. i - 1 : shown[s][j] = Prev(shown[s][i])
    BY <1>6, <2>1 DEF PrefixInv, Kept, ChannelOrder, ShownOrder
  <2>3. frames' = [frames EXCEPT ![s] = frames[s]] /\ shown' = [shown EXCEPT ![s] = shown[s]]
    BY <1>2, <1>t
  <2>4. frames[s] = <<>> /\ started[s] = {} => frames[s] = <<>> /\ st = {}
    BY <1>4
  <2>5. \A f \in Frame \cup {NextDelta} :
            f.type = "event_delta" /\ Follows(frames, started, shown, s, f, Len(frames[s])) =>
                Follows(frames', started', shown', s, f, Len(frames[s]))
    BY <2>1
  <2>6. /\ \A r \in Streams : r # s => lossyDeltas'[r] = lossyDeltas[r] /\ pc'[r] = pc[r]
        /\ lossyDeltas'[s] = lossyDeltas[s] /\ frames[s] \in Seq(Frame) /\ shown[s] \in Seq(Frame)
    BY <1>2, <1>3, <1>t
  <2>7. Alone(s, frames[s], st, shown[s])
    BY <1>2, <1>3, <1>4, <2>3, <2>4, <2>6 DEF Alone
  <2>8. InOrder(s, frames[s], shown[s]) /\ GoesOn(s, frames[s], NextDelta)
    BY <2>2, <2>5 DEF InOrder, GoesOn
  <2> HIDE DEF st
  <2> QED BY <1>6, <2>7, <2>8, OneStream
<1> QED BY <1>2, <1>5, <1>6 DEF PrefixInv

\* A stream ends.  The last one takes the connection with it, and the listener
\* may be given up with a notification in hand.
LEMMA ClosePrefix ==
    ASSUME IInv, PrefixInv, NEW s \in Streams, Close(s), UNCHANGED logVars
    PROVE  PrefixInv'
<1>t. /\ frames \in [Streams -> Seq(Frame)] /\ started \in [Streams -> SUBSET Nat] /\ shown \in [Streams -> Seq(Frame)]
      /\ lossyDeltas \in [Streams -> BOOLEAN] /\ unbroken \in BOOLEAN
      /\ pc \in [Streams -> Subscribed \cup {"idle", "resolved", "closed"}]
  BY DEF PrefixInv, PrefixType, IInv, StreamType
<1>1. /\ frames' = [frames EXCEPT ![s] = <<>>] /\ started' = [started EXCEPT ![s] = {}]
      /\ shown' = [shown EXCEPT ![s] = <<>>] /\ lossyDeltas' = [lossyDeltas EXCEPT ![s] = FALSE]
      /\ pc' = [pc EXCEPT ![s] = "closed"] /\ turn' = turn /\ owed' = owed
  BY DEF Close, Goto, logVars
<1>2. <<>> \in Seq(Frame) /\ {} \in SUBSET Nat /\ Len(<<>>) = 0 /\ FrameCap \in Nat
  BY StreamAssumption
<1>3. /\ frames'[s] = <<>> /\ started'[s] = {} /\ shown'[s] = <<>>
      /\ \A r \in Streams : r # s => /\ frames'[r] = frames[r] /\ started'[r] = started[r] /\ shown'[r] = shown[r]
                                     /\ lossyDeltas'[r] = lossyDeltas[r] /\ pc'[r] = pc[r]
  BY <1>1, <1>t
<1>4. unbroken' \in BOOLEAN /\ (unbroken' => unbroken /\ late' = late)
  <2>1. CASE Members = {s}
    <3>1. PICK n \in InHand : late' = late \o n /\ unbroken' = (unbroken /\ n = <<>>)
      BY <2>1 DEF Close
    <3>2. late \o <<>> = late
      BY DEF IInv, StreamType
    <3>3. unbroken' \in BOOLEAN /\ (unbroken' => unbroken /\ n = <<>>)
      BY <3>1, Zenon
    <3> QED BY <3>1, <3>2, <3>3
  <2>2. CASE Members # {s}
    BY <1>t, <2>2 DEF Close, brokerVars
  <2> QED BY <2>1, <2>2
<1>5. PrefixType'
  <2>1. /\ frames' \in [Streams -> Seq(Frame)] /\ started' \in [Streams -> SUBSET Nat]
        /\ shown' \in [Streams -> Seq(Frame)] /\ lossyDeltas' \in [Streams -> BOOLEAN]
    BY <1>1, <1>2, <1>t
  <2>2. \A r \in Streams : Len(frames'[r]) <= FrameCap
    <3>0. frames'[s] = <<>>
      BY <1>3
    <3>1. Len(frames'[s]) <= FrameCap
      <4>1. 0 <= FrameCap
        BY <1>2
      <4> QED BY <1>2, <3>0, <4>1
    <3>2. \A r \in Streams : r # s => Len(frames'[r]) <= FrameCap
      BY <1>3 DEF PrefixInv, PrefixType
    <3> QED BY <3>1, <3>2
  <2> QED BY <1>1, <1>4, <2>1, <2>2 DEF PrefixInv, PrefixType
<1>6. ASSUME unbroken' PROVE Kept'
  <2>0. unbroken /\ late' = late
    BY <1>4, <1>6
  <2>k. Kept
    BY <2>0 DEF PrefixInv
  <2>1. CASE Members = {s}
    <3>1. listener' = "off" /\ wire' = <<>>
      BY <2>1 DEF Close
    <3>2. \A r \in Streams : r # s => Away(r)
      BY <2>1, <2>k DEF Kept, Members
    <3>3. \A r \in Streams : frames'[r] = <<>> /\ started'[r] = {}
      BY <1>3, <3>2 DEF Away
    <3>4. TurnOrder'
      <4> SUFFICES Upcoming(wire', lossyDeltas', frames', started', shown', NextDelta', Len(wire'))
        BY DEF TurnOrder
      <4>1. Len(wire') = 0
        BY <3>1
      <4>2. Preceded(wire', Prev(NextDelta'), NextDelta'.thread, Len(wire'))
        BY <4>1 DEF Preceded
      <4>3. \A r \in Streams : Follows(frames', started', shown', r, NextDelta', Len(frames'[r]))
        BY <3>3, NothingFollows
      <4> QED BY <4>2, <4>3 DEF Upcoming
    <3>5. WireOrder' /\ ChannelOrder'
      <4>1. DOMAIN wire' = {} /\ \A r \in Streams : DOMAIN frames'[r] = {}
        BY <3>1, <3>3
      <4> QED BY <4>1 DEF WireOrder, ChannelOrder
    <3>6. ShownOrder'
      <4>1. ShownOrder
        BY <2>k DEF Kept
      <4>2. \A r \in Streams : shown'[r] = shown[r] \/ DOMAIN shown'[r] = {}
        <5>1. DOMAIN shown'[s] = {}
          BY <1>3
        <5> QED BY <1>3, <5>1
      <4> QED BY <4>1, <4>2 DEF ShownOrder
    <3> QED BY <2>0, <2>k, <3>1, <3>3, <3>4, <3>5, <3>6 DEF Kept, Away
  <2>2. CASE Members # {s}
    <3>1. wire' = wire /\ listener' = listener
      BY <2>2 DEF Close, brokerVars
    <3>2. Alone(s, <<>>, {}, <<>>)
      BY <1>1, <1>2, <1>3, <2>0, <3>1 DEF Alone
    <3>3. Len(<<>>) = Len(frames'[s])
      BY <1>3
    <3>4. \A f : Follows(frames', started', shown', s, f, Len(<<>>))
      BY <1>3, <3>3, NothingFollows
    <3>5. InOrder(s, <<>>, <<>>)
      BY DEF InOrder
    <3>6. GoesOn(s, <<>>, NextDelta)
      BY <3>4 DEF GoesOn
    <3> QED BY <2>0, <3>2, <3>5, <3>6, OneStream
  <2> QED BY <2>1, <2>2
<1> QED BY <1>5, <1>6 DEF PrefixInv

\* The handlers: each step of a stream.
LEMMA HandlerPrefix ==
    ASSUME IInv, PrefixInv, NEW s \in Streams,
           Serve(s) \/ sessionGone(s) \/ LookFails(s) \/ DatabaseFails(s) \/ Disconnect(s)
    PROVE  PrefixInv'
<1>t. pc \in [Streams -> Subscribed \cup {"idle", "resolved", "closed"}]
  BY DEF IInv, StreamType
<1>1. ASSUME Resolve(s) \/ Subscribe(s) \/ Ready(s) \/ Snapshot(s) \/ TakeWake(s) \/ Drained(s) \/ Mark(s) \/ LookFails(s)
      PROVE  PrefixInv'
  <2>1. /\ UNCHANGED <<turn, wire, late, unbroken, frames, lossyDeltas, started, shown, owed>>
        /\ listener' = listener \/ (listener = "off" /\ listener' = "dialing")
    BY <1>1 DEF Resolve, Subscribe, Ready, Snapshot, TakeWake, Drained, Mark, LookFails, logVars, brokerVars, subVars, localVars
  <2>2. \A r \in Streams : pc'[r] \notin Subscribed => pc[r] \notin Subscribed
    BY <1>1, <1>t DEF Resolve, Subscribe, Ready, Snapshot, TakeWake, Drained, Mark, LookFails, Goto, Subscribed
  <2> QED BY <2>1, <2>2, QuietPrefix
<1>2. ASSUME sessionGone(s), exists PROVE PrefixInv'
  <2>1. UNCHANGED <<turn, wire, late, unbroken, frames, lossyDeltas, started, shown, owed, listener>>
    BY <1>2 DEF sessionGone, logVars, brokerVars, subVars, localVars
  <2>2. \A r \in Streams : pc'[r] \notin Subscribed => pc[r] \notin Subscribed
    BY <1>2, <1>t DEF sessionGone, Goto, Subscribed
  <2> QED BY <2>1, <2>2, QuietPrefix
<1>3. ASSUME SeeDeleted(s) \/ DatabaseFails(s) \/ Disconnect(s) \/ (sessionGone(s) /\ ~exists) PROVE PrefixInv'
  <2>1. Close(s) /\ UNCHANGED logVars
    BY <1>3 DEF SeeDeleted, DatabaseFails, Disconnect, sessionGone
  <2> QED BY <2>1, ClosePrefix
<1> QED BY <1>1, <1>2, <1>3, FramePrefix, PagePrefix DEF Serve

\* Every step keeps what one connection keeps.
LEMMA PrefixStep == IInv /\ PrefixInv /\ [Next]_vars => PrefixInv'
<1> SUFFICES ASSUME IInv, PrefixInv, [Next]_vars PROVE PrefixInv'
  OBVIOUS
<1>1. CASE UNCHANGED vars
  BY <1>1, QuietPrefix DEF vars
<1>2. CASE Next
  BY <1>2, WriterPrefix, BrokerPrefix, HandlerPrefix DEF Next
<1> QED BY <1>1, <1>2

\* For any number of streams, previews, deltas and channel places: while the
\* broker's connections hold and none is given up with a notification in hand,
\* no delta is missing among those a client was sent of a message between two
\* event_starts of its surface: a delta that finds the channel full takes with
\* it those up to the next event_start (lossyDeltas).  Of a whole preview this
\* is false: see NeverHoled.
THEOREM PreviewsArePrefixes == Spec => []CleanPrefix
<1>1. IInv /\ PrefixInv /\ [Next]_vars => (IInv /\ PrefixInv)'
  BY IInvStep, PrefixStep
<1> QED BY InitStream, InitPrefix, ShownIsPrefix, <1>1, PTL DEF Spec
==========================================================================
