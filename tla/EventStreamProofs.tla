----------------------- MODULE EventStreamProofs ------------------------
(***************************************************************************)
(* No row goes unannounced, for any number of streams, rows, previews and  *)
(* lost connections.  Covered(s) is what a stream asleep needs; it has to  *)
(* hold already while the stream reads, for the rows past its mark.        *)
(***************************************************************************)
EXTENDS EventStream, TLAPS

StreamType ==
    /\ log \in Seq(Row) /\ exists \in BOOLEAN /\ owed \in Seq(Frame)
    /\ turn \in Turn /\ previews \in 0 .. MaxPreviews
    /\ wire \in Seq(Notification) /\ late \in Seq(Notification)
    /\ listener \in {"off", "down", "dialing", "armed", "waking", "on"}
    /\ pc \in [Streams -> Subscribed \cup {"idle", "resolved", "closed"}]
    /\ wake \in [Streams -> BOOLEAN]
    /\ lastSeq \in [Streams -> Nat] /\ upTo \in [Streams -> Nat]

Covered(s) == wake[s] \/ WakeQueued \/ Healing

\* The listener runs while anyone is subscribed; a stream in its select, or
\* about to return to it, is covered past its tail, one that pages past its mark.
StreamInv ==
    /\ \A s \in Streams : pc[s] \in Subscribed => listener # "off"
    /\ \A s \in Streams : pc[s] \in {"select", "gone"} /\ exists /\ Len(log) > lastSeq[s] => Covered(s)
    /\ \A s \in Streams : pc[s] = "page" /\ exists /\ Len(log) > upTo[s] => Covered(s)

IInv == StreamType /\ StreamInv

\* Initially no stream is open and nothing is committed.
LEMMA InitStream == Init => IInv
BY StreamAssumption DEF Init, IInv, StreamType, StreamInv, Subscribed, Turn, NoTurn, Streaming

\* An append keeps what is queued on the connection and adds its note.
LEMMA NoteQueued ==
    ASSUME NEW w \in Seq(Notification), NEW n \in Notification
    PROVE  /\ Append(w, n) \in Seq(Notification)
           /\ \A i \in DOMAIN w : i \in DOMAIN Append(w, n) /\ Append(w, n)[i] = w[i]
           /\ Len(w) + 1 \in DOMAIN Append(w, n) /\ Append(w, n)[Len(w) + 1] = n
OBVIOUS

\* Taking the head off the connection keeps the other notes queued on it.
LEMMA NoteTaken ==
    ASSUME NEW w \in Seq(Notification), w # <<>>
    PROVE  /\ Tail(w) \in Seq(Notification) /\ Head(w) \in Notification /\ Head(w) = w[1]
           /\ \A i \in DOMAIN w : i # 1 => i - 1 \in DOMAIN Tail(w) /\ Tail(w)[i - 1] = w[i]
OBVIOUS

\* Whatever is notified, the connection stays well formed and what was queued on
\* it stays queued; a commit's note is queued on a connection that listens.
LEMMA NotifyKeeps ==
    ASSUME StreamType, NEW n \in Notification, Notify(n), UNCHANGED listener
    PROVE  /\ wire' \in Seq(Notification)
           /\ WakeQueued => WakeQueued'
           /\ n.kind = "events" /\ listener # "off" => WakeQueued' \/ Healing'
<1>1. CASE listener \in {"armed", "waking", "on"}
  <2>1. wire \in Seq(Notification) /\ wire' = Append(wire, n)
    BY <1>1 DEF Notify, StreamType
  <2>2. /\ wire' \in Seq(Notification)
        /\ \A i \in DOMAIN wire : i \in DOMAIN wire' /\ wire'[i] = wire[i]
        /\ Len(wire) + 1 \in DOMAIN wire' /\ wire'[Len(wire) + 1] = n
    BY <2>1, NoteQueued
  <2> QED BY <2>2 DEF WakeQueued
<1>2. CASE listener \notin {"armed", "waking", "on"}
  BY <1>2 DEF Notify, StreamType, WakeQueued, Healing
<1> QED BY <1>1, <1>2

\* A commit leaves every subscriber covered: its note is queued, or the listener
\* is about to wake them all.
LEMMA AppendKeeps ==
    ASSUME IInv, NEW rows \in Seq(Row), AppendInTx(rows), UNCHANGED <<listener, exists, pc, wake, lastSeq, upTo>>
    PROVE  log' \in Seq(Row) /\ wire' \in Seq(Notification) /\ StreamInv'
<1>1. EventsNote \in Notification /\ EventsNote.kind = "events"
  BY DEF EventsNote, Notification
<1>2. /\ wire' \in Seq(Notification)
      /\ listener # "off" => WakeQueued' \/ Healing'
  BY <1>1, NotifyKeeps DEF IInv, AppendInTx
<1>3. log' \in Seq(Row)
  BY DEF IInv, StreamType, AppendInTx
<1>4. \A s \in Streams : pc'[s] \in Subscribed => Covered(s)'
  BY <1>2 DEF IInv, StreamInv, Covered
<1> QED BY <1>2, <1>3, <1>4 DEF IInv, StreamInv, Subscribed

\* A frame's broadcast announces nothing and disturbs nothing announced.
LEMMA PublishKeeps ==
    ASSUME IInv, NEW f \in Frame, publishFrame(f),
           UNCHANGED <<log, listener, exists, pc, wake, lastSeq, upTo>>
    PROVE  wire' \in Seq(Notification) /\ StreamInv'
<1>1. [kind |-> "frame", frame |-> f] \in Notification
  BY DEF Notification
<1>2. wire' \in Seq(Notification) /\ (WakeQueued => WakeQueued')
  BY <1>1, NotifyKeeps DEF IInv, publishFrame
<1>3. \A s \in Streams : Covered(s) => Covered(s)'
  BY <1>2 DEF Covered, Healing
<1> QED BY <1>2, <1>3 DEF IInv, StreamInv

\* Nothing announced is disturbed where none of what StreamInv reads changes.
LEMMA QuietKeeps ==
    ASSUME IInv, UNCHANGED <<log, listener, wire, exists, pc, wake, lastSeq, upTo>>
    PROVE  StreamInv'
BY DEF IInv, StreamInv, Covered, WakeQueued, Healing

\* The writers: sends, settlements, a turn's previews, a delete.
LEMMA WriterStep ==
    ASSUME IInv, \/ Produce
                 \/ \E t \in Threads : DeleteSession(t)
                 \/ \E fails \in BOOLEAN : Broadcast(fails)
    PROVE  IInv'
<1> USE StreamAssumption
<1>t. StreamType BY DEF IInv
<1>0. ASSUME NEW rows \in Seq(Row), Commit(rows) PROVE IInv'
  <2>1. log' \in Seq(Row) /\ wire' \in Seq(Notification) /\ StreamInv'
    BY <1>0, AppendKeeps DEF Commit, subVars, localVars
  <2> QED BY <1>t, <1>0, <2>1 DEF Commit, IInv, StreamType, subVars, localVars
<1>1. ASSUME NEW r \in Rows, NEW q \in Rows, Commit(<<r>>) \/ Commit(<<r, q>>) PROVE IInv'
  <2>1. r \in Row /\ q \in Row
    BY DEF Row
  <2>2. <<r>> \in Seq(Row) /\ <<r, q>> \in Seq(Row)
    BY <2>1
  <2> QED BY <1>0, <1>1, <2>2
<1>2. ASSUME NEW t \in Turns, NEW of \in {"message", "thinking"}, StartPreview(t, of),
             UNCHANGED <<log, exists, owed, listener, late, pc, wake, lastSeq, upTo>>,
             turn' \in Turn
      PROVE  IInv'
  <2>1. previews + 1 \in 0 .. MaxPreviews
    BY <1>t, <1>2 DEF StreamType, StartPreview
  <2>2. [type |-> "event_start", thread |-> t, id |-> previews + 1, of |-> of, at |-> 0, n |-> 0] \in Frame
    BY <2>1 DEF Frame
  <2>3. wire' \in Seq(Notification) /\ StreamInv'
    BY <1>2, <2>2, PublishKeeps DEF StartPreview
  <2> QED BY <1>t, <1>2, <2>1, <2>3 DEF IInv, StreamType, StartPreview
<1>3. ASSUME NEW t \in Turns, OpenThinking(t) PROVE IInv'
  <2>1. turn' \in Turn
    BY <1>t, <1>3 DEF OpenThinking, StartPreview, StreamType, Turn, Streaming
  <2> QED BY <1>2, <1>3, <2>1 DEF OpenThinking, subVars, localVars
<1>4. ASSUME NEW t \in Turns, OpenMessage(t) PROVE IInv'
  <2>1. turn' \in Turn
    BY <1>t, <1>4 DEF OpenMessage, StartPreview, StreamType, Turn, Streaming
  <2> QED BY <1>2, <1>4, <2>1 DEF OpenMessage, subVars, localVars
<1>5. ASSUME NEW id \in 0 .. MaxPreviews, AppendInTx(<<PreviewRow(id)>>), turn' \in Turn,
             UNCHANGED <<exists, owed, previews, listener, late, pc, wake, lastSeq, upTo>>
      PROVE  IInv'
  <2>1. <<PreviewRow(id)>> \in Seq(Row)
    BY <1>t DEF StreamType, PreviewRow, Row, Turn
  <2>2. log' \in Seq(Row) /\ wire' \in Seq(Notification) /\ StreamInv'
    BY <1>5, <2>1, AppendKeeps
  <2> QED BY <1>t, <1>5, <2>2 DEF IInv, StreamType
<1>6. ASSUME NEW t \in Turns, CloseThinking(t) PROVE IInv'
  <2>1. turn' \in Turn /\ turn.thinking \in 0 .. MaxPreviews
    BY <1>t, <1>6 DEF CloseThinking, StreamType, Turn, NoTurn, Streaming
  <2> QED BY <1>5, <1>6, <2>1 DEF CloseThinking, subVars, localVars
<1>7. ASSUME NEW t \in Turns, SettleTurn(t) PROVE IInv'
  <2>1. turn' \in Turn /\ turn.message \in 0 .. MaxPreviews
    BY <1>t, <1>7 DEF SettleTurn, StreamType, Turn, NoTurn, Streaming
  <2> QED BY <1>5, <1>7, <2>1 DEF SettleTurn, subVars, localVars
<1>8. ASSUME NEW t \in Turns, TextDelta(t) PROVE IInv'
  <2>1. turn' \in Turn /\ turn.sent + 1 \in 0 .. MaxDeltas /\ turn.at + 1 \in Nat
    BY <1>t, <1>8 DEF TextDelta, StreamType, Turn, Streaming
  <2>2. [type |-> "event_delta", thread |-> turn.thread, id |-> turn.message, of |-> "none",
         at |-> turn.at + 1, n |-> turn.sent + 1] \in Frame
    BY <1>t, <2>1 DEF Frame, StreamType, Turn
  <2>3. wire' \in Seq(Notification) /\ StreamInv'
    BY <1>8, <2>2, PublishKeeps DEF TextDelta, subVars, localVars
  <2> QED BY <1>t, <1>8, <2>1, <2>3 DEF TextDelta, IInv, StreamType, subVars, localVars
<1>9. ASSUME NEW t \in Turns, FailTurn(t) PROVE IInv'
  <2>1. StreamInv'
    BY <1>9, QuietKeeps DEF FailTurn, brokerVars, subVars, localVars
  <2>2. turn' \in Turn
    BY <1>9 DEF FailTurn, Turn, NoTurn, Streaming
  <2> QED BY <1>t, <1>9, <2>1, <2>2 DEF FailTurn, IInv, StreamType, brokerVars, subVars, localVars
<1>10. ASSUME NEW t \in Threads, DeleteSession(t) PROVE IInv'
  <2>1. owed' \in Seq(Frame)
    <3>1. \A e \in {"thread_terminated", "session.deleted"}, on \in Threads : Ending(e, on) \in Frame
      BY DEF Ending, Frame
    <3> QED BY <1>10, <3>1 DEF DeleteSession
  <2>2. StreamInv'
    BY <1>t, <1>10 DEF DeleteSession, IInv, StreamInv, brokerVars, subVars, localVars
  <2> QED BY <1>t, <1>10, <2>1, <2>2 DEF DeleteSession, IInv, StreamType, brokerVars, subVars, localVars
<1>11. ASSUME NEW fails \in BOOLEAN, Broadcast(fails) PROVE IInv'
  <2>1. owed' \in Seq(Frame) /\ Head(owed) \in Frame
    BY <1>t, <1>11 DEF Broadcast, StreamType
  <2>2. wire' \in Seq(Notification) /\ StreamInv'
    <3>1. CASE wire' = wire
      BY <1>t, <1>11, <3>1, QuietKeeps DEF Broadcast, StreamType, subVars, localVars
    <3>2. CASE publishFrame(Head(owed))
      BY <1>11, <2>1, <3>2, PublishKeeps DEF Broadcast, subVars, localVars
    <3> QED BY <1>11, <3>1, <3>2 DEF Broadcast
  <2> QED BY <1>t, <1>11, <2>1, <2>2 DEF Broadcast, IInv, StreamType, subVars, localVars
<1> QED BY <1>1, <1>3, <1>4, <1>6, <1>7, <1>8, <1>9, <1>10, <1>11 DEF Produce

\* Dispatching a note wakes every subscriber; a frame wakes nobody.
LEMMA DispatchWakes ==
    ASSUME IInv, NEW n \in Notification, dispatch(n)
    PROVE  /\ wake' \in [Streams -> BOOLEAN]
           /\ \A s \in Streams : wake[s] => wake'[s]
           /\ n.kind # "frame" => \A s \in Members : wake'[s]
<1>1. CASE n.kind = "frame"
  BY <1>1 DEF dispatch, IInv, StreamType
<1>2. CASE n.kind # "frame"
  BY <1>2 DEF dispatch, Wake, Members, IInv, StreamType
<1> QED BY <1>1, <1>2

\* The listener: its gate, its connection, its dispatches, and what a cancelled
\* one still does.
LEMMA BrokerStep ==
    ASSUME IInv, Listening \/ Break \/ DispatchLate
    PROVE  IInv'
<1>t. StreamType BY DEF IInv
<1>1. CASE Lower \/ Listen \/ Raise
  <2>1. Healing /\ Healing' /\ UNCHANGED <<logVars, wire, late, pc, subVars, localVars>>
    BY <1>1 DEF Lower, Listen, Raise, Healing
  <2>2. StreamType'
    BY <1>t, <1>1, <2>1 DEF Lower, Listen, Raise, StreamType, logVars, subVars, localVars
  <2>3. StreamInv'
    BY <2>1 DEF IInv, StreamInv, Covered, Healing
  <2> QED BY <2>2, <2>3 DEF IInv
<1>2. CASE wakeAll
  <2>1. wake' = [s \in Streams |-> wake[s] \/ s \in Members] /\ listener' = "on"
        /\ UNCHANGED <<logVars, wire, late, pc, localVars>>
    BY <1>2 DEF wakeAll, Wake
  <2>2. StreamType'
    BY <1>t, <2>1 DEF StreamType, logVars, localVars, Members
  <2>3. \A s \in Streams : pc'[s] \in Subscribed => Covered(s)'
    BY <2>1 DEF Covered, Members
  <2> QED BY <2>1, <2>2, <2>3 DEF IInv, StreamInv, Subscribed
<1>3. CASE Dispatch
  <2>1. wire \in Seq(Notification) /\ wire # <<>> /\ dispatch(Head(wire)) /\ wire' = Tail(wire)
        /\ UNCHANGED <<logVars, listener, late, pc, localVars>>
    BY <1>t, <1>3 DEF Dispatch, StreamType
  <2>2. /\ wire' \in Seq(Notification) /\ Head(wire) \in Notification /\ Head(wire) = wire[1]
        /\ \A i \in DOMAIN wire : i # 1 => i - 1 \in DOMAIN wire' /\ wire'[i - 1] = wire[i]
    BY <2>1, NoteTaken
  <2>3. /\ wake' \in [Streams -> BOOLEAN]
        /\ \A s \in Streams : wake[s] => wake'[s]
        /\ Head(wire).kind # "frame" => \A s \in Members : wake'[s]
    BY <2>1, <2>2, DispatchWakes
  <2>4. StreamType'
    BY <1>t, <2>1, <2>2, <2>3 DEF StreamType, logVars, localVars
  <2>5. ASSUME NEW s \in Members, Covered(s) PROVE Covered(s)'
    <3>1. CASE wake[s] \/ Healing
      BY <2>1, <2>3, <3>1 DEF Covered, Healing, Members
    <3>2. CASE WakeQueued
      <4>1. PICK i \in DOMAIN wire : wire[i].kind = "events"
        BY <3>2 DEF WakeQueued
      <4>2. CASE i = 1
        BY <2>2, <2>3, <4>1, <4>2 DEF Covered
      <4>3. CASE i # 1
        <5>1. WakeQueued'
          BY <2>2, <4>1, <4>3 DEF WakeQueued
        <5> QED BY <5>1 DEF Covered
      <4> QED BY <4>2, <4>3
    <3> QED BY <2>5, <3>1, <3>2 DEF Covered
  <2>6. \A s \in Streams : pc[s] \in Subscribed => s \in Members
    BY DEF Members
  <2> QED BY <2>1, <2>4, <2>5, <2>6 DEF IInv, StreamInv, Subscribed, logVars, localVars
<1>4. CASE Break
  <2>1. listener' = "down" /\ UNCHANGED <<logVars, late, pc, subVars, localVars>> /\ wire' = <<>>
    BY <1>4 DEF Break
  <2>2. StreamType'
    BY <1>t, <2>1 DEF StreamType, logVars, subVars, localVars
  <2> QED BY <2>1, <2>2 DEF IInv, StreamInv, Covered, Healing
<1>5. CASE DispatchLate
  <2>1. late \in Seq(Notification) /\ late # <<>> /\ dispatch(Head(late)) /\ late' = Tail(late)
        /\ UNCHANGED <<logVars, listener, wire, pc, localVars>>
    BY <1>t, <1>5 DEF DispatchLate, StreamType
  <2>2. late' \in Seq(Notification) /\ Head(late) \in Notification
    BY <2>1, NoteTaken
  <2>3. wake' \in [Streams -> BOOLEAN] /\ \A s \in Streams : wake[s] => wake'[s]
    BY <2>1, <2>2, DispatchWakes
  <2>4. StreamType'
    BY <1>t, <2>1, <2>2, <2>3 DEF StreamType, logVars, localVars
  <2>5. \A s \in Streams : Covered(s) => Covered(s)'
    BY <2>1, <2>3 DEF Covered, WakeQueued, Healing
  <2> QED BY <2>1, <2>4, <2>5 DEF IInv, StreamInv, logVars, localVars
<1> QED BY <1>1, <1>2, <1>3, <1>4, <1>5 DEF Listening

\* A stream's end takes its own subscription away and, if it was the last, the
\* listener that nobody needs any more.
LEMMA CloseKeeps ==
    ASSUME IInv, NEW s \in Streams, s \in Members, Close(s), UNCHANGED logVars
    PROVE  IInv'
<1>t. StreamType BY DEF IInv
<1>1. pc' = [pc EXCEPT ![s] = "closed"] /\ wake' = [wake EXCEPT ![s] = FALSE]
      /\ lastSeq' = [lastSeq EXCEPT ![s] = 0] /\ upTo' = [upTo EXCEPT ![s] = 0]
  BY DEF Close, Goto
<1>2. CASE Members = {s}
  <2>1. listener' = "off" /\ wire' = <<>> /\ \E n \in InHand : late' = late \o n
    BY <1>2 DEF Close
  <2>2. InHand \subseteq Seq(Notification)
    <3>1. [kind |-> "all", frame |-> NoFrame] \in Notification
      BY DEF Notification
    <3>2. wire # <<>> => Head(wire) \in Notification
      BY <1>t, NoteTaken DEF StreamType
    <3>3. CASE listener = "on" /\ wire # <<>>
      <4>1. InHand = {<<>>, <<Head(wire)>>}
        BY <3>3 DEF InHand
      <4> QED BY <3>2, <3>3, <4>1
    <3>4. CASE listener \in {"armed", "waking"}
      <4>1. InHand = {<<>>, <<[kind |-> "all", frame |-> NoFrame]>>}
        BY <3>4 DEF InHand
      <4> QED BY <3>1, <4>1
    <3>5. CASE ~(listener = "on" /\ wire # <<>>) /\ listener \notin {"armed", "waking"}
      <4>1. InHand = {<<>>}
        BY <3>5 DEF InHand
      <4> QED BY <4>1
    <3> QED BY <3>3, <3>4, <3>5
  <2>3. late' \in Seq(Notification)
    BY <1>t, <2>1, <2>2 DEF StreamType
  <2>4. \A r \in Streams : pc'[r] \notin Subscribed
    BY <1>t, <1>1, <1>2 DEF Members, StreamType, Subscribed
  <2>5. StreamType'
    BY <1>t, <1>1, <2>1, <2>3 DEF StreamType, logVars, Subscribed
  <2> QED BY <2>4, <2>5 DEF IInv, StreamInv, Subscribed
<1>3. CASE Members # {s}
  <2>1. UNCHANGED brokerVars
    BY <1>3 DEF Close
  <2>2. StreamType'
    BY <1>t, <1>1, <2>1 DEF StreamType, logVars, brokerVars, Subscribed
  <2>3. ASSUME NEW r \in Streams, r # s
        PROVE  pc'[r] = pc[r] /\ lastSeq'[r] = lastSeq[r] /\ upTo'[r] = upTo[r] /\ (Covered(r) => Covered(r)')
    BY <1>t, <1>1, <2>1, <2>3 DEF StreamType, Covered, WakeQueued, Healing, brokerVars
  <2>4. pc'[s] = "closed"
    BY <1>t, <1>1 DEF StreamType
  <2> QED BY <2>1, <2>2, <2>3, <2>4 DEF IInv, StreamInv, Subscribed, logVars, brokerVars
<1> QED BY <1>2, <1>3

\* The handler, from its first look at the session to its end.
LEMMA HandlerStep ==
    ASSUME IInv, NEW s \in Streams,
           Serve(s) \/ sessionGone(s) \/ LookFails(s) \/ DatabaseFails(s) \/ Disconnect(s)
    PROVE  IInv'
<1> USE DEF Subscribed
<1>t. StreamType BY DEF IInv
<1>m. s \in Members <=> pc[s] \in Subscribed
  BY DEF Members
<1>0. ASSUME NEW at \in {"resolved", "closed", "gate", "snapshot", "drain", "mark"}, Goto(s, at),
             UNCHANGED <<log, exists, owed, turn, previews, wire, late, lastSeq, upTo>>,
             wake' \in [Streams -> BOOLEAN],
             \A r \in Streams \ {s} : wake'[r] = wake[r],
             \/ UNCHANGED listener /\ (at \in Subscribed => listener # "off")
             \/ listener = "off" /\ listener' = "dialing"
      PROVE  IInv'
  <2>1. pc' = [pc EXCEPT ![s] = at]
    BY <1>0 DEF Goto
  <2>2. StreamType'
    BY <1>t, <1>0, <2>1 DEF StreamType
  <2>3. ASSUME NEW r \in Streams \ {s} PROVE pc'[r] = pc[r] /\ (Covered(r) => Covered(r)')
    BY <1>t, <1>0, <2>1, <2>3 DEF StreamType, Covered, WakeQueued, Healing
  <2>4. pc'[s] = at
    BY <1>t, <2>1 DEF StreamType
  <2> QED BY <1>0, <2>2, <2>3, <2>4 DEF IInv, StreamInv
<1>1. CASE Resolve(s)
  BY <1>t, <1>0, <1>1 DEF Resolve, StreamType, logVars, brokerVars, subVars, localVars
<1>2. CASE Subscribe(s)
  BY <1>t, <1>0, <1>2 DEF Subscribe, StreamType, logVars, brokerVars, subVars, localVars
<1>3. CASE Ready(s)
  BY <1>t, <1>0, <1>3 DEF Ready, IInv, StreamInv, StreamType, logVars, brokerVars, subVars, localVars
<1>4. CASE Snapshot(s)
  <2>1. pc' = [pc EXCEPT ![s] = "select"] /\ lastSeq' = [lastSeq EXCEPT ![s] = MaxSeq]
        /\ pc[s] = "snapshot" /\ UNCHANGED <<logVars, brokerVars, subVars, upTo>>
    BY <1>4 DEF Snapshot, Goto
  <2>2. MaxSeq \in Nat /\ (exists => MaxSeq = Len(log))
    BY <1>t DEF MaxSeq, StreamType
  <2>3. StreamType'
    BY <1>t, <2>1, <2>2 DEF StreamType, logVars, brokerVars, subVars
  <2>4. pc'[s] = "select" /\ lastSeq'[s] = MaxSeq /\ Len(log) \in Nat
    BY <1>t, <2>1 DEF StreamType
  <2>5. ASSUME NEW r \in Streams \ {s} PROVE pc'[r] = pc[r] /\ lastSeq'[r] = lastSeq[r]
    BY <1>t, <2>1 DEF StreamType
  <2>6. \A r \in Streams : Covered(r) => Covered(r)'
    BY <2>1 DEF Covered, WakeQueued, Healing, brokerVars, subVars
  <2>7. /\ listener' = listener /\ exists' = exists /\ log' = log
        /\ ~(exists /\ Len(log) > MaxSeq)
    BY <2>1, <2>2, <2>4 DEF logVars, brokerVars
  <2>8. \A r \in Streams : pc'[r] \in Subscribed => listener' # "off"
    BY <2>1, <2>4, <2>5, <2>7 DEF IInv, StreamInv
  <2>9. \A r \in Streams : pc'[r] \in {"select", "gone"} /\ exists' /\ Len(log') > lastSeq'[r] => Covered(r)'
    BY <2>1, <2>4, <2>5, <2>6, <2>7 DEF IInv, StreamInv
  <2>10. \A r \in Streams : pc'[r] = "page" /\ exists' /\ Len(log') > upTo'[r] => Covered(r)'
    BY <2>1, <2>4, <2>5, <2>6, <2>7 DEF IInv, StreamInv
  <2> QED BY <2>3, <2>8, <2>9, <2>10 DEF IInv, StreamInv
<1>5. CASE processFrame(s)
  <2>1. UNCHANGED <<logVars, brokerVars, pc, wake, lastSeq, upTo>>
    BY <1>5 DEF processFrame
  <2>2. StreamInv'
    BY <2>1, QuietKeeps DEF logVars, brokerVars
  <2> QED BY <1>t, <2>1, <2>2 DEF IInv, StreamType, logVars, brokerVars
<1>6. CASE SeeDeleted(s) \/ DatabaseFails(s) \/ Disconnect(s)
  <2>1. s \in Members /\ Close(s) /\ UNCHANGED logVars
    BY <1>m, <1>6 DEF SeeDeleted, DatabaseFails, Disconnect
  <2> QED BY <2>1, CloseKeeps
<1>7. CASE TakeWake(s)
  <2>1. wake' \in [Streams -> BOOLEAN] /\ \A r \in Streams \ {s} : wake'[r] = wake[r]
    BY <1>t, <1>7 DEF TakeWake, StreamType
  <2> QED BY <1>t, <1>0, <1>7, <2>1 DEF TakeWake, IInv, StreamInv, logVars, brokerVars, localVars
<1>8. CASE Drained(s)
  BY <1>t, <1>0, <1>8 DEF Drained, IInv, StreamInv, StreamType, logVars, brokerVars, subVars, localVars
<1>9. CASE Mark(s)
  <2>1. pc' = [pc EXCEPT ![s] = "page"] /\ upTo' = [upTo EXCEPT ![s] = MaxSeq]
        /\ pc[s] = "mark" /\ UNCHANGED <<logVars, brokerVars, subVars, lastSeq>>
    BY <1>9 DEF Mark, Goto
  <2>2. MaxSeq \in Nat /\ (exists => MaxSeq = Len(log))
    BY <1>t DEF MaxSeq, StreamType
  <2>3. StreamType'
    BY <1>t, <2>1, <2>2 DEF StreamType, logVars, brokerVars, subVars
  <2>4. pc'[s] = "page" /\ upTo'[s] = MaxSeq /\ Len(log) \in Nat
    BY <1>t, <2>1 DEF StreamType
  <2>5. ASSUME NEW r \in Streams \ {s} PROVE pc'[r] = pc[r] /\ upTo'[r] = upTo[r]
    BY <1>t, <2>1 DEF StreamType
  <2>6. \A r \in Streams : Covered(r) => Covered(r)'
    BY <2>1 DEF Covered, WakeQueued, Healing, brokerVars, subVars
  <2>7. /\ listener' = listener /\ exists' = exists /\ log' = log
        /\ ~(exists /\ Len(log) > MaxSeq)
    BY <2>1, <2>2, <2>4 DEF logVars, brokerVars
  <2>8. \A r \in Streams : pc'[r] \in Subscribed => listener' # "off"
    BY <2>1, <2>4, <2>5, <2>7 DEF IInv, StreamInv
  <2>9. \A r \in Streams : pc'[r] \in {"select", "gone"} /\ exists' /\ Len(log') > lastSeq'[r] => Covered(r)'
    BY <2>1, <2>4, <2>5, <2>6, <2>7 DEF IInv, StreamInv
  <2>10. \A r \in Streams : pc'[r] = "page" /\ exists' /\ Len(log') > upTo'[r] => Covered(r)'
    BY <2>1, <2>4, <2>5, <2>6, <2>7 DEF IInv, StreamInv
  <2> QED BY <2>3, <2>8, <2>9, <2>10 DEF IInv, StreamInv
<1>10. CASE Page(s)
  <2>0. PICK n \in 0 .. WakeBatch, seen \in 0 .. Len(log) :
            /\ pc[s] = "page"
            /\ pc' = [pc EXCEPT ![s] = IF n = WakeBatch THEN "page"
                                       ELSE IF wrote[s] \/ n > 0 THEN "select" ELSE "gone"]
            /\ lastSeq' = [lastSeq EXCEPT ![s] = Advance(s, seen, n < WakeBatch)]
            /\ upTo' = [upTo EXCEPT ![s] = IF n < WakeBatch THEN 0 ELSE @]
            /\ UNCHANGED <<logVars, brokerVars, subVars>>
    BY <1>10 DEF Page, Goto
  <2>1. PICK last \in BOOLEAN, at \in {"page", "select", "gone"} :
            /\ pc[s] = "page" /\ pc' = [pc EXCEPT ![s] = at]
            /\ lastSeq' = [lastSeq EXCEPT ![s] = IF last /\ upTo[s] > seen THEN upTo[s] ELSE seen]
            /\ upTo' = [upTo EXCEPT ![s] = IF last THEN 0 ELSE @]
            /\ last <=> at # "page"
            /\ UNCHANGED <<logVars, brokerVars, subVars>>
    <3>1. CASE n = WakeBatch
      <4>1. ~ (n < WakeBatch)
        BY <3>1, StreamAssumption
      <4> QED BY <2>0, <3>1, <4>1 DEF Advance
    <3>2. CASE n # WakeBatch
      <4>1. n < WakeBatch
        BY <3>2, StreamAssumption
      <4> QED BY <2>0, <3>2, <4>1 DEF Advance
    <3> QED BY <3>1, <3>2
  <2>2. StreamType'
    BY <1>t, <2>1 DEF StreamType, logVars, brokerVars, subVars
  <2>3. /\ pc'[s] = at /\ (~last => upTo'[s] = upTo[s])
        /\ last => lastSeq'[s] >= upTo[s] /\ lastSeq'[s] \in Nat
        /\ Len(log) \in Nat /\ upTo[s] \in Nat
    BY <1>t, <2>1 DEF StreamType
  <2>4. ASSUME NEW r \in Streams \ {s} PROVE pc'[r] = pc[r] /\ upTo'[r] = upTo[r] /\ lastSeq'[r] = lastSeq[r]
    BY <1>t, <2>1 DEF StreamType
  <2>5. \A r \in Streams : Covered(r) => Covered(r)'
    BY <2>1 DEF Covered, WakeQueued, Healing, brokerVars, subVars
  <2>6. exists /\ Len(log) > upTo[s] => Covered(s)'
    BY <2>1, <2>5 DEF IInv, StreamInv
  <2>7. /\ pc'[s] \in {"select", "gone"} /\ exists /\ Len(log) > lastSeq'[s] => Covered(s)'
        /\ pc'[s] = "page" /\ exists /\ Len(log) > upTo'[s] => Covered(s)'
    BY <2>1, <2>3, <2>6
  <2> QED BY <2>1, <2>2, <2>4, <2>5, <2>7 DEF IInv, StreamInv, logVars, brokerVars, subVars
<1>11. CASE LookFails(s) \/ (sessionGone(s) /\ exists)
  <2>1. pc' = [pc EXCEPT ![s] = "select"] /\ pc[s] \in {"gone", "select"}
        /\ UNCHANGED <<logVars, brokerVars, subVars, localVars>>
    BY <1>11 DEF sessionGone, LookFails, Goto
  <2>2. StreamType'
    BY <1>t, <2>1 DEF StreamType, logVars, brokerVars, subVars, localVars
  <2>3. \A r \in Streams : pc'[r] = IF r = s THEN "select" ELSE pc[r]
    BY <1>t, <2>1 DEF StreamType
  <2>4. \A r \in Streams : Covered(r) => Covered(r)'
    BY <2>1 DEF Covered, WakeQueued, Healing, brokerVars, subVars
  <2>5. \A r \in Streams : pc'[r] \in Subscribed => listener' # "off"
    BY <2>1, <2>3 DEF IInv, StreamInv, brokerVars, Subscribed
  <2>6. ASSUME NEW r \in Streams
        PROVE  /\ pc'[r] \in {"select", "gone"} => pc[r] \in {"select", "gone"}
               /\ pc'[r] = "page" => pc[r] = "page"
    BY <2>1, <2>3
  <2>7. exists' = exists /\ log' = log /\ lastSeq' = lastSeq /\ upTo' = upTo
    BY <2>1 DEF logVars, localVars
  <2>8. \A r \in Streams : pc'[r] \in {"select", "gone"} /\ exists' /\ Len(log') > lastSeq'[r] => Covered(r)'
    BY <2>4, <2>6, <2>7 DEF IInv, StreamInv
  <2>9. \A r \in Streams : pc'[r] = "page" /\ exists' /\ Len(log') > upTo'[r] => Covered(r)'
    BY <2>4, <2>6, <2>7 DEF IInv, StreamInv
  <2> QED BY <2>2, <2>5, <2>8, <2>9 DEF IInv, StreamInv
<1>12. CASE sessionGone(s) /\ ~exists
  <2>1. s \in Members /\ Close(s) /\ UNCHANGED logVars
    BY <1>m, <1>12 DEF sessionGone
  <2> QED BY <2>1, CloseKeeps
<1> QED BY <1>1, <1>2, <1>3, <1>4, <1>5, <1>6, <1>7, <1>8, <1>9, <1>10, <1>11, <1>12 DEF Serve

\* Every step keeps the invariant.
LEMMA IInvStep == IInv /\ [Next]_vars => IInv'
<1> SUFFICES ASSUME IInv, [Next]_vars PROVE IInv'
  OBVIOUS
<1>1. CASE UNCHANGED vars
  BY <1>1 DEF vars, IInv, StreamType, StreamInv, Covered, WakeQueued, Healing
<1>2. CASE Next
  BY <1>2, WriterStep, BrokerStep, HandlerStep DEF Next
<1> QED BY <1>1, <1>2

\* No row goes unannounced: whatever streams open, disconnect and end, and
\* however often the broker's connection breaks, a stream asleep with rows past
\* its tail has a wake, one queued, or a listener about to wake everyone.
THEOREM RowsAreAnnounced == Spec => []NoLostWake
<1>1. IInv => NoLostWake
  BY DEF IInv, StreamInv, NoLostWake, Covered
<1> QED BY InitStream, IInvStep, <1>1, PTL DEF Spec

-----------------------------------------------------------------------------
(* The tails of the streams are exact. *)

Ascending(t) == \A i, j \in DOMAIN t : i < j => t[i] < t[j]

Exact(s) ==
    /\ Ascending(tail[s]) /\ Written(s) \subseteq Due(s)
    /\ \A q \in Due(s) \ Written(s) : ~exists /\ \A p \in Written(s) : p < q

Early == {"idle", "resolved", "gate", "snapshot"}

\* A tail begins at or below lastSeq, no stream is ahead of the log, and one
\* that has not yet taken its snapshot has written nothing.
TailInv ==
    /\ tail \in [Streams -> Seq(Nat)] /\ from \in [Streams -> Nat]
    /\ \A s \in Streams : from[s] <= lastSeq[s] /\ lastSeq[s] <= Len(log) /\ upTo[s] <= Len(log)
    /\ \A s \in Streams : pc[s] \in Early => tail[s] = <<>>
    /\ \A s \in Streams : Exact(s)

\* An empty tail has no rows.
LEMMA NothingWritten == DOMAIN <<>> = {}
OBVIOUS

\* Initially nothing is written or due.
LEMMA InitTail == Init => TailInv
BY DEF Init, TailInv, Exact, Ascending, Written, Due

\* Steps that only add rows, take the session away, or move a stream on leave
\* what each stream has written, and what was due to it, as it was.
LEMMA TailStays ==
    ASSUME IInv, IInv', TailInv, UNCHANGED <<lastSeq, upTo, from, tail>>,
           Len(log) <= Len(log'), \A q \in 1 .. Len(log) : log'[q] = log[q],
           exists' => exists, \A s \in Streams : pc'[s] \in Early => pc[s] \in Early
    PROVE  TailInv'
<1>1. \A s \in Streams : lastSeq[s] \in Nat /\ upTo[s] \in Nat /\ from[s] \in Nat
  BY DEF IInv, StreamType, TailInv
<1>2. Len(log) \in Nat /\ Len(log') \in Nat
  BY DEF IInv, StreamType
<1>3. ASSUME NEW s \in Streams PROVE Due(s)' = Due(s)
  <2>1. \A q \in from[s] + 1 .. lastSeq[s] : log'[q] = log[q]
    BY <1>1, <1>2 DEF TailInv
  <2>2. \A q \in from[s] + 1 .. lastSeq[s] : Shows(s, log[q])' <=> Shows(s, log[q])
    BY <2>1 DEF Shows
  <2> QED BY <2>2 DEF Due
<1>4. ASSUME NEW s \in Streams PROVE Exact(s)'
  <2>1. Exact(s) /\ Written(s)' = Written(s) /\ tail' = tail
    BY DEF TailInv, Written
  <2> QED BY <1>3, <2>1 DEF Exact
<1>5. ASSUME NEW s \in Streams
      PROVE  from'[s] <= lastSeq'[s] /\ lastSeq'[s] <= Len(log') /\ upTo'[s] <= Len(log')
  <2>1. from[s] <= lastSeq[s] /\ lastSeq[s] <= Len(log) /\ upTo[s] <= Len(log)
    BY DEF TailInv
  <2>2. PICK beg, lo, up, len, more : beg = from[s] /\ lo = lastSeq[s] /\ up = upTo[s] /\ len = Len(log) /\ more = Len(log')
    OBVIOUS
  <2>3. beg \in Nat /\ lo \in Nat /\ up \in Nat /\ len \in Nat /\ more \in Nat
    BY <1>1, <1>2, <2>2
  <2>4. beg <= lo /\ lo <= len /\ up <= len /\ len <= more
    BY <2>1, <2>2
  <2>5. from'[s] = beg /\ lastSeq'[s] = lo /\ upTo'[s] = up
    BY <2>2
  <2>6. beg <= lo /\ lo <= more /\ up <= more
    BY <2>3, <2>4
  <2> QED BY <2>2, <2>5, <2>6
<1>6. tail' \in [Streams -> Seq(Nat)] /\ from' \in [Streams -> Nat]
  BY DEF TailInv
<1>7. \A s \in Streams : pc'[s] \in Early => tail'[s] = <<>>
  BY DEF TailInv
<1> QED BY <1>4, <1>5, <1>6, <1>7 DEF TailInv

\* An ended stream's tail is forgotten; the others' stay.
LEMMA TailCloses ==
    ASSUME IInv, IInv', TailInv, NEW s \in Streams, Close(s), UNCHANGED logVars
    PROVE  TailInv'
<1>1. /\ pc' = [pc EXCEPT ![s] = "closed"] /\ tail' = [tail EXCEPT ![s] = <<>>]
      /\ lastSeq' = [lastSeq EXCEPT ![s] = 0] /\ upTo' = [upTo EXCEPT ![s] = 0]
      /\ from' = [from EXCEPT ![s] = 0] /\ log' = log /\ exists' = exists
  BY DEF Close, Goto, logVars
<1>2. /\ \A r \in Streams \ {s} : /\ pc'[r] = pc[r] /\ tail'[r] = tail[r] /\ lastSeq'[r] = lastSeq[r]
                                 /\ upTo'[r] = upTo[r] /\ from'[r] = from[r]
      /\ tail'[s] = <<>> /\ lastSeq'[s] = 0 /\ upTo'[s] = 0 /\ from'[s] = 0
  BY <1>1 DEF IInv, StreamType, TailInv
<1>3. \A r \in Streams \ {s} : Due(r)' = Due(r)
  BY <1>1, <1>2 DEF Due, Shows
<1>4. Due(s)' = {}
  BY <1>2 DEF Due
<1>5. ASSUME NEW r \in Streams PROVE Exact(r)'
  <2>1. CASE r = s
    <3>1. Written(s)' = {} /\ Ascending(tail[s])'
      BY <1>2 DEF Written, Ascending
    <3> QED BY <1>4, <2>1, <3>1 DEF Exact
  <2>2. CASE r # s
    <3>1. tail'[r] = tail[r] /\ Due(r)' = Due(r) /\ exists' = exists
      BY <1>1, <1>2, <1>3, <2>2
    <3>2. Exact(r)
      BY DEF TailInv
    <3> QED BY <3>1, <3>2 DEF Exact, Written
  <2> QED BY <2>1, <2>2
<1>6. tail' \in [Streams -> Seq(Nat)] /\ from' \in [Streams -> Nat]
  BY <1>1 DEF TailInv
<1>7. Len(log) \in Nat
  BY DEF IInv, StreamType
<1> QED BY <1>1, <1>2, <1>5, <1>6, <1>7 DEF TailInv

\* The writers and the broker only ever add rows or take the session away.
LEMMA TailProduce ==
    ASSUME IInv, IInv', TailInv,
           \/ Produce
           \/ \E t \in Threads : DeleteSession(t)
           \/ \E fails \in BOOLEAN : Broadcast(fails)
           \/ Listening \/ Break \/ DispatchLate
    PROVE  TailInv'
<1>1. UNCHANGED <<pc, lastSeq, upTo, from, tail>> /\ (exists' => exists)
  <2>1. CASE Produce
    <3>1. UNCHANGED <<pc, localVars, exists>>
      BY <2>1 DEF Produce, Commit, OpenThinking, CloseThinking, OpenMessage, TextDelta, SettleTurn, FailTurn
    <3> QED BY <3>1 DEF localVars
  <2>2. CASE (\E t \in Threads : DeleteSession(t)) \/ \E fails \in BOOLEAN : Broadcast(fails)
    <3>1. UNCHANGED <<pc, localVars>> /\ (exists' = FALSE \/ exists' = exists)
      BY <2>2 DEF DeleteSession, Broadcast
    <3> QED BY <3>1 DEF localVars
  <2>3. CASE Listening \/ Break \/ DispatchLate
    <3>1. UNCHANGED <<pc, localVars, logVars>>
      BY <2>3 DEF Listening, Lower, Listen, Raise, wakeAll, Dispatch, Break, DispatchLate
    <3> QED BY <3>1 DEF localVars, logVars
  <2> QED BY <2>1, <2>2, <2>3
<1>2. log' = log \/ \E rows \in Seq(Row) : log' = log \o rows
  <2>1. ASSUME NEW r \in Rows, NEW q \in Rows PROVE <<r>> \in Seq(Row) /\ <<r, q>> \in Seq(Row)
    <3>1. r \in Row /\ q \in Row
      BY StreamAssumption DEF Row
    <3> QED BY <3>1
  <2>2. ASSUME NEW id \in 0 .. MaxPreviews PROVE <<PreviewRow(id)>> \in Seq(Row)
    BY DEF IInv, StreamType, PreviewRow, Row, Turn
  <2>3. turn.message \in 0 .. MaxPreviews /\ turn.thinking \in 0 .. MaxPreviews
    BY DEF IInv, StreamType, Turn
  <2>4. CASE \E r \in Rows, q \in Rows : Commit(<<r>>) \/ Commit(<<r, q>>)
    BY <2>1, <2>4 DEF Commit, AppendInTx
  <2>5. CASE \E t \in Turns : CloseThinking(t) \/ TextDelta(t)
    BY <2>2, <2>3, <2>5 DEF CloseThinking, TextDelta, AppendInTx, logVars
  <2>6. CASE \E t \in Turns : SettleTurn(t) \/ FailTurn(t)
    BY <2>2, <2>3, <2>6 DEF SettleTurn, FailTurn, AppendInTx, logVars
  <2>7. CASE (\E t \in Turns : OpenThinking(t) \/ OpenMessage(t)) \/ Listening \/ Break \/ DispatchLate
    BY <2>7 DEF OpenThinking, OpenMessage, Listening, Lower, Listen, Raise, wakeAll, Dispatch, Break,
         DispatchLate, StartPreview, logVars
  <2>8. CASE (\E t \in Threads : DeleteSession(t)) \/ \E fails \in BOOLEAN : Broadcast(fails)
    BY <2>8 DEF DeleteSession, Broadcast, AppendInTx, logVars
  <2> QED BY <2>4, <2>5, <2>6, <2>7, <2>8 DEF Produce
<1>3. Len(log) <= Len(log') /\ \A q \in 1 .. Len(log) : log'[q] = log[q]
  <2>1. log \in Seq(Row)
    BY DEF IInv, StreamType
  <2> QED BY <1>2, <2>1
<1> QED BY <1>1, <1>3, TailStays

Rng(t) == {t[i] : i \in DOMAIN t}

\* An ascending tail goes on ascending with an ascending page that lies past it,
\* and holds what either held.
LEMMA TailExtends ==
    ASSUME NEW t \in Seq(Nat), NEW e \in Seq(Nat), NEW lo \in Nat, Ascending(t), Ascending(e),
           \A i \in DOMAIN t : t[i] <= lo, \A i \in DOMAIN e : e[i] > lo
    PROVE  t \o e \in Seq(Nat) /\ Ascending(t \o e) /\ Rng(t \o e) = Rng(t) \cup Rng(e)
<1>0. PICK u : u = t \o e
  OBVIOUS
<1>m. PICK m : m = Len(t)
  OBVIOUS
<1>n. PICK n : n = Len(e)
  OBVIOUS
<1>1. /\ u \in Seq(Nat) /\ m \in Nat /\ n \in Nat
      /\ DOMAIN t = 1 .. m /\ DOMAIN e = 1 .. n /\ DOMAIN u = 1 .. m + n
      /\ \A i \in 1 .. m : i \in 1 .. m + n /\ u[i] = t[i]
      /\ \A i \in 1 .. n : m + i \in 1 .. m + n /\ u[m + i] = e[i]
      /\ \A k \in 1 .. m + n : k \in 1 .. m \/ \E i \in 1 .. n : k = m + i
  <2>1. u \in Seq(Nat) /\ m \in Nat /\ n \in Nat /\ DOMAIN t = 1 .. m /\ DOMAIN e = 1 .. n /\ DOMAIN u = 1 .. m + n
    BY <1>0, <1>m, <1>n
  <2>2. \A i \in 1 .. m : i \in 1 .. m + n /\ u[i] = t[i]
    BY <1>0, <1>m, <1>n, <2>1
  <2>3. ASSUME NEW i \in 1 .. n PROVE m + i \in 1 .. m + n /\ u[m + i] = e[i]
    BY <1>0, <1>m, <1>n, <2>1
  <2>4. ASSUME NEW k \in 1 .. m + n, k \notin 1 .. m PROVE \E i \in 1 .. n : k = m + i
    <3>1. k - m \in 1 .. n /\ k = m + (k - m)
      BY <2>1, <2>4
    <3> QED BY <3>1
  <2> QED BY <2>1, <2>2, <2>3, <2>4
<1>2. (\A i \in 1 .. m : t[i] \in Nat) /\ (\A i \in 1 .. n : e[i] \in Nat)
  BY <1>1
<1>3. ASSUME NEW i \in 1 .. m + n, NEW j \in 1 .. m + n, i < j PROVE u[i] < u[j]
  <2>1. CASE j \in 1 .. m
    <3>1. i \in 1 .. m
      BY <1>1, <1>3, <2>1
    <3> QED BY <1>1, <1>3, <2>1, <3>1 DEF Ascending
  <2>2. CASE j \notin 1 .. m
    <3>1. PICK b \in 1 .. n : j = m + b
      BY <1>1, <2>2
    <3>2. CASE i \in 1 .. m
      <4>1. t[i] <= lo /\ e[b] > lo /\ u[i] = t[i] /\ u[j] = e[b]
        BY <1>1, <3>1, <3>2
      <4> QED BY <1>2, <3>2, <4>1
    <3>3. CASE i \notin 1 .. m
      <4>1. PICK a \in 1 .. n : i = m + a
        BY <1>1, <3>3
      <4>2. a < b
        BY <1>1, <1>3, <3>1, <4>1
      <4>3. e[a] < e[b]
        BY <1>1, <4>2 DEF Ascending
      <4> QED BY <1>1, <3>1, <4>1, <4>3
    <3> QED BY <3>2, <3>3
  <2> QED BY <2>1, <2>2
<1>4. Ascending(u)
  BY <1>1, <1>3 DEF Ascending
<1>5. Rng(u) = Rng(t) \cup Rng(e)
  <2>1. ASSUME NEW k \in 1 .. m + n PROVE u[k] \in Rng(t) \cup Rng(e)
    BY <1>1 DEF Rng
  <2>2. \A i \in 1 .. m : t[i] \in Rng(u)
    BY <1>1 DEF Rng
  <2>3. ASSUME NEW i \in 1 .. n PROVE e[i] \in Rng(u)
    <3>1. m + i \in DOMAIN u /\ u[m + i] = e[i]
      BY <1>1
    <3> QED BY <3>1 DEF Rng
  <2>4. Rng(u) \subseteq Rng(t) \cup Rng(e)
    BY <1>1, <2>1 DEF Rng
  <2>5. Rng(t) \subseteq Rng(u) /\ Rng(e) \subseteq Rng(u)
    BY <1>1, <2>2, <2>3 DEF Rng
  <2> QED BY <2>4, <2>5
<1> QED BY <1>0, <1>1, <1>4, <1>5


\* A page: the rows List returns go to the tail, and lastSeq to the last of
\* them or, after a short page, to the mark.
LEMMA TailPages ==
    ASSUME IInv, IInv', TailInv, NEW s \in Streams, Page(s)
    PROVE  TailInv'
<1>0. PICK n \in 0 .. WakeBatch : \E evs \in [1 .. n -> 1 .. MaxSeq], seen \in 0 .. Len(log) :
          /\ ListAfter(s, lastSeq[s], evs)
          /\ tail' = [tail EXCEPT ![s] = @ \o evs]
          /\ lastSeq' = [lastSeq EXCEPT ![s] = Advance(s, seen, n < WakeBatch)]
          /\ seen = IF n = 0 THEN lastSeq[s] ELSE evs[n]
          /\ upTo' = [upTo EXCEPT ![s] = IF n < WakeBatch THEN 0 ELSE @]
          /\ pc' = [pc EXCEPT ![s] = IF n = WakeBatch THEN "page"
                                     ELSE IF wrote[s] \/ n > 0 THEN "select" ELSE "gone"]
          /\ UNCHANGED <<logVars, from>>
  BY DEF Page, Goto
<1>1. PICK evs \in [1 .. n -> 1 .. MaxSeq], seen \in 0 .. Len(log) :
          /\ ListAfter(s, lastSeq[s], evs)
          /\ tail' = [tail EXCEPT ![s] = @ \o evs]
          /\ lastSeq' = [lastSeq EXCEPT ![s] = Advance(s, seen, n < WakeBatch)]
          /\ seen = IF n = 0 THEN lastSeq[s] ELSE evs[n]
          /\ upTo' = [upTo EXCEPT ![s] = IF n < WakeBatch THEN 0 ELSE @]
          /\ pc' = [pc EXCEPT ![s] = IF n = WakeBatch THEN "page"
                                     ELSE IF wrote[s] \/ n > 0 THEN "select" ELSE "gone"]
          /\ UNCHANGED <<logVars, from>>
  BY <1>0
<1>2. PICK lo, up, beg, len, max, t :
          lo = lastSeq[s] /\ up = upTo[s] /\ beg = from[s] /\ len = Len(log) /\ max = MaxSeq /\ t = tail[s]
  OBVIOUS
<1>3. /\ lo \in Nat /\ up \in Nat /\ beg \in Nat /\ len \in Nat /\ max \in Nat /\ t \in Seq(Nat)
      /\ beg <= lo /\ lo <= len /\ up <= len /\ max <= len /\ n \in Nat /\ WakeBatch \in Nat \ {0}
      /\ (exists => max = len) /\ (~exists => max = 0)
  <2>1. n \in Nat /\ WakeBatch \in Nat \ {0}
    BY StreamAssumption
  <2>2. lo \in Nat /\ up \in Nat /\ len \in Nat
    <3>1. lastSeq \in [Streams -> Nat] /\ upTo \in [Streams -> Nat] /\ Len(log) \in Nat
      BY DEF IInv, StreamType
    <3> QED BY <1>2, <3>1
  <2>3. beg \in Nat /\ t \in Seq(Nat) /\ beg <= lo /\ lo <= len /\ up <= len
    BY <1>2 DEF TailInv
  <2>4. max = IF exists THEN len ELSE 0
    BY <1>2 DEF MaxSeq
  <2> QED BY <2>1, <2>2, <2>3, <2>4
<1>4. evs \in Seq(Nat) /\ Len(evs) = n /\ DOMAIN evs = 1 .. n /\ \A i \in 1 .. n : evs[i] \in Nat /\ evs[i] \in 1 .. max
  <2>1. evs \in [1 .. n -> 1 .. max]
    BY <1>2
  <2>2. evs \in [1 .. n -> Nat]
    BY <1>3, <2>1
  <2>3. evs \in Seq(Nat) /\ Len(evs) = n
    BY <1>3, <2>2
  <2> QED BY <2>1, <2>2, <2>3
<1>5. /\ \A i \in 1 .. n : evs[i] > lo /\ Shows(s, log[evs[i]])
      /\ Ascending(evs)
      /\ \A q \in 1 .. max : q > lo /\ Shows(s, log[q]) =>
             q \in Rng(evs) \/ (n = WakeBatch /\ \A i \in 1 .. n : evs[i] < q)
  <2>1. ListAfter(s, lo, evs) /\ max = MaxSeq
    BY <1>1, <1>2
  <2>2. \A i \in 1 .. n : evs[i] > lo /\ Shows(s, log[evs[i]])
    BY <1>4, <2>1 DEF ListAfter
  <2>3. Ascending(evs)
    BY <1>4, <2>1 DEF ListAfter, Ascending
  <2>4. ASSUME NEW q \in 1 .. max, q > lo, Shows(s, log[q]), q \notin Rng(evs)
        PROVE  n = WakeBatch /\ \A i \in 1 .. n : evs[i] < q
    <3>1. \A i \in DOMAIN evs : evs[i] # q
      BY <2>4 DEF Rng
    <3> QED BY <1>4, <2>1, <2>4, <3>1 DEF ListAfter
  <2> QED BY <2>2, <2>3, <2>4
<1>6. PICK top : top = Advance(s, seen, n < WakeBatch)
  OBVIOUS
<1>7. /\ n = 0 => seen = lo
      /\ n # 0 => n \in 1 .. n /\ seen = evs[n]
      /\ seen \in Nat /\ seen <= len
      /\ top = IF n < WakeBatch /\ up > seen THEN up ELSE seen
  <2>1. top = IF n < WakeBatch /\ up > seen THEN up ELSE seen
    BY <1>2, <1>6 DEF Advance
  <2>2. CASE n = 0
    <3>1. seen = lo
      BY <1>1, <1>2, <2>2
    <3> QED BY <1>3, <2>1, <2>2, <3>1
  <2>3. CASE n # 0
    <3>1. seen = evs[n] /\ n \in 1 .. n
      BY <1>1, <1>3, <1>4, <2>3
    <3>2. evs[n] \in Nat /\ evs[n] <= len
      BY <1>3, <1>4, <3>1
    <3> QED BY <2>1, <2>3, <3>1, <3>2
  <2> QED BY <2>2, <2>3
<1>8. lo <= seen /\ \A i \in 1 .. n : evs[i] <= seen
  <2>1. CASE n = 0
    BY <1>3, <1>7, <2>1
  <2>2. CASE n # 0
    <3>1. evs[n] > lo /\ seen = evs[n] /\ n \in 1 .. n
      BY <1>5, <1>7, <2>2
    <3>2. ASSUME NEW i \in 1 .. n PROVE evs[i] <= evs[n]
      <4>1. CASE i = n
        BY <1>4, <3>1, <4>1
      <4>2. CASE i # n
        <5>1. i < n
          BY <1>3, <4>2
        <5>2. evs[i] < evs[n]
          BY <1>4, <1>5, <3>1, <5>1 DEF Ascending
        <5> QED BY <1>4, <3>1, <5>2
      <4> QED BY <4>1, <4>2
    <3> QED BY <1>3, <1>7, <3>1, <3>2
  <2> QED BY <2>1, <2>2
<1>9. top \in Nat /\ seen <= top /\ top <= len /\ (n = WakeBatch => top = seen)
  BY <1>3, <1>7
<1>10. log' = log /\ exists' = exists /\ from' = from
  BY <1>1 DEF logVars
<1>11. /\ tail'[s] = t \o evs /\ lastSeq'[s] = top /\ upTo'[s] \in {0, up} /\ pc'[s] \notin Early
       /\ \A r \in Streams \ {s} : /\ pc'[r] = pc[r] /\ tail'[r] = tail[r]
                                  /\ lastSeq'[r] = lastSeq[r] /\ upTo'[r] = upTo[r]
  <2>0. DOMAIN tail = Streams /\ DOMAIN lastSeq = Streams /\ DOMAIN upTo = Streams /\ DOMAIN pc = Streams
    BY DEF IInv, StreamType, TailInv
  <2>1. tail'[s] = t \o evs /\ \A r \in Streams \ {s} : tail'[r] = tail[r]
    BY <1>1, <1>2, <2>0
  <2>2. lastSeq'[s] = top /\ \A r \in Streams \ {s} : lastSeq'[r] = lastSeq[r]
    BY <1>1, <1>6, <2>0
  <2>3. upTo'[s] \in {0, up} /\ \A r \in Streams \ {s} : upTo'[r] = upTo[r]
    BY <1>1, <1>2, <2>0
  <2>4. pc'[s] \notin Early /\ \A r \in Streams \ {s} : pc'[r] = pc[r]
    BY <1>1, <2>0 DEF Early
  <2> QED BY <2>1, <2>2, <2>3, <2>4
<1>12. Exact(s)
  BY DEF TailInv
<1>13. Written(s) = Rng(t) /\ Due(s) = {q \in beg + 1 .. lo : Shows(s, log[q])}
  BY <1>2 DEF Written, Rng, Due
<1>14. /\ Ascending(t) /\ \A i \in DOMAIN t : t[i] \in Due(s) /\ t[i] <= lo
  <2>1. Ascending(t) /\ \A i \in DOMAIN t : t[i] \in Written(s)
    BY <1>2, <1>12, <1>13 DEF Exact, Rng
  <2>2. \A i \in DOMAIN t : t[i] \in Due(s)
    BY <1>12, <2>1 DEF Exact
  <2>3. \A q \in Due(s) : q <= lo
    BY <1>3, <1>13
  <2> QED BY <2>1, <2>2, <2>3
<1>15. /\ t \o evs \in Seq(Nat) /\ Ascending(t \o evs) /\ Rng(t \o evs) = Rng(t) \cup Rng(evs)
  BY <1>3, <1>4, <1>5, <1>14, TailExtends
<1>16. Written(s)' = Written(s) \cup Rng(evs) /\ Ascending(tail[s])'
  <2>1. Written(s)' = Rng(t \o evs)
    BY <1>11 DEF Written, Rng
  <2> QED BY <1>11, <1>13, <1>15, <2>1 DEF Ascending
<1>17. Due(s)' = {q \in beg + 1 .. top : Shows(s, log[q])}
  BY <1>2, <1>10, <1>11 DEF Due, Shows
<1>18. Written(s)' \subseteq Due(s)'
  <2>1. Due(s) \subseteq Due(s)'
    BY <1>3, <1>8, <1>9, <1>13, <1>17
  <2>2. \A i \in 1 .. n : evs[i] \in beg + 1 .. top
    BY <1>3, <1>4, <1>5, <1>8, <1>9
  <2>3. Rng(evs) \subseteq Due(s)'
    BY <1>4, <1>5, <1>17, <2>2 DEF Rng
  <2> QED BY <1>12, <1>16, <2>1, <2>3 DEF Exact
<1>19. ASSUME NEW q \in Due(s)' \ Written(s)' PROVE ~exists /\ \A p \in Written(s)' : p < q
  <2>1. q \in Nat /\ q >= beg + 1 /\ q <= top /\ Shows(s, log[q]) /\ q \notin Written(s) /\ q \notin Rng(evs)
    BY <1>3, <1>9, <1>16, <1>17, <1>19
  <2>2. ~exists
    <3> SUFFICES ASSUME exists PROVE FALSE
      OBVIOUS
    <3>1. q \notin Due(s)
      BY <1>12, <2>1 DEF Exact
    <3>2. q > lo /\ q \in 1 .. max
      BY <1>3, <1>9, <1>13, <2>1, <3>1
    <3>3. n = WakeBatch /\ \A i \in 1 .. n : evs[i] < q
      BY <1>5, <2>1, <3>2
    <3>4. n # 0 /\ top = seen
      BY <1>3, <1>9, <3>3
    <3>5. seen < q
      BY <1>7, <3>3, <3>4
    <3> QED BY <1>7, <2>1, <3>4, <3>5
  <2>3. n = 0 /\ Rng(evs) = {}
    <3>1. max = 0
      BY <1>3, <2>2
    <3>2. \A i \in 1 .. n : FALSE
      BY <1>4, <3>1
    <3>3. n = 0
      BY <1>3, <3>2
    <3> QED BY <1>4, <3>2, <3>3 DEF Rng
  <2>4. CASE q <= lo
    <3>1. q \in Due(s) \ Written(s)
      <4>1. q \in beg + 1 .. lo
        BY <1>3, <2>1, <2>4
      <4> QED BY <1>13, <2>1, <4>1
    <3>2. Written(s)' = Written(s)
      BY <1>16, <2>3
    <3> QED BY <1>12, <3>1, <3>2 DEF Exact
  <2>5. CASE q > lo
    <3>1. \A p \in Written(s) : p \in Nat /\ p <= lo
      <4>1. Written(s) \subseteq Due(s)
        BY <1>12 DEF Exact
      <4>2. \A p \in beg + 1 .. lo : p \in Nat /\ p <= lo
        BY <1>3
      <4> QED BY <1>13, <4>1, <4>2
    <3> QED BY <1>3, <1>16, <2>1, <2>2, <2>3, <2>5, <3>1
  <2> QED BY <1>3, <2>1, <2>4, <2>5
<1>20. Exact(s)'
  BY <1>10, <1>16, <1>18, <1>19 DEF Exact
<1>21. ASSUME NEW r \in Streams, r # s PROVE Exact(r)'
  <2>1. tail'[r] = tail[r] /\ lastSeq'[r] = lastSeq[r]
    BY <1>11, <1>21
  <2>2. Due(r)' = Due(r) /\ Written(r)' = Written(r) /\ Exact(r)
    BY <1>10, <2>1 DEF Due, Written, Shows, TailInv
  <2> QED BY <1>10, <2>1, <2>2 DEF Exact
<1>22. tail' \in [Streams -> Seq(Nat)]
  BY <1>1, <1>2, <1>15 DEF TailInv
<1>23. \A r \in Streams : from'[r] <= lastSeq'[r] /\ lastSeq'[r] <= Len(log') /\ upTo'[r] <= Len(log')
  <2>1. from'[s] <= lastSeq'[s] /\ lastSeq'[s] <= Len(log') /\ upTo'[s] <= Len(log')
    <3>1. from'[s] = beg /\ lastSeq'[s] = top /\ upTo'[s] \in {0, up} /\ Len(log') = len
      BY <1>2, <1>10, <1>11
    <3>2. beg <= top /\ top <= len /\ up <= len /\ 0 <= len
      <4>1. beg <= lo /\ lo <= seen /\ seen <= top /\ seen \in Nat
        BY <1>3, <1>7, <1>8, <1>9
      <4>2. beg <= top
        BY <1>3, <1>9, <4>1
      <4> QED BY <1>3, <1>9, <4>2
    <3> QED BY <3>1, <3>2
  <2> QED BY <1>10, <1>11, <2>1 DEF TailInv
<1> QED BY <1>10, <1>11, <1>20, <1>21, <1>22, <1>23 DEF TailInv

\* The snapshot, the mark, and the steps that only move a stream on.
LEMMA TailServes ==
    ASSUME IInv, IInv', TailInv, NEW s \in Streams,
           Serve(s) \/ sessionGone(s) \/ LookFails(s) \/ DatabaseFails(s) \/ Disconnect(s)
    PROVE  TailInv'
<1>0. ASSUME UNCHANGED <<logVars, lastSeq, upTo, from, tail>>, NEW at, pc' = [pc EXCEPT ![s] = at],
             at \in Early => pc[s] \in Early
      PROVE  TailInv'
  <2>1. log' = log /\ exists' = exists /\ UNCHANGED <<lastSeq, upTo, from, tail>>
    BY <1>0 DEF logVars
  <2>2. \A r \in Streams : pc'[r] \in Early => pc[r] \in Early
    BY <1>0 DEF IInv, StreamType
  <2>3. Len(log) <= Len(log') /\ \A q \in 1 .. Len(log) : log'[q] = log[q]
    BY <2>1 DEF IInv, StreamType
  <2> QED BY <2>1, <2>2, <2>3, TailStays
<1>1. CASE Resolve(s)
  BY <1>0, <1>1 DEF Resolve, Goto, localVars, Early
<1>2. CASE Subscribe(s) \/ Ready(s)
  BY <1>0, <1>2 DEF Subscribe, Ready, Goto, localVars, Early
<1>3. CASE TakeWake(s) \/ Drained(s) \/ LookFails(s)
  BY <1>0, <1>3 DEF TakeWake, Drained, LookFails, Goto, localVars, Early
<1>4. CASE processFrame(s)
  <2>1. UNCHANGED <<logVars, lastSeq, upTo, from, tail, pc>>
    BY <1>4 DEF processFrame
  <2>2. pc' = [pc EXCEPT ![s] = pc[s]]
    BY <2>1 DEF IInv, StreamType
  <2> QED BY <1>0, <2>1, <2>2
<1>5. CASE SeeDeleted(s) \/ DatabaseFails(s) \/ Disconnect(s) \/ (sessionGone(s) /\ ~exists)
  BY <1>5, TailCloses DEF SeeDeleted, DatabaseFails, Disconnect, sessionGone
<1>6. CASE sessionGone(s) /\ exists
  BY <1>0, <1>6 DEF sessionGone, Goto, localVars, Early
<1>7. CASE Page(s)
  BY <1>7, TailPages
<1>8. CASE Mark(s)
  <2>1. pc[s] = "mark" /\ pc' = [pc EXCEPT ![s] = "page"] /\ upTo' = [upTo EXCEPT ![s] = MaxSeq]
        /\ UNCHANGED <<logVars, lastSeq, from, tail>>
    BY <1>8 DEF Mark, Goto
  <2>2. log' = log /\ exists' = exists /\ lastSeq' = lastSeq /\ from' = from /\ tail' = tail
    BY <2>1 DEF logVars
  <2>3. MaxSeq \in Nat /\ MaxSeq <= Len(log)
    BY DEF MaxSeq, IInv, StreamType
  <2>4. \A r \in Streams : upTo'[r] <= Len(log) /\ (pc'[r] \in Early => pc[r] \in Early)
    BY <2>1, <2>3 DEF TailInv, IInv, StreamType, Early
  <2>5. ASSUME NEW r \in Streams PROVE Exact(r)'
    <3>1. Due(r)' = Due(r) /\ Written(r)' = Written(r) /\ Exact(r)
      BY <2>2 DEF Due, Written, Shows, TailInv
    <3> QED BY <2>2, <3>1 DEF Exact
  <2> QED BY <2>2, <2>4, <2>5 DEF TailInv
<1>9. CASE Snapshot(s)
  <2>1. pc[s] = "snapshot" /\ pc' = [pc EXCEPT ![s] = "select"] /\ lastSeq' = [lastSeq EXCEPT ![s] = MaxSeq]
        /\ from' = [from EXCEPT ![s] = MaxSeq] /\ UNCHANGED <<logVars, upTo, tail>>
    BY <1>9 DEF Snapshot, Goto
  <2>2. log' = log /\ exists' = exists /\ upTo' = upTo /\ tail' = tail
    BY <2>1 DEF logVars
  <2>3. MaxSeq \in Nat /\ MaxSeq <= Len(log)
    BY DEF MaxSeq, IInv, StreamType
  <2>4. /\ lastSeq'[s] = MaxSeq /\ from'[s] = MaxSeq /\ pc'[s] \notin Early
        /\ \A r \in Streams \ {s} : lastSeq'[r] = lastSeq[r] /\ from'[r] = from[r] /\ pc'[r] = pc[r]
    <3>1. DOMAIN lastSeq = Streams /\ DOMAIN from = Streams /\ DOMAIN pc = Streams
      BY DEF TailInv, IInv, StreamType
    <3> QED BY <2>1, <3>1 DEF Early
  <2>5. tail[s] = <<>>
    BY <2>1 DEF TailInv, Early
  <2>6. Exact(s)'
    <3>0. tail'[s] = <<>> /\ DOMAIN <<>> = {}
      <4>1. tail'[s] = <<>>
        BY <2>2, <2>5
      <4> QED BY <4>1, NothingWritten
    <3>1. Written(s)' = {} /\ Ascending(tail'[s])
      <4>1. Written(s)' = {}
        BY <3>0 DEF Written
      <4>2. Ascending(tail'[s])
        BY <3>0 DEF Ascending
      <4> QED BY <4>1, <4>2
    <3>2. Due(s)' = {}
      <4>1. PICK m \in Nat : lastSeq'[s] = m /\ from'[s] = m
        BY <2>3, <2>4
      <4>2. \A q : q \notin m + 1 .. m
        OBVIOUS
      <4> QED BY <4>1, <4>2 DEF Due
    <3> QED BY <3>1, <3>2 DEF Exact
  <2>7. ASSUME NEW r \in Streams, r # s PROVE Exact(r)'
    <3>1. lastSeq'[r] = lastSeq[r] /\ from'[r] = from[r] /\ Exact(r)
      BY <2>4, <2>7 DEF TailInv
    <3>2. Due(r)' = Due(r)
      BY <2>2, <3>1 DEF Due, Shows
    <3>3. Written(r)' = Written(r)
      BY <2>2 DEF Written
    <3> QED BY <2>2, <3>1, <3>2, <3>3 DEF Exact
  <2>8. from' \in [Streams -> Nat]
    BY <2>1, <2>3 DEF TailInv
  <2>9. \A r \in Streams : from'[r] <= lastSeq'[r] /\ lastSeq'[r] <= Len(log') /\ upTo'[r] <= Len(log')
    <3>1. from'[s] <= lastSeq'[s] /\ lastSeq'[s] <= Len(log') /\ upTo'[s] <= Len(log')
      <4>1. upTo[s] <= Len(log)
        BY DEF TailInv
      <4>2. Len(log') = Len(log) /\ upTo'[s] = upTo[s]
        BY <2>2
      <4>3. MaxSeq <= MaxSeq
        BY <2>3
      <4> QED BY <2>3, <2>4, <4>1, <4>2, <4>3
    <3>2. ASSUME NEW r \in Streams, r # s
          PROVE  from'[r] <= lastSeq'[r] /\ lastSeq'[r] <= Len(log') /\ upTo'[r] <= Len(log')
      BY <2>2, <2>4, <3>2 DEF TailInv
    <3> QED BY <3>1, <3>2
  <2> QED BY <2>2, <2>4, <2>6, <2>7, <2>8, <2>9 DEF TailInv
<1> QED BY <1>1, <1>2, <1>3, <1>4, <1>5, <1>6, <1>7, <1>8, <1>9 DEF Serve

\* THEOREM: streamEvents' tail is exact: for any number of streams, threads,
\* rows, page sizes and lost connections, a stream has written each row due to
\* it once, in seq order, and none that was not due.
THEOREM TailsAreExact == Spec => []ExactTail
<1>2. IInv /\ IInv' /\ TailInv /\ [Next]_vars => TailInv'
  <2> SUFFICES ASSUME IInv, IInv', TailInv, [Next]_vars PROVE TailInv'
    OBVIOUS
  <2>1. CASE UNCHANGED vars
    <3>1. UNCHANGED <<log, exists, pc, lastSeq, upTo, from, tail>>
      BY <2>1 DEF vars
    <3>2. Len(log) <= Len(log') /\ \A q \in 1 .. Len(log) : log'[q] = log[q]
      BY SMTT(20), <3>1 DEF IInv, StreamType
    <3> QED BY <3>1, <3>2, TailStays
  <2>2. CASE Next
    BY <2>2, TailProduce, TailServes DEF Next
  <2> QED BY <2>1, <2>2
<1>3. TailInv => ExactTail
  BY DEF TailInv, Exact, Ascending, ExactTail
<1> QED BY InitStream, InitTail, IInvStep, <1>2, <1>3, PTL DEF Spec
=============================================================================
