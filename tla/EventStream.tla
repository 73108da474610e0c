--------------------------- MODULE EventStream ---------------------------
(***************************************************************************)
(* One session's event log and the streams that tail it: Log.AppendInTx    *)
(* and its NOTIFY, the Broker that holds one LISTEN connection for every   *)
(* subscriber of its process, the previews a brain broadcasts while a      *)
(* model answers, and the handler of GET /v1/sessions/{id}/events/stream   *)
(* and of its thread twin.                                                 *)
(*                                                                         *)
(* A wake only says that rows may exist: rows are read from the log.  A    *)
(* frame is delivered or lost, never stored.  The model keeps the log of a *)
(* deleted session, whose rows no read returns, to compare streams with.   *)
(***************************************************************************)
EXTENDS Naturals, Sequences

CONSTANTS
    Streams,      \* the streams opened on the session
    Threads, Primary,
    Turns,        \* the threads whose turns run
    Surface,      \* Surface[s]: the thread s shows; Primary is the session's view
    OptIn,        \* OptIn[s]: the previews asked for by ?event_deltas[]
    Wide,         \* the session's environment is self_hosted
    Rows,         \* the rows an append may carry
    FrameCap,     \* capacity of a subscription's frames channel
    WakeBatch,    \* sseWakeBatch
    MaxRows, MaxPreviews, MaxDeltas, MaxBreaks   \* bounds of the instance

ASSUME StreamAssumption ==
    /\ Primary \in Threads /\ Turns \subseteq Threads
    /\ Surface \in [Streams -> Threads]
    /\ OptIn \in [Streams -> SUBSET {"message", "thinking"}]
    /\ Wide \in BOOLEAN
    /\ Rows \subseteq [thread : Threads, crossPosted : BOOLEAN,
                       tool : {"none", "call", "delegation"}, preview : {0}]
    /\ FrameCap \in Nat \ {0} /\ WakeBatch \in Nat \ {0}
    /\ {MaxRows, MaxPreviews, MaxDeltas, MaxBreaks} \subseteq Nat

VARIABLES
    log,          \* the committed rows, by seq
    exists,       \* the session's row exists
    owed,         \* frames a delete has still to broadcast
    turn,         \* the open previews of the turn a brain streams, NoTurn for none
    previews,     \* previews started so far
    listener,     \* where Broker.listen is
    ready,        \* the coverage gate is open
    wire,         \* notifications on the LISTEN connection, in commit order
    late,         \* what a cancelled listener still has in hand
    breaks,       \* connections lost so far
    unbroken,     \* none was lost, or given up with a notification in hand
    pc,           \* where each stream's handler is
    wake, frames, lossyDeltas,    \* each subscription
    lastSeq, upTo, wrote, started,    \* each handler's locals
    from,         \* where each stream's tail began
    tail, shown   \* what each stream sent its client: rows, and frames

logVars    == <<log, exists, owed, turn, previews>>
brokerVars == <<listener, ready, wire, late, breaks, unbroken>>
subVars    == <<wake, frames, lossyDeltas>>
localVars  == <<lastSeq, upTo, wrote, started, from, tail, shown>>
vars == <<log, exists, owed, turn, previews, listener, ready, wire, late, breaks, unbroken,
          pc, wake, frames, lossyDeltas, lastSeq, upTo, wrote, started, from,
          tail, shown>>

Row == [thread : Threads, crossPosted : BOOLEAN,
        tool : {"none", "call", "delegation"}, preview : 0 .. MaxPreviews]
\* A delta's place in its message: at counts the message's deltas, n those since
\* a preview was last started on the thread.  Its block and text are left out.
Frame == [type : {"event_start", "event_delta", "thread_terminated", "session.deleted"},
          thread : Threads, id : 0 .. MaxPreviews,
          of : {"none", "message", "thinking"}, at : Nat, n : 0 .. MaxDeltas]
NoFrame == [type |-> "none", thread |-> Primary, id |-> 0, of |-> "none", at |-> 0, n |-> 0]
Notification == [kind : {"events", "all"}, frame : {NoFrame}]
                \cup [kind : {"frame"}, frame : Frame]
Turn == [thread : Threads, message : 0 .. MaxPreviews, thinking : 0 .. MaxPreviews,
         at : Nat, sent : 0 .. MaxDeltas]
Streaming(t, message, thinking, at, sent) ==
    [thread |-> t, message |-> message, thinking |-> thinking, at |-> at, sent |-> sent]
NoTurn == Streaming(Primary, 0, 0, 0, 0)

Subscribed == {"gate", "snapshot", "select", "drain", "mark", "page", "gone"}

TypeOK ==
    /\ log \in Seq(Row) /\ exists \in BOOLEAN /\ owed \in Seq(Frame)
    /\ turn \in Turn /\ previews \in 0 .. MaxPreviews
    /\ listener \in {"off", "down", "dialing", "armed", "waking", "on"}
    /\ ready \in BOOLEAN /\ wire \in Seq(Notification) /\ late \in Seq(Notification)
    /\ breaks \in 0 .. MaxBreaks /\ unbroken \in BOOLEAN
    /\ pc \in [Streams -> Subscribed \cup {"idle", "resolved", "closed"}]
    /\ wake \in [Streams -> BOOLEAN] /\ lossyDeltas \in [Streams -> BOOLEAN]
    /\ frames \in [Streams -> Seq(Frame)]
    /\ \A s \in Streams : Len(frames[s]) <= FrameCap
    /\ lastSeq \in [Streams -> Nat] /\ upTo \in [Streams -> Nat] /\ from \in [Streams -> Nat]
    /\ wrote \in [Streams -> BOOLEAN]
    /\ started \in [Streams -> SUBSET (1 .. MaxPreviews)]
    /\ tail \in [Streams -> Seq(Nat)]
    /\ shown \in [Streams -> Seq(Frame)]

Init ==
    /\ log = <<>> /\ exists = TRUE /\ owed = <<>> /\ turn = NoTurn /\ previews = 0
    /\ listener = "off" /\ ready = FALSE /\ wire = <<>> /\ late = <<>> /\ breaks = 0 /\ unbroken = TRUE
    /\ pc = [s \in Streams |-> "idle"]
    /\ wake = [s \in Streams |-> FALSE] /\ frames = [s \in Streams |-> <<>>]
    /\ lossyDeltas = [s \in Streams |-> FALSE]
    /\ lastSeq = [s \in Streams |-> 0] /\ upTo = [s \in Streams |-> 0]
    /\ wrote = [s \in Streams |-> FALSE] /\ started = [s \in Streams |-> {}]
    /\ from = [s \in Streams |-> 0]
    /\ tail = [s \in Streams |-> <<>>] /\ shown = [s \in Streams |-> <<>>]

-----------------------------------------------------------------------------
(* The log and its notifications *)

\* Postgres queues a notification for the connections that LISTEN at commit.
Notify(n) == wire' = IF listener \in {"armed", "waking", "on"} THEN Append(wire, n) ELSE wire

EventsNote == [kind |-> "events", frame |-> NoFrame]

\* The rows and their one NOTIFY commit together, under the session's row lock.
AppendInTx(rows) ==
    /\ exists /\ rows # <<>>
    /\ Len(log) + Len(rows) <= MaxRows
    /\ log' = log \o rows
    /\ Notify(EventsNote)

publishFrame(f) == Notify([kind |-> "frame", frame |-> f])

\* The highest seq of the session, 0 where it has no rows.
MaxSeq == IF exists THEN Len(log) ELSE 0

\* Log.List's scope: a child's rows on its own surface; on the session's the
\* primary's, the cross-posted and, if wide, the children's tool calls.
Shows(s, row) ==
    /\ \/ row.thread = Surface[s]
       \/ Surface[s] = Primary /\ (row.crossPosted \/ (Wide /\ row.tool # "none"))
    /\ row.tool # "delegation"

\* List(AfterSeq: seq, Limit: sseWakeBatch) returns evs: the first of the rows
\* past seq, in seq order, and all of them where there is room.
ListAfter(s, seq, evs) ==
    /\ \A i \in DOMAIN evs : evs[i] > seq /\ Shows(s, log[evs[i]])
    /\ \A i, j \in DOMAIN evs : i < j => evs[i] < evs[j]
    /\ \A q \in 1 .. MaxSeq : q > seq /\ Shows(s, log[q]) =>
           \/ \E i \in DOMAIN evs : evs[i] = q
           \/ Len(evs) = WakeBatch /\ \A i \in DOMAIN evs : evs[i] < q

-----------------------------------------------------------------------------
(* Writers: sends and settlements, a brain's turn, a delete *)

Commit(rows) ==
    /\ AppendInTx(rows)
    /\ UNCHANGED <<exists, owed, turn, previews, listener, ready, late, breaks, unbroken, pc, subVars, localVars>>

\* StartPreviewOn: the id the event will be appended under, and its frame.
StartPreview(t, of) ==
    /\ turn # NoTurn => t = turn.thread
    /\ previews < MaxPreviews
    /\ previews' = previews + 1
    /\ publishFrame([type |-> "event_start", thread |-> t, id |-> previews + 1,
                     of |-> of, at |-> 0, n |-> 0])

PreviewRow(id) == [thread |-> turn.thread, crossPosted |-> FALSE, tool |-> "none", preview |-> id]

\* streamTurn opens a thinking event at a block's first chunk.
OpenThinking(t) ==
    /\ turn.thinking = 0
    /\ StartPreview(t, "thinking")
    /\ turn' = Streaming(t, turn.message, previews + 1, turn.at, turn.sent)
    /\ UNCHANGED <<log, exists, owed, listener, ready, late, breaks, unbroken, pc, subVars, localVars>>

\* A chunk of another block appends the open thinking event first.  Text that
\* follows it goes on in the message that was open before it.
CloseThinking(t) ==
    /\ turn.thread = t /\ turn.thinking # 0
    /\ AppendInTx(<<PreviewRow(turn.thinking)>>)
    /\ turn' = IF turn.message = 0 THEN NoTurn
               ELSE Streaming(turn.thread, turn.message, 0, turn.at, 0)
    /\ UNCHANGED <<exists, owed, previews, listener, ready, late, breaks, unbroken, pc, subVars, localVars>>

OpenMessage(t) ==
    /\ turn.thinking = 0 /\ turn.message = 0
    /\ StartPreview(t, "message")
    /\ turn' = Streaming(t, previews + 1, 0, 0, 0)
    /\ UNCHANGED <<log, exists, owed, listener, ready, late, breaks, unbroken, pc, subVars, localVars>>

TextDelta(t) ==
    /\ turn.thread = t /\ turn.thinking = 0 /\ turn.message # 0
    /\ turn.sent < MaxDeltas
    /\ turn' = Streaming(turn.thread, turn.message, 0, turn.at + 1, turn.sent + 1)
    /\ publishFrame([type |-> "event_delta", thread |-> turn.thread, id |-> turn.message,
                     of |-> "none", at |-> turn.at + 1, n |-> turn.sent + 1])
    /\ UNCHANGED <<log, exists, owed, previews, listener, ready, late, breaks, unbroken, pc, subVars, localVars>>

\* The settlement appends the message under its preview's id.
SettleTurn(t) ==
    /\ turn.thread = t /\ turn.thinking = 0 /\ turn.message # 0
    /\ AppendInTx(<<PreviewRow(turn.message)>>)
    /\ turn' = NoTurn
    /\ UNCHANGED <<exists, owed, previews, listener, ready, late, breaks, unbroken, pc, subVars, localVars>>

\* A turn that fails or loses its lease lands nothing of what it previewed.
FailTurn(t) ==
    /\ turn # NoTurn /\ turn.thread = t
    /\ turn' = NoTurn
    /\ UNCHANGED <<log, exists, owed, previews, brokerVars, pc, subVars, localVars>>

Ending(type, on) == [type |-> type, thread |-> on, id |-> 0, of |-> "none", at |-> 0, n |-> 0]

\* deleteSession: its rows cascade away.  It is refused while the session runs,
\* but a brain that an interrupt took the turn from may be streaming still.  A
\* child that was live ends first, on its own stream and on the session's.
DeleteSession(child) ==
    /\ exists
    /\ exists' = FALSE
    /\ owed' = (IF child = Primary THEN <<>>
                ELSE <<Ending("thread_terminated", child), Ending("thread_terminated", Primary)>>)
               \o <<Ending("session.deleted", Primary)>>
    /\ UNCHANGED <<log, turn, previews, brokerVars, pc, subVars, localVars>>

\* Each broadcast follows the commit on its own and may fail.
Broadcast(fails) ==
    /\ owed # <<>>
    /\ owed' = Tail(owed)
    /\ IF fails THEN wire' = wire ELSE publishFrame(Head(owed))
    /\ UNCHANGED <<log, exists, turn, previews, listener, ready, late, breaks, unbroken, pc, subVars, localVars>>

-----------------------------------------------------------------------------
(* The broker *)

Members == {s \in Streams : pc[s] \in Subscribed}

Wake(subs) == wake' = [s \in Streams |-> wake[s] \/ s \in subs]

\* One subscriber's share of a frame: its surface's frames and the session's
\* end; a full channel drops the frame, and a dropped delta the deltas after it.
Takes(s, f) == /\ s \in Members
               /\ f.thread = Surface[s] \/ f.type = "session.deleted"
               /\ ~(f.type = "event_delta" /\ lossyDeltas[s])

\* Mutant: a full channel drops its delta and takes the ones after it.
ForgetsTheDrop(f) ==
    /\ frames' = [s \in Streams |-> IF Takes(s, f) /\ Len(frames[s]) < FrameCap
                                    THEN Append(frames[s], f) ELSE frames[s]]
    /\ UNCHANGED lossyDeltas

Deliver(f) ==
    /\ frames' = [s \in Streams |-> IF Takes(s, f) /\ Len(frames[s]) < FrameCap
                                    THEN Append(frames[s], f) ELSE frames[s]]
    /\ lossyDeltas' = [s \in Streams |->
           IF s \in Members /\ f.thread = Surface[s]
           THEN CASE f.type = "event_start" -> FALSE
                  [] f.type = "event_delta" -> lossyDeltas[s] \/ Len(frames[s]) = FrameCap
                  [] OTHER -> lossyDeltas[s]
           ELSE lossyDeltas[s]]

dispatch(n) == IF n.kind = "frame" THEN Deliver(n.frame) /\ UNCHANGED wake
               ELSE Wake(Members) /\ UNCHANGED <<frames, lossyDeltas>>

\* Mutant: a broken connection ends the goroutine.
LowerOnce ==
    /\ listener = "down" /\ breaks = 0
    /\ listener' = "dialing" /\ ready' = FALSE
    /\ UNCHANGED <<logVars, wire, late, breaks, unbroken, pc, subVars, localVars>>

\* setReady(false) at the head of the loop.
Lower ==
    /\ listener = "down"
    /\ listener' = "dialing" /\ ready' = FALSE
    /\ UNCHANGED <<logVars, wire, late, breaks, unbroken, pc, subVars, localVars>>

\* Acquire and LISTEN; a failure of either is tried again.
Listen ==
    /\ listener = "dialing"
    /\ listener' = "armed"
    /\ UNCHANGED <<logVars, ready, wire, late, breaks, unbroken, pc, subVars, localVars>>

Raise ==
    /\ listener = "armed"
    /\ listener' = "waking" /\ ready' = TRUE
    /\ UNCHANGED <<logVars, wire, late, breaks, unbroken, pc, subVars, localVars>>

\* Mutant: the loop goes on to its notifications without waking anyone.
NoHealing ==
    /\ listener = "waking"
    /\ listener' = "on"
    /\ UNCHANGED <<logVars, ready, wire, late, breaks, unbroken, pc, subVars, localVars>>

wakeAll ==
    /\ listener = "waking"
    /\ listener' = "on"
    /\ Wake(Members)
    /\ UNCHANGED <<logVars, ready, wire, late, breaks, unbroken, pc, frames, lossyDeltas, localVars>>

Dispatch ==
    /\ listener = "on" /\ wire # <<>>
    /\ dispatch(Head(wire))
    /\ wire' = Tail(wire)
    /\ UNCHANGED <<logVars, listener, ready, late, breaks, unbroken, pc, localVars>>

\* The connection breaks with whatever it had not delivered.
Break ==
    /\ listener = "on" /\ breaks < MaxBreaks
    /\ breaks' = breaks + 1 /\ unbroken' = FALSE
    /\ listener' = "down" /\ wire' = <<>>
    /\ UNCHANGED <<logVars, ready, late, pc, subVars, localVars>>

\* A listener cancelled with a notification in hand still dispatches it, and one
\* cancelled on its way to wakeAll still wakes.  Its setReady does nothing.
DispatchLate ==
    /\ late # <<>>
    /\ dispatch(Head(late))
    /\ late' = Tail(late)
    /\ UNCHANGED <<logVars, listener, ready, wire, breaks, unbroken, pc, localVars>>

-----------------------------------------------------------------------------
(* The stream handler *)

Goto(s, at) == pc' = [pc EXCEPT ![s] = at]

InHand == CASE listener = "on" /\ wire # <<>> -> {<<>>, <<Head(wire)>>}
            [] listener \in {"armed", "waking"} -> {<<>>, <<[kind |-> "all", frame |-> NoFrame]>>}
            [] OTHER -> {<<>>}

\* Subscription.Close, deferred by the handler: the last one out cancels the
\* listener and leaves the gate as it stands.  The subscription and the
\* handler's locals go with it.
Close(s) ==
    /\ Goto(s, "closed")
    /\ IF Members = {s}
       THEN /\ listener' = "off" /\ wire' = <<>>
            /\ \E n \in InHand : late' = late \o n /\ unbroken' = (unbroken /\ n = <<>>)
            /\ UNCHANGED <<ready, breaks>>
       ELSE UNCHANGED brokerVars
    /\ wake' = [wake EXCEPT ![s] = FALSE] /\ frames' = [frames EXCEPT ![s] = <<>>]
    /\ lossyDeltas' = [lossyDeltas EXCEPT ![s] = FALSE]
    /\ lastSeq' = [lastSeq EXCEPT ![s] = 0] /\ upTo' = [upTo EXCEPT ![s] = 0]
    /\ wrote' = [wrote EXCEPT ![s] = FALSE] /\ started' = [started EXCEPT ![s] = {}]
    /\ from' = [from EXCEPT ![s] = 0]
    /\ tail' = [tail EXCEPT ![s] = <<>>] /\ shown' = [shown EXCEPT ![s] = <<>>]

\* The 404 and the view, before the subscription.
Resolve(s) ==
    /\ pc[s] = "idle"
    /\ Goto(s, IF exists THEN "resolved" ELSE "closed")
    /\ UNCHANGED <<logVars, brokerVars, subVars, localVars>>

\* SubscribeThread: the first subscriber starts a listener on a fresh gate.
Subscribe(s) ==
    /\ pc[s] = "resolved"
    /\ Goto(s, "gate")
    /\ IF listener = "off" THEN listener' = "dialing" /\ ready' = FALSE
                           ELSE UNCHANGED <<listener, ready>>
    /\ UNCHANGED <<logVars, wire, late, breaks, unbroken, subVars, localVars>>

Ready(s) ==
    /\ pc[s] = "gate" /\ ready
    /\ Goto(s, "snapshot")
    /\ UNCHANGED <<logVars, brokerVars, subVars, localVars>>

Snapshot(s) ==
    /\ pc[s] = "snapshot"
    /\ Goto(s, "select")
    /\ lastSeq' = [lastSeq EXCEPT ![s] = MaxSeq]
    /\ from' = [from EXCEPT ![s] = MaxSeq]
    /\ UNCHANGED <<logVars, brokerVars, subVars, upTo, wrote, started, tail, shown>>

\* A start is forwarded to who asked for its type, a delta where its start was.
Forwards(s, f) ==
    CASE f.type = "event_start" -> f.of \in OptIn[s]
      [] f.type = "event_delta" -> f.id \in started[s] /\ "message" \in OptIn[s]
      [] OTHER -> TRUE

\* One frame of the channel.
processFrame(s) ==
    LET f == Head(frames[s]) IN
    /\ pc[s] \in {"select", "drain"} /\ frames[s] # <<>>
    /\ f.type # "session.deleted"
    /\ frames' = [frames EXCEPT ![s] = Tail(@)]
    /\ started' = [started EXCEPT ![s] = IF f.type = "event_start" THEN @ \cup {f.id} ELSE @]
    /\ shown' = [shown EXCEPT ![s] = IF Forwards(s, f) THEN Append(@, f) ELSE @]
    /\ UNCHANGED <<logVars, brokerVars, pc, wake, lossyDeltas, lastSeq, upTo, wrote, from, tail>>

\* The frame that ends the stream.
SeeDeleted(s) ==
    /\ pc[s] \in {"select", "drain"} /\ frames[s] # <<>>
    /\ Head(frames[s]).type = "session.deleted"
    /\ Close(s)
    /\ UNCHANGED logVars

TakeWake(s) ==
    /\ pc[s] = "select" /\ wake[s]
    /\ wake' = [wake EXCEPT ![s] = FALSE]
    /\ Goto(s, "drain")
    /\ UNCHANGED <<logVars, brokerVars, frames, lossyDeltas, localVars>>

Drained(s) ==
    /\ pc[s] = "drain" /\ frames[s] = <<>>
    /\ Goto(s, "mark")
    /\ UNCHANGED <<logVars, brokerVars, subVars, localVars>>

\* The log's high-water mark, read before the rows.
Mark(s) ==
    /\ pc[s] = "mark"
    /\ Goto(s, "page")
    /\ upTo' = [upTo EXCEPT ![s] = MaxSeq]
    /\ wrote' = [wrote EXCEPT ![s] = FALSE]
    /\ UNCHANGED <<logVars, brokerVars, subVars, lastSeq, started, from, tail, shown>>

\* Mutant: every page moves the tail to the mark.
AdvanceAtOnce(s, seen, last) == IF upTo[s] > seen THEN upTo[s] ELSE seen

\* The tail after a page whose last row is seen.
Advance(s, seen, last) == IF last /\ upTo[s] > seen THEN upTo[s] ELSE seen

Ids(evs) == {log[evs[i]].preview : i \in DOMAIN evs}

\* One page of rows.  A short one is the last: the tail moves to the mark, over
\* the rows its surface does not show, and a wake that wrote nothing looks
\* whether the session is gone.
Page(s) ==
    /\ pc[s] = "page"
    /\ \E n \in 0 .. WakeBatch : \E evs \in [1 .. n -> 1 .. MaxSeq] :
           /\ ListAfter(s, lastSeq[s], evs)
           /\ tail' = [tail EXCEPT ![s] = @ \o evs]
           /\ started' = [started EXCEPT ![s] = @ \ Ids(evs)]
           /\ wrote' = [wrote EXCEPT ![s] = n = WakeBatch /\ (@ \/ n > 0)]
           /\ upTo' = [upTo EXCEPT ![s] = IF n < WakeBatch THEN 0 ELSE @]
           /\ \E seen \in 0 .. Len(log) :
                  /\ seen = IF n = 0 THEN lastSeq[s] ELSE evs[n]
                  /\ lastSeq' = [lastSeq EXCEPT ![s] = Advance(s, seen, n < WakeBatch)]
           /\ Goto(s, IF n = WakeBatch THEN "page" ELSE IF wrote[s] \/ n > 0 THEN "select" ELSE "gone")
    /\ UNCHANGED <<logVars, brokerVars, subVars, from, shown>>

\* sessionGone, after an empty wake and at each ping: the row's absence ends
\* the stream whose session.deleted frame was lost.
sessionGone(s) ==
    /\ pc[s] \in {"gone", "select"}
    /\ IF exists THEN Goto(s, "select") /\ UNCHANGED <<brokerVars, subVars, localVars>> ELSE Close(s)
    /\ UNCHANGED logVars

\* A look that fails is not a session that is gone.
LookFails(s) ==
    /\ pc[s] = "gone"
    /\ Goto(s, "select")
    /\ UNCHANGED <<logVars, brokerVars, subVars, localVars>>

\* A statement fails: an error response, or an error frame on an open stream.
DatabaseFails(s) ==
    /\ pc[s] \in {"snapshot", "mark", "page"}
    /\ Close(s)
    /\ UNCHANGED logVars

\* ctx.Done: the client went away.
Disconnect(s) ==
    /\ s \in Members
    /\ Close(s)
    /\ UNCHANGED logVars

-----------------------------------------------------------------------------
Listening == Lower \/ Listen \/ Raise \/ wakeAll \/ Dispatch

\* What the handler does of itself; a ping needs the ticker, the rest does not.
Serve(s) == \/ Resolve(s) \/ Subscribe(s) \/ Ready(s) \/ Snapshot(s) \/ processFrame(s) \/ SeeDeleted(s)
            \/ TakeWake(s) \/ Drained(s) \/ Mark(s) \/ Page(s)

Produce == \/ \E r \in Rows : Commit(<<r>>)
           \/ \E r \in Rows, q \in Rows : Commit(<<r, q>>)
           \/ \E t \in Turns : \/ OpenThinking(t) \/ CloseThinking(t) \/ OpenMessage(t)
                               \/ TextDelta(t) \/ SettleTurn(t) \/ FailTurn(t)

Next == \/ Produce
        \/ \E t \in Threads : DeleteSession(t)
        \/ \E fails \in BOOLEAN : Broadcast(fails)
        \/ Listening \/ Break \/ DispatchLate
        \/ \E s \in Streams : Serve(s) \/ sessionGone(s) \/ LookFails(s) \/ DatabaseFails(s) \/ Disconnect(s)

Spec == Init /\ [][Next]_vars

\* The listener and each handler go on, and the ping ticker fires again and again.
FairSpec == Spec /\ WF_vars(Listening)
                 /\ \A s \in Streams : WF_vars(Serve(s)) /\ WF_vars(sessionGone(s))

-----------------------------------------------------------------------------
(* Properties *)

\* The rows a stream's surface shows between where its tail began and lastSeq,
\* and those it has written.
Due(s) == {q \in from[s] + 1 .. lastSeq[s] : Shows(s, log[q])}
Written(s) == {tail[s][i] : i \in DOMAIN tail[s]}

\* The rows a stream of streamEvents has written are exactly those due, each
\* once and in seq order, whatever commits between its wake, its mark and its
\* pages.  A delete may only cut them short.
ExactTail ==
    \A s \in Streams :
        /\ \A i, j \in DOMAIN tail[s] : i < j => tail[s][i] < tail[s][j]
        /\ Written(s) \subseteq Due(s)
        /\ \A q \in Due(s) \ Written(s) : ~exists /\ \A p \in Written(s) : p < q

Healing == listener \in {"down", "dialing", "armed", "waking"}
WakeQueued == \E i \in DOMAIN wire : wire[i].kind = "events"

\* A stream that waits in its select with rows committed past its tail has a
\* wake, has one coming on the connection, or the listener is about to wake
\* every subscriber: no broken connection, late subscriber or coalesced wake
\* leaves a row that nothing announces.
NoLostWake ==
    \A s \in Streams :
        pc[s] = "select" /\ exists /\ Len(log) > lastSeq[s] => wake[s] \/ WakeQueued \/ Healing

Positions(s, type, id) == {i \in DOMAIN shown[s] : shown[s][i].type = type /\ shown[s][i].id = id}

\* While connections hold, and none is given up with a notification in hand, no
\* delta is missing among those a client was sent of a message between two
\* event_starts of its surface: what a full channel drops takes with it the rest
\* (lossyDeltas), however many blocks that rest is in.
CleanPrefix ==
    unbroken =>
        \A s \in Streams : \A d \in DOMAIN shown[s] :
            shown[s][d].type = "event_delta" /\ shown[s][d].n > 1 =>
                \E i \in Positions(s, "event_delta", shown[s][d].id) :
                    i < d /\ shown[s][i] = [shown[s][d] EXCEPT !.at = @ - 1, !.n = @ - 1]

\* What broker.go says of a whole preview, under the same condition: "partial
\* text is a prefix, never holed".  A thinking block between two stretches of a
\* message's text starts a preview of its own, and its event_start clears the
\* message's lossyDeltas: the later stretch is sent though the earlier has a hole.
NeverHoled ==
    unbroken =>
        \A s \in Streams : \A d \in DOMAIN shown[s] :
            shown[s][d].type = "event_delta" /\ shown[s][d].at > 1 =>
                \E i \in Positions(s, "event_delta", shown[s][d].id) :
                    i < d /\ shown[s][i].at = shown[s][d].at - 1

Behind(s) == pc[s] \in Subscribed /\ exists /\ \E q \in 1 .. Len(log) :
                 q > lastSeq[s] /\ Shows(s, log[q])

\* A row its surface shows is written to every stream open when it commits,
\* unless the stream ends first.
CatchesUp == \A s \in Streams : Behind(s) ~> ~Behind(s)

\* Every stream of a deleted session ends, its session.deleted frame lost or not.
DeletedStreamEnds == \A s \in Streams : (~exists /\ pc[s] \in Subscribed) ~> pc[s] = "closed"

\* Every open stream gets what its surface shows, and ends with its session.
StreamsCatchUp == CatchesUp /\ DeletedStreamEnds
==========================================================================
