--------------------------- MODULE GatewayStream ---------------------------
(***************************************************************************)
(* One inference call of the model gateway (internal/modelgateway): the    *)
(* attempts serve makes on the deployments of an alias, and the relay of   *)
(* the one answer it commits to.  An upstream speaks Anthropic Messages,   *)
(* OpenAI chat or Gemini; the caller reads Messages, chat or Responses.    *)
(* Where the two differ a converter rewrites the stream event by event     *)
(* while the upstream may stop, break, err or send what has no counterpart *)
(* at any point, and while the caller may leave.                           *)
(*                                                                         *)
(* What the caller reads is kept as the state of a reader of its protocol  *)
(* (got), fed one event at a time.                                         *)
(***************************************************************************)
EXTENDS Integers, Sequences, FiniteSets, SequencesExt

CONSTANTS
    Calls,          \* the calls to serve: records of the fields of gcall
    MaxAttempts,    \* config: attempts on one deployment in one call
    MaxEvents,      \* upstream events read in one stream
    MaxHeld         \* keep-alives held back before the first event

VARIABLES
    gcall,      \* the call: surface, deployments to try, their protocols
    gphase,     \* "new", "loop", "sent", "head", "relay" or "over"
    gloop,      \* serve's retry loop: i, tried, n, strip, last
    gconv,      \* convert.Stream / GeminiStream of the committed attempt
    gresp,      \* convert.ResponsesStream wrapped around it
    gout,       \* the outcome to record, and what the upstream reported
    gcaller     \* the caller's connection and what its reader has read

gvars == <<gcall, gphase, gloop, gconv, gresp, gout, gcaller>>

AttemptedOnes == UNION {ToSet(c.attempts) : c \in Calls}
Dep == gcall.attempts[gloop.i]
Up == gcall.protocol[Dep]
Converts == gcall.proto # Up
\* How the committed answer reaches the caller.
Lane == IF Converts THEN "converted" ELSE gcall.proto

-----------------------------------------------------------------------------
(* The events a caller reads, and a reader of its protocol.                *)

Ev(e, i, t) == [e |-> e, i |-> i, t |-> t]

NewReader == [begun |-> FALSE, open |-> {}, n |-> 0, end |-> "", ok |-> TRUE,
              unfinished |-> {}]

\* A reader of block-structured streams: one start, blocks numbered in
\* order, deltas and stops only for an open block, one end.  A Messages
\* stream has one block open at a time; a Responses stream may have more.
Reads(g, ev) ==
    LET good ==
          /\ g.end = ""
          /\ CASE ev.e = "start" -> ~g.begun
               [] ev.e = "block" ->
                    /\ g.begun /\ ev.i = g.n
                    /\ gcall.resp \/ g.open = {}
               [] ev.e = "delta" -> <<ev.i, ev.t>> \in g.open
               [] ev.e = "stop"  -> <<ev.i, ev.t>> \in g.open
               [] ev.e = "end"   -> g.begun /\ g.open = {}
               [] OTHER -> TRUE
    IN  [g EXCEPT !.ok = @ /\ good,
                  !.begun = @ \/ ev.e = "start",
                  !.open = CASE ev.e = "block" -> @ \cup {<<ev.i, ev.t>>}
                             [] ev.e = "stop" -> @ \ {<<ev.i, ev.t>>}
                             [] OTHER -> @,
                  !.n = IF ev.e = "block" THEN @ + 1 ELSE @,
                  !.end = CASE ev.e = "end" -> "complete"
                            [] ev.e = "error" -> "error"
                            [] OTHER -> @]

\* A reader of a stream relayed as it came: it only knows what ends one.
ReadsRaw(g, ev) ==
    [g EXCEPT !.ok = @ /\ g.end = "",
              !.end = CASE ev.e = "end" -> "complete"
                        [] ev.e = "error" -> "error"
                        [] OTHER -> @,
              !.unfinished = CASE ev.e = "gen" -> @ \cup {ev.i}
                               [] ev.e = "finish" -> @ \ {ev.i}
                               [] OTHER -> @]

Strict == gcall.resp \/ Converts

\* callerWriter.write: nothing reaches a caller that left or was cut off.
Sent(who, evs) ==
    IF who.gone THEN who
    ELSE [who EXCEPT !.got = IF Strict THEN FoldLeft(Reads, @, evs)
                             ELSE FoldLeft(ReadsRaw, @, evs)]

-----------------------------------------------------------------------------
(* convert.Stream: OpenAI chat chunks to Messages events.  A step takes    *)
(* and returns [c, out, err]: the converter, the events written, an error. *)

NewStream == [started |-> FALSE, finished |-> FALSE, open |-> "", next |-> 0,
              call |-> 0, id |-> "", args |-> FALSE, obj |-> FALSE,
              calls |-> {}, leading |-> TRUE, blocked |-> FALSE,
              answered |-> FALSE, failed |-> FALSE,
              known |-> {}, over |-> {}]

Emit(a, ev) == [a EXCEPT !.out = Append(@, ev)]

begin(a) ==
    IF a.c.started THEN a
    ELSE Emit([a EXCEPT !.c.started = TRUE], Ev("start", 0, ""))

delta(a) == Emit(a, Ev("delta", a.c.next, a.c.open))

\* A thinking block is signed as it closes.
close(a) ==
    IF a.c.open = "" THEN a
    ELSE LET signed == IF a.c.open = "thinking" THEN delta(a) ELSE a
         IN  [Emit(signed, Ev("stop", a.c.next, a.c.open))
                EXCEPT !.c.open = "", !.c.next = @ + 1]

into(a, typ) ==
    IF a.c.open = typ /\ typ # "tool_use" THEN a
    ELSE LET b == close(a)
         IN  Emit([b EXCEPT !.c.open = typ], Ev("block", b.c.next, typ))

Failing(a) == [a EXCEPT !.err = TRUE]

\* A tool call's fragments come in a row, under one id and name, and as
\* one JSON object or as pieces of text, never both.
toolCall(a, p) ==
    LET continues == a.c.open = "tool_use" /\ a.c.call = p.idx
        b == IF continues THEN a
             ELSE [into(a, "tool_use") EXCEPT
                     !.c.call = p.idx, !.c.id = p.id, !.c.args = FALSE,
                     !.c.obj = FALSE, !.c.calls = @ \cup {p.idx}]
    IN  CASE continues /\ p.id # "" /\ p.id # a.c.id -> Failing(a)
          [] ~continues /\ p.idx \in a.c.calls -> Failing(a)
          [] p.args = "" -> b
          [] b.c.obj \/ (p.args = "object" /\ b.c.args) -> Failing(b)
          [] OTHER -> delta([b EXCEPT !.c.args = TRUE,
                                      !.c.obj = p.args = "object"])

choicePart(a, p) ==
    CASE a.err -> a
      [] p.t = "bad" -> Failing(a)
      [] p.t = "tool_use" -> toolCall(a, p)
      [] OTHER -> delta(into(a, p.t))

\* Mutant: what is generated after a finish leaves the stream finished.
choiceStaysFinished(a, chunk) ==
    LET b == FoldLeft(choicePart, a, chunk.parts)
    IN  IF chunk.fin = "" THEN b
        ELSE [close(b) EXCEPT !.c.finished = TRUE]

choice(a, chunk) ==
    LET b == FoldLeft(choicePart, a, chunk.parts)
        d == IF chunk.parts = <<>> THEN b
             ELSE [b EXCEPT !.c.finished = FALSE]
    IN  IF chunk.fin = "" THEN d
        ELSE [close(d) EXCEPT !.c.finished = TRUE]

Chunk(c, chunk) == choice(begin([c |-> c, out |-> <<>>, err |-> FALSE]), chunk)

\* Stream.End and GeminiStream.End: close what is open, then the end.
End(c) ==
    Emit(close(begin([c |-> c, out |-> <<>>, err |-> FALSE])), Ev("end", 0, ""))

-----------------------------------------------------------------------------
(* GeminiStream: thoughts count only before the answer proper; a call in   *)
(* front may carry the signature of thinking that was never shown.         *)

geminiPart(a, p) ==
    LET answer == [a EXCEPT !.c.leading = FALSE]
        shown == IF a.c.leading /\ p.id # "" THEN into(answer, "thinking")
                 ELSE answer
    IN  CASE a.err -> a
          [] p.t = "bad" -> Failing(a)
          [] p.t = "thinking" ->
               IF a.c.leading THEN delta(into(a, "thinking")) ELSE a
          [] p.t = "text" -> delta(into(answer, "text"))
          [] OTHER -> LET b == into(shown, "tool_use")
                      IN  IF p.args = "" THEN b ELSE delta(b)

GeminiChunk(c, chunk) ==
    LET a == begin([c |-> c, out |-> <<>>, err |-> FALSE])
        b == FoldLeft(geminiPart, a, chunk.parts)
        d == IF Len(b.out) = Len(a.out) THEN b
             ELSE [b EXCEPT !.c.answered = TRUE, !.c.blocked = FALSE,
                            !.c.finished = FALSE]
    IN  CASE chunk.fin = "blocked" ->
               IF c.answered THEN a
               ELSE [a EXCEPT !.c.blocked = TRUE, !.c.finished = TRUE]
          [] chunk.fin = "" \/ d.err -> d
          [] chunk.fin = "bad" -> Failing(d)
          [] OTHER -> [close(d) EXCEPT !.c.finished = TRUE, !.c.leading = FALSE]

-----------------------------------------------------------------------------
(* convert.ResponsesStream: Messages events to Responses events.  The last *)
(* item's end is held until the next block or the end says its status.     *)

NewResponsesStream == [begun |-> FALSE, open |-> {}, n |-> 0, held |-> <<>>,
                       done |-> FALSE, failed |-> FALSE]

Write(a, evs) == [a EXCEPT !.out = @ \o evs]

respBegin(a) ==
    IF a.r.begun THEN a
    ELSE Write([a EXCEPT !.r.begun = TRUE], <<Ev("start", 0, "")>>)

release(a) == Write([a EXCEPT !.r.held = <<>>], a.r.held)

Failure(a) ==
    IF a.r.done THEN a
    ELSE Write([release(respBegin(a)) EXCEPT !.r.done = TRUE],
               <<Ev("error", 0, "")>>)

\* start: a block opens an item under the next output index.
startItem(a, ev) ==
    LET b == release(respBegin(a))
    IN  IF (\E it \in a.r.open : it.i = ev.i) \/ ev.t = "other" THEN Failing(b)
        ELSE Write([b EXCEPT !.r.open = @ \cup {[i |-> ev.i, t |-> ev.t,
                                                n |-> a.r.n]},
                             !.r.n = @ + 1],
                   <<Ev("block", a.r.n, ev.t)>>)

\* finish: an item that ends behind a later one is written at once, the
\* latest is held.
finishItem(a, it) ==
    LET b == [a EXCEPT !.r.open = @ \ {it}]
        ended == Ev("stop", it.n, it.t)
    IN  IF a.r.held # <<>> /\ a.r.held[1].i > it.n THEN Write(b, <<ended>>)
        ELSE [release(b) EXCEPT !.r.held = <<ended>>]

\* ResponsesStream.Event on one Messages event.
RespEvent(a, ev) ==
    LET its == {it \in a.r.open : it.i = ev.i}
        it == CHOOSE x \in its : TRUE
        stop == Write([release(respBegin(a)) EXCEPT !.r.done = TRUE],
                      <<Ev("end", 0, "")>>)
    IN  CASE a.r.done -> a
          [] ev.e = "start" -> respBegin(a)
          [] ev.e = "block" -> startItem(a, ev)
          [] ev.e \in {"delta", "stop"} /\ its = {} -> Failing(a)
          [] ev.e = "delta" -> IF it.t = ev.t
                               THEN Write(a, <<Ev("delta", it.n, it.t)>>)
                               ELSE Failing(a)
          [] ev.e = "stop" -> finishItem(a, it)
          [] ev.e = "end" -> IF a.r.open # {} THEN Failing(a) ELSE stop
          [] ev.e = "error" -> Failure(a)
          [] OTHER -> a

\* responsesStream.convert: the inner proto's output, up to a failure.
convertOne(a, ev) ==
    LET b == RespEvent(a, ev)
    IN  CASE a.r.failed -> a
          [] b.err -> [Failure([b EXCEPT !.err = FALSE]) EXCEPT !.r.failed = TRUE]
          [] OTHER -> b

convert(r, evs) == FoldLeft(convertOne, [r |-> r, out |-> <<>>, err |-> FALSE], evs)

-----------------------------------------------------------------------------
(* What an upstream may send.                                              *)

Part(t, idx, id, args) == [t |-> t, idx |-> idx, id |-> id, args |-> args]
Chunk0 == [k |-> "chunk", name |-> "", i |-> 0, t |-> "", parts |-> <<>>,
           fin |-> "", usage |-> FALSE]
Kind(k) == [Chunk0 EXCEPT !.k = k]
InParts(ps) == [Chunk0 EXCEPT !.parts = ps]
Thought == Part("thinking", 0, "", "")
Words == Part("text", 0, "", "")
Bad == Part("bad", 0, "", "")
Common == {Kind("alive"), Kind("error"), Kind("junk"), Kind("done"),
           [Chunk0 EXCEPT !.usage = TRUE], InParts(<<Words>>), InParts(<<Thought>>),
           InParts(<<Words, Bad>>), [InParts(<<Words>>) EXCEPT !.fin = "stop"],
           [Chunk0 EXCEPT !.fin = "stop", !.usage = TRUE]}
ToolParts(idx) ==
    {Part("tool_use", idx, "a", ""), Part("tool_use", idx, "", "text"),
     Part("tool_use", idx, "b", "object")}
OpenAIEvents ==
    Common \cup {InParts(<<p>>) : p \in ToolParts(0) \cup ToolParts(1)}
GeminiEvents ==
    Common \cup {InParts(<<p>>) : p \in ToolParts(0)}
           \cup {[Chunk0 EXCEPT !.fin = f] : f \in {"blocked", "bad"}}
ChatEvents ==
    {Kind("alive"), Kind("error"), Kind("junk"), Kind("done"),
     [Chunk0 EXCEPT !.usage = TRUE, !.i = -1]}
      \cup {[Chunk0 EXCEPT !.i = i, !.t = t, !.fin = f] :
              i \in {0, 1, 9}, t \in {"", "text"}, f \in {"", "stop"}}
Named(name, i, t) == [Kind("event") EXCEPT !.name = name, !.i = i, !.t = t]
AnthropicEvents ==
    {Kind("alive"), Kind("error"), Named("end", 0, ""),
     [Named("start", 0, "") EXCEPT !.usage = TRUE],
     [Named("mdelta", 0, "") EXCEPT !.usage = TRUE], Named("block", 0, "other")}
      \cup {Named(n, i, t) : n \in {"block", "delta"}, i \in {0, 1},
                             t \in {"text", "tool_use"}}
      \cup {Named("stop", i, "text") : i \in {0, 1}}
Events ==
    CASE Up = "anthropic" -> AnthropicEvents
      [] Up = "gemini" -> GeminiEvents
      [] Converts -> OpenAIEvents
      [] OTHER -> ChatEvents

\* Whether an event says the answer is complete, or goes on with it.
Completes(e) ==
    \/ e.k = "done" \/ e.name = "end" \/ e.fin \in {"stop", "blocked"}
Continues(e) ==
    \E p \in ToSet(e.parts) : ~(Up = "gemini" /\ p.t = "thinking")

-----------------------------------------------------------------------------
(* The stream protocols: event(e) is [c, out, last, usage], the converter, *)
(* what to write, whether the stream is over, whether usage was read.      *)

Ping == <<Ev("ping", 0, "")>>
Error == <<Ev("error", 0, "")>>
Step(c, out, last, usage) == [c |-> c, out |-> out, last |-> last, usage |-> usage]

messagesEvent(c, e) ==
    CASE e.k = "alive" -> Step(c, Ping, FALSE, FALSE)
      [] e.k = "error" -> Step(c, Error, TRUE, FALSE)
      [] OTHER -> Step(c, <<Ev(e.name, e.i, e.t)>>, e.name = "end", e.usage)

\* An index that cannot be read (9) leaves the answer's end unknown.
chatEvent(c, e) ==
    LET stays == e.i \in c.over /\ e.t = ""
        over == IF e.fin # "" \/ stays THEN c.over \cup {e.i} ELSE c.over \ {e.i}
        said == (IF e.t # "" THEN <<Ev("gen", e.i, "")>> ELSE <<>>)
                  \o (IF e.fin # "" THEN <<Ev("finish", e.i, "")>> ELSE <<>>)
    IN  CASE e.k = "alive" -> Step(c, Ping, FALSE, FALSE)
          [] e.k = "done" -> Step(c, <<Ev("end", 0, "")>>, TRUE, FALSE)
          [] e.k \in {"junk", "error"} -> Step(c, Error, TRUE, FALSE)
          [] e.i = -1 -> Step(c, <<>>, FALSE, e.usage)
          [] e.i = 9 -> Step([c EXCEPT !.known = @ \cup {9}], said, FALSE, FALSE)
          [] OTHER -> Step([c EXCEPT !.known = @ \cup {e.i}, !.over = over],
                           said, FALSE, FALSE)

\* A failed conversion has told the caller so; what follows is read only
\* for the usage it reports.
Written(a, last, usage) ==
    IF a.err THEN Step([a.c EXCEPT !.failed = TRUE], Error, FALSE, usage)
    ELSE Step(a.c, a.out, last, usage)

convEvent(c, e) ==
    CASE c.failed -> Step(c, <<>>, e.k \in {"done", "error", "junk"},
                          e.k = "chunk" /\ e.usage)
      [] e.k = "alive" -> Step(c, Ping, FALSE, FALSE)
      [] e.k = "done" -> Written(End(c), TRUE, FALSE)
      [] e.k \in {"junk", "error"} -> Step(c, Error, TRUE, FALSE)
      [] OTHER -> Written(IF Up = "gemini" THEN GeminiChunk(c, e) ELSE Chunk(c, e),
                          FALSE, e.usage)

innerEvent(c, e) ==
    CASE Lane = "converted" -> convEvent(c, e)
      [] Lane = "anthropic" -> messagesEvent(c, e)
      [] OTHER -> chatEvent(c, e)

\* Why the stream's end is not the answer's: ended().
Unended ==
    CASE gresp.failed -> FALSE
      [] Lane = "converted" -> ~gconv.failed /\ ~gconv.finished
      [] Lane = "anthropic" -> TRUE
      [] OTHER -> gconv.known = {} \/ ~(gconv.known \subseteq gconv.over)

closing == IF Lane = "converted" THEN End(gconv).out ELSE <<>>

draining(c, r) == c.failed \/ r.failed

-----------------------------------------------------------------------------
(* relayStream, from the first event on.                                   *)

\* relay: one event through the proto to the caller; once the conversion
\* has failed nothing more is written.
Relayed(who, e) ==
    \E step \in {innerEvent(gconv, e)} :
    \E resp \in {IF gcall.resp THEN convert(gresp, step.out)
                 ELSE [r |-> gresp, out |-> step.out]} :
        /\ gconv' = step.c
        /\ gresp' = resp.r
        /\ gcaller' = [Sent(who, resp.out) EXCEPT !.gone = @ \/ draining(step.c, resp.r)]
        /\ gout' = [gout EXCEPT
                      !.read = @ + 1,
                      !.reported = IF e.usage THEN @ + 1 ELSE @,
                      !.tokens = IF step.usage THEN gout.reported + 1 ELSE @,
                      !.complete = Completes(e) \/ (@ /\ ~Continues(e))]
        /\ gphase' = IF step.last THEN "over" ELSE "relay"
        /\ UNCHANGED <<gcall, gloop>>

\* attempt commits: the status goes out, with the keep-alives held so far.
Commit(e) ==
    LET opened == [gcaller EXCEPT !.answers = @ + 1]
    IN  Relayed(IF gloop.held = 0 THEN opened ELSE Sent(opened, Ping), e)

Relay(e) ==
    /\ gphase = "relay" /\ gout.read < MaxEvents
    /\ Relayed(gcaller, e)

\* The upstream ends, breaks off, tears its last event or stalls.
Ended ==
    /\ gphase = "relay"
    /\ LET raw == IF Unended THEN Error ELSE closing
           out == CASE ~gcall.resp -> raw
                    [] Unended -> Failure([r |-> gresp, out |-> <<>>]).out
                    [] OTHER -> convert(gresp, closing).out
       IN  gcaller' = Sent(gcaller, out)
    /\ gphase' = "over"
    /\ UNCHANGED <<gcall, gloop, gconv, gresp, gout>>

\* pingWhileIdle: only for the protocols that have a ping of their own.
PingWhileIdle ==
    /\ gphase = "relay" /\ Strict
    /\ gcaller' = Sent(gcaller, Ping)
    /\ UNCHANGED <<gcall, gphase, gloop, gconv, gresp, gout>>

-----------------------------------------------------------------------------
(* serve: the attempts.                                                    *)

Answer(phase) ==
    /\ gcaller' = [gcaller EXCEPT !.answers = @ + 1]
    /\ gphase' = phase

\* What convert can make no request of is skipped; an alias with nothing
\* left refuses the call.  A request that fails validation, has no alias it
\* may use or passes a limit is refused before any attempt.
Serve ==
    /\ gphase = "new"
    /\ LET kept == SelectSeq(gcall.attempts,
                     LAMBDA d : gcall.protocol[d] = gcall.proto
                                \/ gcall.protocol[d] \notin gcall.refused)
       IN  \/ /\ gcall.valid /\ kept # <<>>
              /\ gcall' = [gcall EXCEPT !.attempts = kept]
              /\ gphase' = "loop"
              /\ UNCHANGED gcaller
           \/ /\ ~gcall.valid \/ kept = <<>>
              /\ Answer("over") /\ UNCHANGED gcall
    /\ UNCHANGED <<gloop, gconv, gresp, gout>>

Spent(j) == gloop.tried[gcall.attempts[j]] = MaxAttempts

\* The next entry whose deployment has attempts left; backing off before it
\* gives up when the caller is gone.  With none left the last failure is
\* the answer.
Attempt ==
    /\ gphase = "loop"
    /\ LET left == {j \in gloop.i .. Len(gcall.attempts) : ~Spent(j)}
           i == CHOOSE j \in left : \A k \in left : j <= k
       IN  IF left = {} \/ (gloop.n > 0 /\ gcaller.gone)
           THEN Answer("over") /\ UNCHANGED gloop
           ELSE /\ gloop' = [gloop EXCEPT !.i = i, !.n = @ + 1, !.held = 0,
                                          !.tried[gcall.attempts[i]] = @ + 1]
                /\ gphase' = "sent"
                /\ UNCHANGED gcaller
    /\ UNCHANGED <<gcall, gconv, gresp, gout>>

\* A failed attempt: thinking the upstream refuses is taken out once and
\* the same entry tried again; what may not be retried is the answer.
Fails(retry, thinking) ==
    /\ CASE thinking /\ ~gloop.strip /\ gcall.carries ->
              /\ gloop' = [gloop EXCEPT !.strip = TRUE]
              /\ gphase' = "loop" /\ UNCHANGED gcaller
         [] ~retry -> Answer("over") /\ UNCHANGED gloop
         [] OTHER -> /\ gloop' = [gloop EXCEPT !.i = @ + 1]
                     /\ gphase' = "loop" /\ UNCHANGED gcaller
    /\ UNCHANGED <<gcall, gconv, gresp, gout>>

\* Before an answer: no key, no connection, a redirect, a refused key, an
\* error status; or a request that cannot be built, a stall.
Refused ==
    /\ gphase = "sent"
    /\ \/ Fails(TRUE, FALSE)
       \/ Fails(FALSE, FALSE)
       \/ Fails(FALSE, TRUE)

StreamOpens ==
    /\ gphase = "sent" /\ gcall.stream
    /\ gphase' = "head"
    /\ UNCHANGED <<gcall, gloop, gconv, gresp, gout, gcaller>>

\* The stream before its first event: nothing has reached the caller, so a
\* break, a stall or an error is still a failed attempt.
HeadBreaks(retry) == gphase = "head" /\ Fails(retry, FALSE)

FirstEvent(e) ==
    /\ gphase = "head"
    /\ CASE e.k = "alive" /\ gloop.held < MaxHeld ->
              /\ gloop' = [gloop EXCEPT !.held = @ + 1]
              /\ UNCHANGED <<gcall, gphase, gconv, gresp, gout, gcaller>>
         [] e.k = "error" -> \E retry \in BOOLEAN : Fails(retry, FALSE)
         [] e.k = "junk" -> Fails(TRUE, FALSE)
         [] OTHER -> Commit(e)

\* A whole answer: broken off (retried only when nothing was read) or over
\* the bound; else it is written, or the error that it cannot be converted
\* is, and its usage counts either way.
Body(usage) ==
    /\ gphase = "sent" /\ ~gcall.stream
    /\ \/ Fails(TRUE, FALSE)
       \/ Fails(FALSE, FALSE)
       \/ /\ gout' = [gout EXCEPT !.reported = IF usage THEN 1 ELSE 0,
                                  !.tokens = IF usage THEN 1 ELSE 0,
                                  !.complete = TRUE]
          /\ Answer("over")
          /\ UNCHANGED <<gcall, gloop, gconv, gresp>>

CallerLeaves ==
    /\ gphase \notin {"new", "over"} /\ ~gcaller.gone
    /\ gcaller' = [gcaller EXCEPT !.gone = TRUE]
    /\ UNCHANGED <<gcall, gphase, gloop, gconv, gresp, gout>>

-----------------------------------------------------------------------------
GInit ==
    /\ gcall \in Calls
    /\ gphase = "new"
    /\ gloop = [i |-> 1, n |-> 0, tried |-> [d \in AttemptedOnes |-> 0],
                strip |-> FALSE, held |-> 0]
    /\ gconv = NewStream
    /\ gresp = NewResponsesStream
    /\ gout = [read |-> 0, reported |-> 0, tokens |-> 0, complete |-> FALSE]
    /\ gcaller = [gone |-> FALSE, answers |-> 0, got |-> NewReader]

GNext ==
    \/ Serve \/ Attempt \/ Refused \/ StreamOpens \/ Ended \/ PingWhileIdle
    \/ CallerLeaves
    \/ \E retry \in BOOLEAN : HeadBreaks(retry)
    \/ \E usage \in BOOLEAN : Body(usage)
    \/ gphase \in {"head", "relay"} /\ \E e \in Events : FirstEvent(e) \/ Relay(e)

GSpec == GInit /\ [][GNext]_gvars

-----------------------------------------------------------------------------
\* A caller gets one answer, whatever is retried: no attempt follows one
\* whose bytes were relayed, and no call ends without one.  What it reads of
\* a converted stream is well formed however the upstream's chunks fall:
\* one start, numbered blocks with their deltas inside them, one end, and
\* nothing after it, not even when a conversion fails half way through a
\* chunk whose output is thrown away.
AnswerWellFormed ==
    /\ gcaller.answers <= 1
    /\ gphase = "over" => gcaller.answers = 1
    /\ gphase \in {"new", "loop", "sent", "head"} => gcaller.answers = 0
    /\ gcaller.got.ok

\* A stream the gateway ends says what happened: complete only when the
\* upstream finished its answer, an error when it broke off; and the call is
\* recorded with the usage the upstream last reported, also when the
\* conversion failed or the caller left before it came.
EndIsTruthful ==
    /\ gcaller.got.end = "complete" => gout.complete
    /\ gphase = "over" /\ gout.read > 0 /\ ~gcaller.gone =>
         \/ gcaller.got.end \in {"complete", "error"}
         \/ Lane = "openai" /\ gcaller.got.unfinished = {} /\ gconv.known # {}
    /\ gout.tokens = gout.reported

\* A caller gets one well-formed answer, and its end is the upstream's own.
AnswersAreTruthful == AnswerWellFormed /\ EndIsTruthful
=============================================================================
