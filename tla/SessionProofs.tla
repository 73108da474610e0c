----------------------------- MODULE SessionProofs -----------------------------
(***************************************************************************)
(* What holds of a session's tool calls for every number of threads, brains, *)
(* drivers and calls and whatever the models reply: the log is well formed, a *)
(* call gets one result whoever answers it, every answer the API accepts     *)
(* settles, and what is processed is final. First come the lemmas about the   *)
(* ordered tool flow, for logs of any length: what each operation on a log    *)
(* preserves, that the plan of a send foresees its walk, and that the walk    *)
(* leaves no thread that neither runs nor waits.                              *)
(***************************************************************************)
EXTENDS SessionLoop, WellFoundedInduction, TLAPS

\* A call as the log may hold it: it has a result event exactly when it has a
\* result, and a confirmation was received before it was processed.
SoundCall == {c \in Call : /\ c.answers = (IF c.result = "none" THEN 0 ELSE 1)
                           /\ c.confirmed => c.conf # "none"}

\* A log, for what is proved about it.
Logs == Seq(SoundCall)

\* m holds every call of l, and those l has settled as they were.
Continues(m, l) == \A i \in DOMAIN l : i \in DOMAIN m /\ (l[i].result = "done" => m[i] = l[i])

-----------------------------------------------------------------------------
(* Sequences and indices. *)

\* A function on 1..n is a sequence.
LEMMA MapIsSeq == ASSUME NEW S, NEW n \in Nat, NEW f \in [1..n -> S]
                  PROVE  f \in Seq(S)
OBVIOUS

\* A nonempty set of naturals has a least element.
LEMMA LeastIndex == ASSUME NEW T \in SUBSET Nat, T # {}
                    PROVE  \E i \in T : \A j \in T : i <= j
<1> DEFINE R == {ss \in Nat \X Nat : ss[1] < ss[2]}
<1>1. R = OpToRel(<, Nat)
  BY Zenon DEF OpToRel
<1>2. IsWellFoundedOn(R, Nat)
  BY <1>1, NatLessThanWellFounded, Zenon
<1>3. PICK i \in T : \A j \in T : ~(<<j, i>> \in R)
  <2> HIDE DEF R
  <2> QED BY <1>2, WFMin, Zenon
<1>4. ASSUME NEW j \in T PROVE i <= j
  <2>1. ~(<<j, i>> \in R)
    BY <1>3
  <2> QED BY <2>1, SMT
<1> QED BY <1>4

-----------------------------------------------------------------------------
(* The log stays well formed. *)

\* A call gets its first result, or is marked processed, and stays well formed.
LEMMA SettledSound ==
    ASSUME NEW c \in SoundCall, NEW b \in BOOLEAN, b => c.conf # "none", NEW n \in 0..1,
           n = 1 <=> c.result = "none"
    PROVE  Settled(c, b, n) \in SoundCall
BY DEF SoundCall, Call, Settled

\* So does a call the walk consumes.
LEMMA ConsumeSound ==
    ASSUME NEW c \in SoundCall, c.result # "done", Consumable(c)
    PROVE  Consume(c) \in SoundCall
<1>1. CASE c.result = "held"
  <2>1. Settled(c, c.conf # "none", 0) \in SoundCall
    BY <1>1 DEF SoundCall, Call, Settled
  <2> QED BY <1>1, <2>1 DEF Consume
<1>2. CASE c.result # "held" /\ c.conf = "deny"
  <2>1. Settled(c, TRUE, 1) \in SoundCall
    BY <1>2 DEF SoundCall, Call, Settled
  <2> QED BY <1>2, <2>1, Zenon DEF Consume
<1>3. CASE c.result # "held" /\ c.conf # "deny"
  <2>1. Consume(c) = [c EXCEPT !.confirmed = TRUE]
    BY <1>3 DEF Consume
  <2> QED BY <1>3, <2>1, Zenon DEF SoundCall, Call, Consumable
<1> QED BY <1>1, <1>2, <1>3

\* The walk keeps the log well formed and its length.
LEMMA AdvanceSound ==
    ASSUME NEW l \in Logs, NEW ts
    PROVE  Advance(l, ts) \in Logs /\ Len(Advance(l, ts)) = Len(l)
<1>1. \A i \in DOMAIN l : Advance(l, ts)[i] \in SoundCall
  BY ConsumeSound DEF Advance, Logs
<1>2. Advance(l, ts) \in [1..Len(l) -> SoundCall]
  BY <1>1 DEF Advance
<1> QED BY <1>2, MapIsSeq DEF Logs

\* So does an interrupt's abandonment of the open calls.
LEMMA AbandonSound ==
    ASSUME NEW l \in Logs, NEW ts
    PROVE  Abandon(l, ts) \in Logs /\ Len(Abandon(l, ts)) = Len(l)
<1>0. ASSUME NEW c \in SoundCall, c.result = "none"
      PROVE  Settled(c, c.conf # "none", 1) \in SoundCall
  BY <1>0 DEF SoundCall, Call, Settled
<1>1. \A i \in DOMAIN l : Abandon(l, ts)[i] \in SoundCall
  BY <1>0 DEF Abandon, Logs
<1>2. Abandon(l, ts) \in [1..Len(l) -> SoundCall]
  BY <1>1 DEF Abandon
<1> QED BY <1>2, MapIsSeq DEF Logs

\* The answers of a batch the API accepts, received.
LEMMA ReceivedSound ==
    ASSUME NEW l \in Logs, NEW t, NEW batch \in Batches(l, t)
    PROVE  Received(l, batch) \in Logs /\ Len(Received(l, batch)) = Len(l)
<1> DEFINE conf(i) == IF Says(batch, i, "allow") THEN "allow"
                      ELSE IF Says(batch, i, "deny") THEN "deny" ELSE l[i].conf
           result(i) == IF Says(batch, i, "result") THEN "held" ELSE l[i].result
           answers(i) == IF Says(batch, i, "result") THEN l[i].answers + 1 ELSE l[i].answers
<1>1. ASSUME NEW i \in DOMAIN l, Says(batch, i, "result")
      PROVE  l[i].result = "none"
  BY <1>1 DEF Batches, ValidBatch, Valid, Says
<1>2. ASSUME NEW i \in DOMAIN l
      PROVE  Received(l, batch)[i] \in SoundCall
  <2>1. l[i] \in SoundCall
    BY DEF Logs
  <2>2. Received(l, batch)[i] = [l[i] EXCEPT !.conf = conf(i), !.result = result(i), !.answers = answers(i)]
    BY <2>1 DEF Received, SoundCall, Call
  <2>3. /\ conf(i) \in {"none", "allow", "deny"}
        /\ l[i].conf # "none" => conf(i) # "none"
        /\ result(i) \in {"none", "held", "done"}
        /\ answers(i) = IF result(i) = "none" THEN 0 ELSE 1
    BY <2>1, <1>1 DEF SoundCall, Call
  <2> DEFINE e == [l[i] EXCEPT !.conf = conf(i), !.result = result(i), !.answers = answers(i)]
  <2>4. e.conf = conf(i) /\ e.result = result(i) /\ e.answers = answers(i) /\ e.confirmed = l[i].confirmed
    <3> HIDE DEF conf, result, answers
    <3> QED BY <2>1 DEF SoundCall, Call
  <2>5. e \in Call
    <3> HIDE DEF conf, result, answers
    <3>1. answers(i) \in 0..2
      BY <2>3
    <3> QED BY <2>1, <2>3, <3>1, Zenon DEF SoundCall, Call
  <2> HIDE DEF conf, result, answers, e
  <2> QED BY <2>1, <2>2, <2>3, <2>4, <2>5, Zenon DEF SoundCall, e
<1>3. Received(l, batch) \in [1..Len(l) -> SoundCall]
  <2>1. DOMAIN Received(l, batch) = 1..Len(l)
    BY DEF Received
  <2> QED BY <1>2, <2>1, Zenon DEF Received
<1> QED BY <1>3, MapIsSeq DEF Logs

\* Receiving answers changes no call's thread.
LEMMA ReceivedThread ==
    ASSUME NEW l \in Logs, NEW batch, NEW i \in DOMAIN l
    PROVE  Received(l, batch)[i].thread = l[i].thread
<1>1. \A c \in Call : \A x, y, z :
        [c EXCEPT !.conf = x, !.result = y, !.answers = z].thread = c.thread
  BY DEF Call
<1>2. l[i] \in Call
  BY DEF SoundCall, Logs
<1>3. \E x, y, z : Received(l, batch)[i] = [l[i] EXCEPT !.conf = x, !.result = y, !.answers = z]
  BY Zenon DEF Received
<1> QED BY <1>1, <1>2, <1>3

\* A send that is accepted keeps the log well formed and its length.
LEMMA AppendedSound ==
    ASSUME NEW l \in Logs, NEW t, NEW batch \in Batches(l, t), NEW ts
    PROVE  Appended(l, batch, ts) \in Logs /\ Len(Appended(l, batch, ts)) = Len(l)
<1> DEFINE seen == Received(l, batch)
           written == UNION {Written(l, batch, u) : u \in ts}
<1>1. seen \in Logs /\ Len(seen) = Len(l)
  BY ReceivedSound
<1>2. ASSUME NEW i \in written
      PROVE  i \in DOMAIN l /\ Consume(seen[i]) \in SoundCall
  <2>1. PICK u \in ts : i \in Written(l, batch, u)
    OBVIOUS
  <2>2. i \in DOMAIN seen /\ seen[i].result = "none" /\ Resolves(seen[i])
    BY <2>1 DEF Written, Resolved, Unsettled
  <2> QED BY <1>1, <2>2, ConsumeSound DEF Resolves, Consumable, Logs
<1>3. Appended(l, batch, ts) = [i \in DOMAIN l |-> IF i \in written THEN Consume(seen[i]) ELSE seen[i]]
  BY DEF Appended
<1> HIDE DEF seen, written
<1>4. Appended(l, batch, ts) \in [1..Len(l) -> SoundCall]
  BY <1>1, <1>2, <1>3 DEF Logs
<1> QED BY <1>4, MapIsSeq DEF Logs

-----------------------------------------------------------------------------
(* A send settles. *)

\* Two logs whose calls of a thread are settled alike, and equal where they are
\* not, give the thread the same flow.
LEMMA SameFlow ==
    ASSUME NEW l \in Logs, NEW m, NEW t, DOMAIN m = DOMAIN l,
           \A i \in DOMAIN l : m[i].thread = l[i].thread,
           \A i \in DOMAIN l : l[i].thread = t =>
               /\ l[i].result = "done" <=> m[i].result = "done"
               /\ l[i].result # "done" => m[i] = l[i]
    PROVE  Flow(m, t) = Flow(l, t)
<1>1. Unsettled(m, t) = Unsettled(l, t)
  BY DEF Unsettled
<1>2. \A i \in Unsettled(l, t) : m[i] = l[i] /\ l[i].thread = t
  BY DEF Unsettled
<1>3. \A i \in Unsettled(l, t) : IsHead(m, i) <=> IsHead(l, i)
  BY <1>1, <1>2 DEF IsHead
<1> QED BY <1>1, <1>2, <1>3, Zenon DEF Flow

\* The denials a plan writes change nothing of what the walk reaches.
LEMMA SameReach ==
    ASSUME NEW l \in Logs, NEW t, NEW batch \in Batches(l, t),
           NEW i \in DOMAIN l, l[i].thread = t
    PROVE  Reached(Appended(l, batch, {t}), i) <=> Reached(Received(l, batch), i)
<1> DEFINE seen == Received(l, batch)
           left == Appended(l, batch, {t})
           written == Written(l, batch, t)
<1>1. left = [j \in DOMAIN l |-> IF j \in written THEN Consume(seen[j]) ELSE seen[j]]
  BY DEF Appended
<1>2. seen \in Logs /\ DOMAIN seen = DOMAIN l
  BY ReceivedSound
<1>3. \A j \in DOMAIN l : seen[j].thread = l[j].thread
  BY ReceivedThread
<1>4. \A j \in written : j \in Unsettled(seen, t) /\ Resolves(seen[j]) /\ seen[j].result = "none"
  BY DEF Written, Resolved
<1>5. \A j \in written : Consume(seen[j]).result = "done" /\ Consume(seen[j]).thread = t
  BY <1>4 DEF Resolves, Consume, Settled, Unsettled
<1>6. left[i].thread = t /\ seen[i].thread = t
  BY <1>1, <1>3, <1>5
<1>7. Unsettled(left, t) = Unsettled(seen, t) \ written
  BY <1>1, <1>2, <1>5 DEF Unsettled
<1>8. \A j \in Unsettled(left, t) : left[j] = seen[j]
  BY <1>1, <1>7, Zenon DEF Unsettled
<1> QED BY <1>4, <1>6, <1>7, <1>8, Zenon DEF Reached

\* AnswerPlan.Settle foresees what AdvanceThreadTools does after the append.
LEMMA PlanMatchesWalk ==
    ASSUME NEW l \in Logs, NEW t, NEW batch \in Batches(l, t)
    PROVE  Planned(l, batch, t) = Flow(Advance(Appended(l, batch, {t}), {t}), t)
<1> DEFINE seen == Received(l, batch)
           left == Appended(l, batch, {t})
           walked == Advance(left, {t})
           written == Written(l, batch, t)
           resolved == Resolved(l, batch, t)
           plan == [i \in DOMAIN l |->
                      IF i \in resolved THEN [seen[i] EXCEPT !.result = "done"]
                      ELSE IF i \in Unsettled(seen, t) /\ Reached(seen, i) /\ Consumable(seen[i])
                           THEN [seen[i] EXCEPT !.confirmed = TRUE] ELSE seen[i]]
<1>1. left = [j \in DOMAIN l |-> IF j \in written THEN Consume(seen[j]) ELSE seen[j]]
  BY DEF Appended
<1>2. seen \in Logs /\ DOMAIN seen = DOMAIN l
  BY ReceivedSound
<1>3. \A j \in DOMAIN l : seen[j].thread = l[j].thread
  BY ReceivedThread
<1>4. left \in Logs /\ DOMAIN left = DOMAIN l
  BY AppendedSound
<1>5. walked \in Logs /\ DOMAIN walked = DOMAIN l
  BY <1>4, AdvanceSound
<1>6. \A c \in Call : Consume(c).thread = c.thread
  BY DEF Consume, Settled, Call
<1>7. \A c \in Call : [c EXCEPT !.result = "done"].thread = c.thread
                      /\ [c EXCEPT !.result = "done"].result = "done"
                      /\ [c EXCEPT !.confirmed = TRUE].thread = c.thread
                      /\ [c EXCEPT !.confirmed = TRUE].result = c.result
  BY DEF Call
<1>8. \A i \in DOMAIN l : seen[i] \in Call /\ left[i] \in Call
  BY <1>2, <1>4 DEF SoundCall, Logs
<1>9. \A i \in DOMAIN l : plan[i].thread = walked[i].thread
  <2> SUFFICES ASSUME NEW i \in DOMAIN l PROVE plan[i].thread = walked[i].thread
    BY Zenon
  <2>1. left[i].thread = seen[i].thread
    BY <1>1, <1>6, <1>8
  <2>2. walked[i].thread = left[i].thread
    BY <1>4, <1>6, <1>8, Zenon DEF Advance
  <2>3. plan[i].thread = seen[i].thread
    BY <1>7, <1>8
  <2> QED BY <2>1, <2>2, <2>3
<1>10. ASSUME NEW i \in DOMAIN l, walked[i].thread = t
       PROVE  /\ walked[i].result = "done" <=> plan[i].result = "done"
              /\ walked[i].result # "done" => plan[i] = walked[i]
  <2>1. l[i].thread = t /\ seen[i].thread = t /\ left[i].thread = t
    BY <1>1, <1>3, <1>4, <1>6, <1>8, <1>10 DEF Advance
  <2>2. Reached(left, i) <=> Reached(seen, i)
    BY <2>1, SameReach
  <2>3. i \in resolved <=> seen[i].result # "done" /\ Reached(seen, i) /\ Resolves(seen[i])
    BY <1>2, <2>1 DEF Resolved, Unsettled
  <2>4. i \in written => i \in resolved /\ seen[i].result = "none"
    BY DEF Written
  <2>5. CASE seen[i].result = "done"
    <3>1. plan[i] = seen[i]
      BY <1>2, <2>3, <2>5 DEF Unsettled
    <3>2. left[i] = seen[i]
      BY <1>1, <2>4, <2>5
    <3>3. walked[i] = left[i]
      BY <1>4, <2>5, <3>2 DEF Advance
    <3> QED BY <3>1, <3>2, <3>3, <2>5
  <2>6. CASE i \in written
    <3>1. seen[i].result = "none" /\ Resolves(seen[i])
      BY <2>3, <2>4, <2>6
    <3>2. Consume(seen[i]).result = "done"
      BY <3>1 DEF Resolves, Consume, Settled
    <3>3. left[i].result = "done"
      BY <1>1, <2>6, <3>2
    <3>4. walked[i].result = "done"
      BY <1>4, <3>3 DEF Advance
    <3>5. plan[i].result = "done"
      BY <1>7, <1>8, <2>4, <2>6, Zenon
    <3> QED BY <3>4, <3>5
  <2>7. CASE i \notin written /\ seen[i].result # "done"
    <3>1. left[i] = seen[i]
      BY <1>1, <2>7
    <3>2. walked[i] = IF Reached(seen, i) /\ Consumable(seen[i]) THEN Consume(seen[i]) ELSE seen[i]
      BY <1>4, <2>1, <2>2, <2>7, <3>1 DEF Advance
    <3>3. CASE Reached(seen, i) /\ Resolves(seen[i])
      <4>1. Consume(seen[i]).result = "done" /\ Consumable(seen[i])
        BY <3>3 DEF Resolves, Consume, Settled, Consumable
      <4> QED BY <1>7, <1>8, <2>3, <2>7, <3>2, <3>3, <4>1
    <3>4. CASE Reached(seen, i) /\ ~Resolves(seen[i]) /\ Consumable(seen[i])
      <4>1. Consume(seen[i]) = [seen[i] EXCEPT !.confirmed = TRUE]
        BY <3>4, Zenon DEF Resolves, Consume, Consumable
      <4>2. plan[i] = [seen[i] EXCEPT !.confirmed = TRUE]
        BY <1>2, <2>1, <2>3, <2>7, <3>4 DEF Unsettled
      <4> QED BY <3>2, <3>4, <4>1, <4>2, Zenon
    <3>5. CASE ~(Reached(seen, i) /\ Consumable(seen[i]))
      <4>1. i \notin resolved
        BY <2>3, <3>5 DEF Resolves, Consumable
      <4> QED BY <3>2, <3>5, <4>1
    <3> QED BY <3>3, <3>4, <3>5
  <2> QED BY <2>5, <2>6, <2>7
<1>11. Planned(l, batch, t) = Flow(plan, t)
  BY DEF Planned
<1> HIDE DEF walked, plan
<1>12. DOMAIN plan = DOMAIN l
  BY DEF plan
<1>13. Flow(plan, t) = Flow(walked, t)
  BY <1>5, <1>9, <1>10, <1>12, SameFlow
<1> QED BY <1>11, <1>13 DEF walked

\* The walk leaves no thread that neither runs nor waits: SettleTransition's
\* error case cannot arise.
LEMMA StopsOnAWait ==
    ASSUME NEW l \in Logs, NEW ts, NEW t \in ts
    PROVE  LET flow == Flow(Advance(l, ts), t) IN Running(flow) \/ flow.pending # {}
<1> DEFINE m == Advance(l, ts)
           open == Unsettled(m, t)
<1>1. m \in Logs /\ DOMAIN m = DOMAIN l
  BY AdvanceSound
<1>2. CASE open = {}
  BY <1>2, Zenon DEF Flow, Running
<1>3. CASE open # {}
  <2>1. open \in SUBSET Nat
    BY <1>1 DEF Unsettled, Logs
  <2>2. PICK i \in open : \A j \in open : i <= j
    BY <1>3, <2>1, LeastIndex, Zenon
  <2>3. i \in DOMAIN l /\ i \in Nat /\ m[i].thread = t /\ m[i].result # "done"
    BY <1>1, <2>1 DEF Unsettled
  <2>4. IsHead(m, i)
    BY <2>2, <2>3, Zenon DEF IsHead
  <2>5. m[i].result # "held"
    <3> SUFFICES ASSUME m[i].result = "held" PROVE FALSE
      OBVIOUS
    <3>1. \A c \in Call : Consume(c).result # "held" /\ Consume(c).thread = c.thread
      BY DEF Consume, Settled, Call
    <3>2. \A c \in Call : c.result # "done" /\ Consumable(c) /\ ~Resolves(c) => Consume(c).result = c.result
      BY Zenon DEF Consume, Call, Consumable, Resolves
    <3>3. \A j \in DOMAIN l : l[j] \in Call
      BY DEF SoundCall, Logs
    <3>4. m[i] = l[i]
      BY <2>3, <3>1, <3>3 DEF Advance
    <3>5. ~Reached(l, i)
      BY <2>3, <3>1, <3>3, <3>4 DEF Advance, Consumable
    <3>6. PICK j \in Unsettled(l, t) : j < i /\ ~Resolves(l[j])
      BY <2>3, <3>4, <3>5 DEF Reached
    <3>7. j \in DOMAIN l /\ l[j].thread = t /\ l[j].result # "done"
      BY DEF Unsettled
    <3>8. m[j].thread = t /\ m[j].result # "done"
      BY <3>1, <3>2, <3>3, <3>6, <3>7 DEF Advance
    <3>9. j \in open
      BY <1>1, <3>7, <3>8 DEF Unsettled
    <3>10. i <= j /\ j \in Nat
      BY <2>1, <2>2, <3>9, Zenon
    <3> QED BY <2>3, <3>6, <3>10
  <2>6. m[i].result = "none"
    BY <1>1, <2>3, <2>5 DEF SoundCall, Call, Logs
  <2>7. CASE Waits(m[i])
    <3>1. i \in Flow(m, t).pending
      BY <2>7 DEF Flow
    <3> QED BY <3>1, Zenon
  <2>8. CASE ~Waits(m[i])
    BY <2>4, <2>6, <2>8, Zenon DEF Flow, Running
  <2> QED BY <2>7, <2>8, Zenon
<1> QED BY <1>2, <1>3, Zenon

-----------------------------------------------------------------------------
(* What is processed is final. *)

\* What is settled stays settled over two steps if it does over each.
LEMMA ContinuesTransitive ==
    ASSUME NEW l, NEW m, NEW n, Continues(m, l), Continues(n, m)
    PROVE  Continues(n, l)
BY DEF Continues

\* The walk leaves the settled calls as they are.
LEMMA AdvanceContinues == ASSUME NEW l, NEW ts PROVE Continues(Advance(l, ts), l)
BY DEF Continues, Advance

\* So does a send.
LEMMA AppendedContinues ==
    ASSUME NEW l \in Logs, NEW t, NEW batch \in Batches(l, t), NEW ts
    PROVE  Continues(Appended(l, batch, ts), l)
<1> DEFINE seen == Received(l, batch)
<1>1. ASSUME NEW i \in DOMAIN l, l[i].result = "done" PROVE seen[i] = l[i]
  <2>1. \A what : ~Says(batch, i, what)
    BY <1>1 DEF Batches, ValidBatch, Valid, Says
  <2>2. seen[i] = [l[i] EXCEPT !.conf = l[i].conf, !.result = l[i].result, !.answers = l[i].answers]
    BY <2>1, Zenon DEF Received
  <2>3. \A c \in Call : [c EXCEPT !.conf = c.conf, !.result = c.result, !.answers = c.answers] = c
    BY Zenon DEF Call
  <2>4. l[i] \in Call
    BY DEF SoundCall, Logs
  <2> HIDE DEF seen
  <2> QED BY <2>2, <2>3, <2>4, Zenon
<1>2. \A i \in DOMAIN l : l[i].result = "done" => \A u : i \notin Written(l, batch, u)
  BY <1>1 DEF Written
<1> HIDE DEF seen
<1>3. Appended(l, batch, ts) =
        [i \in DOMAIN l |-> IF i \in UNION {Written(l, batch, u) : u \in ts} THEN Consume(seen[i]) ELSE seen[i]]
  BY DEF Appended, seen
<1> QED BY <1>1, <1>2, <1>3 DEF Continues

-----------------------------------------------------------------------------
(* What an operation on the log does to a thread's flow. *)

\* A thread's calls in the log, and the flow of one that has none open.
CallsOf(l, t) == {i \in DOMAIN l : l[i].thread = t}

Quiet == [pending |-> {}, unsettled |-> FALSE, runnable |-> FALSE]

\* A thread's flow is a function of its own calls.
LEMMA SameCalls ==
    ASSUME NEW l, NEW m, NEW t, CallsOf(m, t) = CallsOf(l, t), \A i \in CallsOf(l, t) : m[i] = l[i]
    PROVE  Unsettled(m, t) = Unsettled(l, t) /\ Flow(m, t) = Flow(l, t)
<1>1. Unsettled(m, t) = Unsettled(l, t)
  BY DEF Unsettled, CallsOf
<1>2. \A i \in Unsettled(l, t) : m[i] = l[i] /\ l[i].thread = t
  BY DEF Unsettled, CallsOf
<1>3. \A i \in Unsettled(l, t) : IsHead(m, i) <=> IsHead(l, i)
  BY <1>1, <1>2 DEF IsHead
<1> QED BY <1>1, <1>2, <1>3, Zenon DEF Flow

\* A thread with no open call waits for nothing, and waits only for open ones.
LEMMA FlowOfQuiet ==
    ASSUME NEW l, NEW t
    PROVE  /\ Flow(l, t).unsettled <=> Unsettled(l, t) # {}
           /\ Flow(l, t).pending \subseteq Unsettled(l, t)
           /\ Unsettled(l, t) = {} => Flow(l, t) = Quiet
<1>1. Flow(l, t).unsettled <=> Unsettled(l, t) # {}
  BY Zenon DEF Flow
<1>2. Flow(l, t).pending \subseteq Unsettled(l, t)
  BY Zenon DEF Flow
<1>3. ASSUME Unsettled(l, t) = {} PROVE Flow(l, t) = Quiet
  BY <1>3 DEF Flow, Quiet
<1> QED BY <1>1, <1>2, <1>3

\* Consuming a call keeps its thread, and settles it where it resolves it.
LEMMA ConsumeKeeps == \A c \in Call : Consume(c).thread = c.thread /\ (Resolves(c) => Consume(c).result = "done")
BY DEF Consume, Settled, Call, Resolves

\* The walk of some threads keeps the other threads' calls and the settled
\* ones.
LEMMA AdvanceKeeps ==
    ASSUME NEW l \in Logs, NEW ts, NEW i \in DOMAIN l
    PROVE  /\ i \in DOMAIN Advance(l, ts) /\ Advance(l, ts)[i].thread = l[i].thread
           /\ l[i].result = "done" \/ l[i].thread \notin ts => Advance(l, ts)[i] = l[i]
<1>1. l[i] \in Call
  BY DEF SoundCall, Logs
<1> QED BY <1>1, ConsumeKeeps DEF Advance

\* A walk changes nothing of a thread it is not of, or that has no open call.
LEMMA AdvanceOthers ==
    ASSUME NEW l \in Logs, NEW ts, NEW t, t \notin ts \/ Unsettled(l, t) = {}
    PROVE  Unsettled(Advance(l, ts), t) = Unsettled(l, t) /\ Flow(Advance(l, ts), t) = Flow(l, t)
<1>1. DOMAIN Advance(l, ts) = DOMAIN l
  BY DEF Advance
<1>2. CallsOf(Advance(l, ts), t) = CallsOf(l, t)
  BY <1>1, AdvanceKeeps DEF CallsOf
<1>3. \A i \in CallsOf(l, t) : Advance(l, ts)[i] = l[i]
  BY AdvanceKeeps DEF CallsOf, Unsettled
<1> QED BY <1>2, <1>3, SameCalls

\* Abandoning some threads' calls gives each of their open ones a result, and
\* keeps the rest.
LEMMA AbandonKeeps ==
    ASSUME NEW l \in Logs, NEW ts, NEW i \in DOMAIN l
    PROVE  /\ i \in DOMAIN Abandon(l, ts) /\ Abandon(l, ts)[i].thread = l[i].thread
           /\ l[i].result # "none" \/ l[i].thread \notin ts => Abandon(l, ts)[i] = l[i]
           /\ l[i].result = "none" /\ l[i].thread \in ts => Abandon(l, ts)[i].result = "done"
BY DEF Abandon, Settled

\* An interrupt of some threads leaves the flow of the others.
LEMMA AbandonOthers ==
    ASSUME NEW l \in Logs, NEW ts, NEW t, t \notin ts
    PROVE  /\ Unsettled(Advance(Abandon(l, ts), ts), t) = Unsettled(l, t)
           /\ Flow(Advance(Abandon(l, ts), ts), t) = Flow(l, t)
<1>1. Abandon(l, ts) \in Logs
  BY AbandonSound
<1>2. DOMAIN Abandon(l, ts) = DOMAIN l
  BY DEF Abandon
<1>3. CallsOf(Abandon(l, ts), t) = CallsOf(l, t)
  BY <1>2, AbandonKeeps DEF CallsOf
<1>4. \A i \in CallsOf(l, t) : Abandon(l, ts)[i] = l[i]
  BY AbandonKeeps DEF CallsOf
<1>5. Unsettled(Abandon(l, ts), t) = Unsettled(l, t) /\ Flow(Abandon(l, ts), t) = Flow(l, t)
  BY <1>3, <1>4, SameCalls
<1> QED BY <1>1, <1>5, AdvanceOthers

\* An interrupted thread has no open call left: the walk consumes the results
\* that were held, now that nothing before them is open.
LEMMA AbandonedQuiet ==
    ASSUME NEW l \in Logs, NEW ts, NEW t \in ts
    PROVE  Unsettled(Advance(Abandon(l, ts), ts), t) = {}
<1> DEFINE a == Abandon(l, ts)
           m == Advance(a, ts)
<1>1. a \in Logs /\ DOMAIN a = DOMAIN l /\ DOMAIN m = DOMAIN l
  BY AbandonSound DEF Abandon, Advance
<1>2. ASSUME NEW i \in DOMAIN l, a[i].thread = t PROVE a[i].result \in {"held", "done"}
  <2>1. l[i] \in Call /\ l[i].thread = t
    BY <1>2, AbandonKeeps DEF SoundCall, Logs
  <2> QED BY <2>1, AbandonKeeps DEF Call
<1> HIDE DEF a
<1>3. \A j \in Unsettled(a, t) : Resolves(a[j])
  BY <1>1, <1>2 DEF Unsettled, Resolves
<1>4. ASSUME NEW i \in DOMAIN l, a[i].thread = t, a[i].result = "held"
      PROVE  m[i].result = "done"
  <2>1. Reached(a, i) /\ Consumable(a[i]) /\ Resolves(a[i])
    BY <1>3, <1>4 DEF Reached, Consumable, Resolves
  <2>2. m[i] = Consume(a[i])
    BY <1>1, <1>4, <2>1 DEF Advance
  <2>3. a[i] \in Call
    BY <1>1 DEF SoundCall, Logs
  <2> QED BY <2>1, <2>2, <2>3, ConsumeKeeps
<1>5. ASSUME NEW i \in DOMAIN l, m[i].thread = t PROVE m[i].result = "done"
  <2>1. a[i].thread = t
    BY <1>1, <1>5, AdvanceKeeps
  <2>2. a[i].result = "done" => m[i] = a[i]
    BY <1>1, AdvanceKeeps
  <2> HIDE DEF m
  <2> QED BY <1>2, <1>4, <2>1, <2>2
<1> HIDE DEF m
<1>6. Unsettled(m, t) = {}
  BY <1>1, <1>5 DEF Unsettled
<1> QED BY <1>6 DEF m, a

\* A send to a thread keeps the calls of the others.
LEMMA AppendedKeeps ==
    ASSUME NEW l \in Logs, NEW t, NEW batch \in Batches(l, t), NEW i \in DOMAIN l
    PROVE  /\ Appended(l, batch, {t})[i].thread = l[i].thread
           /\ l[i].thread # t => Appended(l, batch, {t})[i] = l[i]
<1> DEFINE seen == Received(l, batch)
           written == Written(l, batch, t)
<1>1. Appended(l, batch, {t}) = [j \in DOMAIN l |-> IF j \in written THEN Consume(seen[j]) ELSE seen[j]]
  BY DEF Appended
<1>2. seen \in Logs /\ DOMAIN seen = DOMAIN l
  BY ReceivedSound
<1>3. seen[i].thread = l[i].thread /\ seen[i] \in Call
  BY <1>2, ReceivedThread DEF SoundCall, Logs
<1>4. i \in written => seen[i].thread = t
  BY DEF Written, Resolved, Unsettled
<1>5. ASSUME l[i].thread # t PROVE seen[i] = l[i]
  <2>1. \A what : ~Says(batch, i, what)
    BY <1>5 DEF Batches, Says
  <2>2. seen[i] = [l[i] EXCEPT !.conf = l[i].conf, !.result = l[i].result, !.answers = l[i].answers]
    BY <2>1, Zenon DEF Received
  <2>3. \A c \in Call : [c EXCEPT !.conf = c.conf, !.result = c.result, !.answers = c.answers] = c
    BY Zenon DEF Call
  <2>4. l[i] \in Call
    BY DEF SoundCall, Logs
  <2> HIDE DEF seen
  <2> QED BY <2>2, <2>3, <2>4, Zenon
<1> HIDE DEF seen, written
<1> QED BY <1>1, <1>3, <1>4, <1>5, ConsumeKeeps

\* A send to one thread changes no other's calls.
LEMMA SendOthers ==
    ASSUME NEW l \in Logs, NEW t, NEW batch \in Batches(l, t), NEW x, x # t
    PROVE  LET m == Advance(Appended(l, batch, {t}), {t}) IN
           Unsettled(m, x) = Unsettled(l, x) /\ Flow(m, x) = Flow(l, x)
<1> DEFINE a == Appended(l, batch, {t})
<1>1. a \in Logs /\ DOMAIN a = DOMAIN l
  BY AppendedSound
<1>2. \A i \in DOMAIN l : a[i].thread = l[i].thread /\ (l[i].thread # t => a[i] = l[i])
  BY AppendedKeeps
<1> HIDE DEF a
<1>3. Unsettled(a, x) = Unsettled(l, x) /\ Flow(a, x) = Flow(l, x)
  <2>1. CallsOf(a, x) = CallsOf(l, x)
    BY <1>1, <1>2 DEF CallsOf
  <2>2. \A i \in CallsOf(l, x) : a[i] = l[i]
    BY <1>2 DEF CallsOf
  <2> QED BY <2>1, <2>2, SameCalls
<1>4. x \notin {t}
  OBVIOUS
<1>5. Unsettled(Advance(a, {t}), x) = Unsettled(a, x) /\ Flow(Advance(a, {t}), x) = Flow(a, x)
  BY <1>1, <1>4, AdvanceOthers
<1> QED BY <1>3, <1>5 DEF a

-----------------------------------------------------------------------------
(* A thread's calls are settled in the order they were made. *)

\* Of one thread, no call is settled before an earlier one.
Ordered(l) == \A i, j \in DOMAIN l : i < j /\ l[i].thread = l[j].thread /\ l[j].result = "done" => l[i].result = "done"

\* Ordered but for what the walk of the threads will settle.
NearlyOrdered(l, ts) ==
    \A i, j \in DOMAIN l :
        i < j /\ l[i].thread = l[j].thread /\ l[j].result = "done" =>
            l[i].result = "done" \/ (l[i].thread \in ts /\ Resolves(l[i]))

\* The walk restores the order that results out of turn had broken.
LEMMA AdvanceOrders ==
    ASSUME NEW l \in Logs, NEW ts, NearlyOrdered(l, ts)
    PROVE  Ordered(Advance(l, ts))
<1> DEFINE m == Advance(l, ts)
<1>1. DOMAIN m = DOMAIN l /\ DOMAIN l \in SUBSET Nat /\ \A i \in DOMAIN l : l[i] \in Call
  BY DEF Advance, SoundCall, Logs
<1>2. \A i \in DOMAIN l : m[i].thread = l[i].thread /\ (l[i].result = "done" => m[i] = l[i])
  BY AdvanceKeeps
<1>3. ASSUME NEW i \in DOMAIN l, l[i].thread \in ts, l[i].result # "done", Resolves(l[i]), Reached(l, i)
      PROVE  m[i].result = "done"
  <2>1. Consumable(l[i])
    BY <1>3 DEF Resolves, Consumable
  <2>2. m[i] = Consume(l[i])
    BY <1>3, <2>1 DEF Advance
  <2> QED BY <1>1, <1>3, <2>2, ConsumeKeeps
<1>4. ASSUME NEW i \in DOMAIN l, m[i] # l[i] PROVE l[i].thread \in ts /\ Reached(l, i)
  BY <1>4 DEF Advance
<1> HIDE DEF m
<1>5. ASSUME NEW i \in DOMAIN l, NEW j \in DOMAIN l, i < j, l[i].thread = l[j].thread,
             l[i].result # "done", m[j].result = "done"
      PROVE  l[i].thread \in ts /\ Resolves(l[i]) /\ Reached(l, i)
  <2>1. CASE l[j].result = "done"
    <3>1. l[i].thread \in ts /\ Resolves(l[i])
      BY <1>5, <2>1 DEF NearlyOrdered
    <3>2. ASSUME NEW k \in Unsettled(l, l[i].thread), k < i PROVE Resolves(l[k])
      <4>1. k \in DOMAIN l /\ k \in Nat /\ l[k].thread = l[j].thread /\ l[k].result # "done"
        BY <1>1, <1>5 DEF Unsettled
      <4>2. k < j
        BY <1>1, <1>5, <3>2, <4>1
      <4> QED BY <2>1, <4>1, <4>2 DEF NearlyOrdered
    <3> QED BY <3>1, <3>2 DEF Reached
  <2>2. CASE l[j].result # "done"
    <3>1. l[j].thread \in ts /\ Reached(l, j)
      BY <1>4, <1>5, <2>2
    <3>2. Resolves(l[i])
      BY <1>5, <3>1 DEF Reached, Unsettled
    <3>3. ASSUME NEW k \in Unsettled(l, l[i].thread), k < i PROVE Resolves(l[k])
      <4>1. k \in Nat /\ i \in Nat /\ j \in Nat
        BY <1>1 DEF Unsettled
      <4>2. k < j
        BY <1>5, <3>3, <4>1
      <4> QED BY <1>5, <3>1, <4>2 DEF Reached
    <3> QED BY <1>5, <3>1, <3>2, <3>3 DEF Reached
  <2> QED BY <2>1, <2>2
<1>6. Ordered(m)
  <2> SUFFICES ASSUME NEW i \in DOMAIN l, NEW j \in DOMAIN l, i < j, m[i].thread = m[j].thread, m[j].result = "done"
               PROVE  m[i].result = "done"
    BY <1>1 DEF Ordered
  <2>1. l[i].thread = l[j].thread
    BY <1>2
  <2> QED BY <1>2, <1>3, <1>5, <2>1
<1> QED BY <1>6 DEF m

\* Abandoned calls are out of order only until the walk.
LEMMA AbandonOrders ==
    ASSUME NEW l \in Logs, NEW ts, Ordered(l)
    PROVE  NearlyOrdered(Abandon(l, ts), ts)
<1> DEFINE a == Abandon(l, ts)
<1>1. DOMAIN a = DOMAIN l
  BY DEF Abandon
<1>2. \A i \in DOMAIN l : /\ l[i] \in Call /\ a[i].thread = l[i].thread
                          /\ l[i].result # "none" \/ l[i].thread \notin ts => a[i] = l[i]
                          /\ l[i].result = "none" /\ l[i].thread \in ts => a[i].result = "done"
  BY AbandonKeeps DEF SoundCall, Logs
<1> HIDE DEF a
<1>3. ASSUME NEW i \in DOMAIN l, NEW j \in DOMAIN l, i < j, a[i].thread = a[j].thread, a[j].result = "done",
             a[i].result # "done"
      PROVE  a[i].thread \in ts /\ Resolves(a[i])
  <2>0. /\ l[i].result # "none" \/ l[i].thread \notin ts => a[i] = l[i]
        /\ l[i].result = "none" /\ l[i].thread \in ts => a[i].result = "done"
        /\ l[j].result # "none" \/ l[j].thread \notin ts => a[j] = l[j]
        /\ l[i].thread = l[j].thread /\ l[i].thread = a[i].thread
        /\ l[i].result \in {"none", "held", "done"}
    BY <1>2, <1>3 DEF Call
  <2>1. l[i].result # "done"
    BY <1>3, <2>0
  <2>2. l[j].result # "done"
    BY <1>3, <2>0, <2>1 DEF Ordered
  <2>3. l[j].thread \in ts
    BY <1>3, <2>0, <2>2
  <2>4. l[i].result = "held" /\ a[i] = l[i]
    BY <1>3, <2>0, <2>1, <2>3
  <2> QED BY <2>0, <2>3, <2>4 DEF Resolves
<1>4. NearlyOrdered(a, ts)
  BY <1>1, <1>3, Zenon DEF NearlyOrdered
<1> QED BY <1>4 DEF a

\* So are a send's.
LEMMA AppendedOrders ==
    ASSUME NEW l \in Logs, NEW t, NEW batch \in Batches(l, t), Ordered(l)
    PROVE  NearlyOrdered(Appended(l, batch, {t}), {t})
<1> DEFINE seen == Received(l, batch)
           written == Written(l, batch, t)
           a == Appended(l, batch, {t})
<1>1. a = [j \in DOMAIN l |-> IF j \in written THEN Consume(seen[j]) ELSE seen[j]]
  BY DEF Appended
<1>2. seen \in Logs /\ DOMAIN seen = DOMAIN l
  BY ReceivedSound
<1>3. \A i \in DOMAIN l : a[i].thread = l[i].thread /\ seen[i].thread = l[i].thread
  BY AppendedKeeps, ReceivedThread
<1>4. \A j \in written : j \in Unsettled(seen, t) /\ Resolves(seen[j]) /\ Reached(seen, j)
  BY DEF Written, Resolved
<1>5. \A j \in DOMAIN l : seen[j].result = "done" => l[j].result = "done"
  <2> SUFFICES ASSUME NEW j \in DOMAIN l PROVE seen[j].result \in {"held", l[j].result}
    BY Zenon
  <2>1. l[j] \in Call
    BY DEF SoundCall, Logs
  <2>3. \E x, z : \E y \in {"held", l[j].result} : seen[j] = [l[j] EXCEPT !.conf = x, !.result = y, !.answers = z]
    BY Zenon DEF Received
  <2> HIDE DEF seen
  <2>4. PICK x, z : \E y \in {"held", l[j].result} : seen[j] = [l[j] EXCEPT !.conf = x, !.result = y, !.answers = z]
    BY <2>3
  <2>5. PICK y \in {"held", l[j].result} : seen[j] = [l[j] EXCEPT !.conf = x, !.result = y, !.answers = z]
    BY <2>4
  <2>6. [l[j] EXCEPT !.conf = x, !.result = y, !.answers = z].result = y
    BY <2>1 DEF Call
  <2> QED BY <2>5, <2>6
<1>6. Continues(a, l)
  BY AppendedContinues
<1> HIDE DEF a, seen, written
<1>7. ASSUME NEW i \in DOMAIN l, NEW j \in DOMAIN l, i < j, a[i].thread = a[j].thread, a[j].result = "done",
             a[i].result # "done"
      PROVE  a[i].thread \in {t} /\ Resolves(a[i])
  <2>1. l[i].result # "done" /\ l[i].thread = l[j].thread
    BY <1>3, <1>6, <1>7 DEF Continues
  <2>2. l[j].result # "done"
    BY <1>7, <2>1 DEF Ordered
  <2>3. j \in written
    BY <1>1, <1>5, <1>7, <2>2
  <2>4. seen[j].thread = t /\ Reached(seen, j)
    BY <1>4, <2>3 DEF Unsettled
  <2>5. i \in Unsettled(seen, t)
    BY <1>2, <1>3, <1>5, <2>1, <2>4 DEF Unsettled
  <2>6. Resolves(seen[i])
    BY <1>7, <2>4, <2>5 DEF Reached
  <2>7. i \notin written
    <3> SUFFICES ASSUME i \in written PROVE FALSE
      OBVIOUS
    <3>1. a[i] = Consume(seen[i]) /\ seen[i] \in Call
      BY <1>1, <1>2 DEF SoundCall, Logs
    <3> QED BY <1>7, <2>6, <3>1, ConsumeKeeps
  <2> QED BY <1>1, <1>3, <2>1, <2>4, <2>6, <2>7
<1>8. NearlyOrdered(a, {t})
  <2>1. DOMAIN a = DOMAIN l
    BY <1>1
  <2> QED BY <1>7, <2>1, Zenon DEF NearlyOrdered
<1> QED BY <1>8 DEF a

-----------------------------------------------------------------------------
(* The inductive invariant: the log is well formed, and a brain's claim is of a *)
(* thread's turn, so that the calls it appends belong to a thread.              *)

Job == [slot : Slots \cup {Null}, phase : {"off", "claimed", "admitted", "cleared", "asking", "running"},
        plan : SUBSET Nat]

SessionInv ==
    /\ log \in Logs
    /\ job \in [Workers -> Job]
    /\ \A b \in Brains : job[b].slot \in Threads \cup {Null}

\* A driver's results keep the log well formed and its length.
LEMMA WithResultsSound ==
    ASSUME NEW l \in Logs, NEW done
    PROVE  WithResults(l, done) \in Logs /\ Len(WithResults(l, done)) = Len(l)
<1>1. \A i \in DOMAIN l : WithResults(l, done)[i] \in SoundCall
  BY SettledSound DEF WithResults, SoundCall, Call, Logs
<1>2. WithResults(l, done) \in [1..Len(l) -> SoundCall]
  BY <1>1 DEF WithResults
<1> QED BY <1>2, MapIsSeq DEF Logs

\* What a turn appends.
LEMMA NewCallsSound ==
    ASSUME NEW l \in Logs, NEW r \in Replies, NEW t \in Threads
    PROVE  LET calls == [n \in DOMAIN r.uses |-> NewCall(t, InEnv(r.uses[n]))] IN
           /\ calls \in Logs
           /\ l \o calls \in Logs
           /\ Len(l \o calls) = Len(l) + Len(calls)
<1> DEFINE calls == [n \in DOMAIN r.uses |-> NewCall(t, InEnv(r.uses[n]))]
           Use == [lane : Lanes, perm : {"allow", "ask"}]
<1>1. r.uses \in Seq(Use)
  BY ReplyAssumption, Zenon
<1>2. ASSUME NEW n \in DOMAIN r.uses PROVE NewCall(t, InEnv(r.uses[n])) \in SoundCall
  <2>1. r.uses[n] \in Use
    <3> HIDE DEF Use, calls
    <3> QED BY <1>1
  <2> QED BY <2>1 DEF NewCall, InEnv, Lanes, SoundCall, Call
<1>3. calls \in [1..Len(r.uses) -> SoundCall]
  BY <1>1, <1>2
<1>4. calls \in Logs
  <2>1. Len(r.uses) \in Nat
    BY <1>1
  <2> HIDE DEF calls
  <2> QED BY <1>3, <2>1, MapIsSeq DEF Logs
<1> QED BY <1>4 DEF Logs

\* So does an interrupt.
LEMMA AbandonedSound ==
    ASSUME NEW l \in Logs, NEW ts
    PROVE  Abandoned(l, ts) \in Logs
BY AbandonSound, AdvanceSound DEF Abandoned

\* A worker without an item has a job of the type.
LEMMA OffIsJob == Off \in Job
BY DEF Off, Job

\* A worker that lets its item go keeps the types of the jobs.
LEMMA DoneKeepsJobs ==
    ASSUME SessionInv, NEW w \in Workers, Done(w)
    PROVE  job' \in [Workers -> Job] /\ \A b \in Brains : job'[b].slot \in Threads \cup {Null}
<1>1. job'[w] = Off /\ \A v \in Workers \ {w} : job'[v] = job[v]
  BY DEF Done, SessionInv
<1>2. job' \in [Workers -> Job]
  BY OffIsJob DEF Done, SessionInv
<1>3. Off.slot = Null
  BY DEF Off
<1> QED BY <1>1, <1>2, <1>3 DEF SessionInv, Workers

\* So does one that goes on to its next phase.
LEMMA PhaseKeepsJobs ==
    ASSUME SessionInv, NEW w \in Workers, NEW p \in {"admitted", "cleared", "asking"},
           job' = [job EXCEPT ![w].phase = p]
    PROVE  job' \in [Workers -> Job] /\ \A b \in Brains : job'[b].slot \in Threads \cup {Null}
<1>1. job[w] \in Job
  BY DEF SessionInv
<1>2. [job[w] EXCEPT !.phase = p] \in Job /\ [job[w] EXCEPT !.phase = p].slot = job[w].slot
  BY <1>1 DEF Job
<1>3. job' = [job EXCEPT ![w] = [job[w] EXCEPT !.phase = p]]
  BY DEF SessionInv
<1> QED BY <1>2, <1>3 DEF SessionInv, Workers

\* What a client does keeps the log well formed.
LEMMA ClientKeepsInv ==
    ASSUME SessionInv,
           \/ SendMessage \/ SendAnswers \/ InterruptAll \/ ArchiveSession \/ FleetStops
           \/ \E t \in Threads : InterruptThread(t) \/ ArchiveThread(t)
    PROVE  SessionInv'
<1>1. UNCHANGED job
  BY Zenon DEF SendMessage, SendAnswers, InterruptAll, ArchiveSession, FleetStops, InterruptThread, ArchiveThread
<1>2. log' \in Logs
  <2>1. CASE SendMessage \/ FleetStops
    BY <2>1 DEF SendMessage, FleetStops, SessionInv
  <2>2. CASE SendAnswers
    <3>0. PICK t \in Live(db) :
            \E batch \in Batches(log, t) : log' = Advance(Appended(log, batch, {t}), {t})
      BY <2>2 DEF SendAnswers
    <3>1. PICK batch \in Batches(log, t) : log' = Advance(Appended(log, batch, {t}), {t})
      BY <3>0
    <3>2. Appended(log, batch, {t}) \in Logs
      BY AppendedSound DEF SessionInv
    <3> QED BY <3>1, <3>2, AdvanceSound
  <2>3. CASE InterruptAll \/ ArchiveSession \/ \E t \in Threads : InterruptThread(t) \/ ArchiveThread(t)
    <3>1. \E ts : log' = Abandoned(log, ts)
      BY <2>3, Zenon DEF InterruptAll, ArchiveSession, InterruptThread, ArchiveThread
    <3> QED BY <3>1, AbandonedSound DEF SessionInv
  <2> QED BY <2>1, <2>2, <2>3
<1> QED BY <1>1, <1>2 DEF SessionInv

LEMMA QueueKeepsInv ==
    ASSUME SessionInv,
           \/ \E s \in Slots : Lapse(s) \/ \E w \in Workers : Claim(w, s)
           \/ \E w \in Workers : Abort(w)
    PROVE  SessionInv'
<1>1. CASE \E s \in Slots : Lapse(s)
  BY <1>1 DEF Lapse, SessionInv
<1>2. ASSUME NEW s \in Slots, NEW w \in Workers, Claim(w, s) PROVE SessionInv'
  <2> DEFINE held == [Off EXCEPT !.slot = s, !.phase = "claimed"]
  <2>1. held \in Job /\ held.slot = s
    BY Zenon DEF Off, Job
  <2>2. job' = [job EXCEPT ![w] = held] /\ UNCHANGED log
    BY <1>2, Zenon DEF Claim
  <2>3. w \in Brains => s \in Threads
    BY <1>2, Zenon DEF Claim, Serves
  <2> HIDE DEF held
  <2> QED BY <2>1, <2>2, <2>3 DEF SessionInv, Workers
<1>3. ASSUME NEW w \in Workers, Abort(w) PROVE SessionInv'
  BY <1>3, DoneKeepsJobs, Zenon DEF Abort, Done, SessionInv
<1> QED BY <1>1, <1>2, <1>3

LEMMA BrainKeepsInv ==
    ASSUME SessionInv, NEW b \in Brains, BrainStep(b)
    PROVE  SessionInv'
<1> b \in Workers
  BY DEF Workers
<1>1. CASE RefuseTurn(b) \/ FinishTurn(b) \/ FailTurn(b) \/ FailUnrouted(b) \/ ReleaseTurn(b)
  <2>1. Done(b) /\ UNCHANGED log
    BY <1>1 DEF RefuseTurn, FinishTurn, FailTurn, SettleTurn, FailUnrouted, ReleaseTurn
  <2> QED BY <2>1, DoneKeepsJobs DEF SessionInv
<1>2. CASE StartRequest(b) \/ ClearTurn(b)
  <2>1. /\ \E p \in {"cleared", "asking"} : job' = [job EXCEPT ![b].phase = p]
        /\ UNCHANGED log
    BY <1>2 DEF StartRequest, ClearTurn
  <2> QED BY <2>1, PhaseKeepsJobs, Zenon DEF SessionInv
<1>3. CASE AdmitTurn(b)
  <2>1. Done(b) \/ job' = [job EXCEPT ![b].phase = "admitted"]
    BY <1>3 DEF AdmitTurn
  <2>2. log' = log \/ log' = Advance(log, {job[b].slot})
    BY <1>3 DEF AdmitTurn
  <2>3. log' \in Logs
    BY <2>2, AdvanceSound DEF SessionInv
  <2> QED BY <2>1, <2>3, DoneKeepsJobs, PhaseKeepsJobs DEF SessionInv
<1>4. CASE CommitTurn(b)
  <2> DEFINE t == job[b].slot
             calls(r) == [n \in DOMAIN r.uses |-> NewCall(t, InEnv(r.uses[n]))]
  <2>1. PICK r \in Replies : log' = IF calls(r) = <<>> THEN log ELSE Advance(log \o calls(r), {t})
    BY <1>4, Zenon DEF CommitTurn
  <2>2. Done(b) /\ t \in Threads
    BY <1>4 DEF CommitTurn, Commits, Holds, SessionInv
  <2>3. log \o calls(r) \in Logs
    BY <2>2, NewCallsSound DEF SessionInv
  <2>4. log' \in Logs
    BY <2>1, <2>3, AdvanceSound, Zenon DEF SessionInv
  <2> QED BY <2>2, <2>4, DoneKeepsJobs DEF SessionInv
<1> QED BY <1>1, <1>2, <1>3, <1>4 DEF BrainStep

LEMMA DriverKeepsInv ==
    ASSUME SessionInv, NEW w \in Drivers, DriverStep(w)
    PROVE  SessionInv'
<1> w \in Workers /\ w \notin Brains
  BY SessionAssumption DEF Workers
<1>1. CASE AdmitRun(w)
  <2>1. (Done(w) \/ job' = [job EXCEPT ![w].phase = "admitted"]) /\ UNCHANGED log
    BY <1>1 DEF AdmitRun
  <2> QED BY <2>1, DoneKeepsJobs, PhaseKeepsJobs DEF SessionInv
<1>2. CASE ScanUses(w)
  <2> DEFINE plan == RunnableUses(log, job[w].slot)
             held == [job[w] EXCEPT !.phase = "running", !.plan = plan]
  <2>1. job' = [job EXCEPT ![w] = held] /\ UNCHANGED log
    BY <1>2, Zenon DEF ScanUses, SessionInv
  <2>2. plan \in SUBSET Nat
    BY DEF RunnableUses, SessionInv, Logs
  <2>3. held \in Job
    <3> HIDE DEF plan
    <3> QED BY <2>2, Zenon DEF SessionInv, Job
  <2> HIDE DEF held
  <2> QED BY <2>1, <2>3 DEF SessionInv
<1>3. CASE SettleRun(w)
  <2>1. Done(w) /\ \E done : log' = Advance(WithResults(log, done), FlowThreads(db))
    BY <1>3 DEF SettleRun
  <2>2. log' \in Logs
    BY <2>1, WithResultsSound, AdvanceSound DEF SessionInv
  <2> QED BY <2>1, <2>2, DoneKeepsJobs DEF SessionInv
<1>4. CASE FinishHarvest(w)
  BY <1>4, DoneKeepsJobs DEF FinishHarvest, SessionInv
<1> QED BY <1>1, <1>2, <1>3, <1>4 DEF DriverStep

\* Whatever sends, turns, runs and interrupts write, the log is well formed, and
\* a brain's claim is of a thread's turn.
THEOREM SessionInvariant == Spec => []SessionInv
<1>1. Init => SessionInv
  <2> SUFFICES ASSUME Init PROVE SessionInv
    OBVIOUS
  <2>1. log \in Logs
    BY DEF Init, Logs
  <2>2. job \in [Workers -> Job] /\ \A w \in Workers : job[w].slot = Null
    BY OffIsJob DEF Init, Off
  <2> QED BY <2>1, <2>2 DEF SessionInv, Workers
<1>2. SessionInv /\ [Next]_vars => SessionInv'
  <2>1. SessionInv /\ UNCHANGED vars => SessionInv'
    BY DEF SessionInv, vars
  <2> QED BY <2>1, ClientKeepsInv, QueueKeepsInv, BrainKeepsInv, DriverKeepsInv DEF Next
<1> QED BY <1>1, <1>2, PTL DEF Spec

\* A call gets one result, whoever answers it first: the client, a driver's
\* commit, the denial the walk writes (AdvanceThreadTools) or an interrupt.
THEOREM OneResult == Spec => []OneResultPerCall
<1>1. SessionInv => OneResultPerCall
  BY DEF SessionInv, OneResultPerCall, SoundCall, Logs
<1> QED BY <1>1, SessionInvariant, PTL

\* Every answer the API accepts settles: the plan a send makes before its append
\* is the flow its walk finds after it, and the thread it moves runs or names
\* what it waits for.
THEOREM SendsAlwaysSettle == Spec => []SendsSettle
<1>1. SessionInv => SendsSettle
  <2> SUFFICES ASSUME SessionInv, NEW t \in Live(db), NEW batch \in Batches(log, t)
               PROVE  LET flow == Planned(log, batch, t) IN
                      /\ flow = Flow(Advance(Appended(log, batch, {t}), {t}), t)
                      /\ Running(flow) \/ flow.pending # {}
    BY DEF SendsSettle
  <2>1. Planned(log, batch, t) = Flow(Advance(Appended(log, batch, {t}), {t}), t)
    BY PlanMatchesWalk DEF SessionInv
  <2>2. Appended(log, batch, {t}) \in Logs
    BY AppendedSound DEF SessionInv
  <2> QED BY <2>1, <2>2, StopsOnAWait, Zenon
<1> QED BY <1>1, SessionInvariant, PTL

LEMMA AbandonedContinues == ASSUME NEW l, NEW ts PROVE Continues(Abandoned(l, ts), l)
<1>1. Continues(Abandon(l, ts), l)
  BY DEF Continues, Abandon
<1> QED BY <1>1, AdvanceContinues, ContinuesTransitive DEF Abandoned

\* No step changes a call that has its result, or drops one: a late result of a
\* pass is dropped (commitResults), and an interrupt answers only what is open.
THEOREM SettledStaysSettled == Spec => SettledIsFinal
<1>1. SessionInv /\ [Next]_vars => [Continues(log', log)]_vars
  <2> SUFFICES ASSUME SessionInv, Next PROVE Continues(log', log)
    OBVIOUS
  <2>1. CASE log' = log
    BY <2>1 DEF Continues
  <2>2. CASE \E ts : log' = Advance(log, ts)
    BY <2>2, AdvanceContinues
  <2>3. CASE \E ts : log' = Abandoned(log, ts)
    BY <2>3, AbandonedContinues
  <2>4. CASE SendAnswers
    <3>1. PICK t \in Live(db) :
            \E batch \in Batches(log, t) : log' = Advance(Appended(log, batch, {t}), {t})
      BY <2>4 DEF SendAnswers
    <3>2. PICK batch \in Batches(log, t) : log' = Advance(Appended(log, batch, {t}), {t})
      BY <3>1
    <3>3. Continues(Appended(log, batch, {t}), log)
      BY AppendedContinues DEF SessionInv
    <3> QED BY <3>2, <3>3, AdvanceContinues, ContinuesTransitive
  <2>5. ASSUME NEW b \in Brains, CommitTurn(b) PROVE Continues(log', log)
    <3> DEFINE t == job[b].slot
               calls(r) == [n \in DOMAIN r.uses |-> NewCall(t, InEnv(r.uses[n]))]
    <3>1. PICK r \in Replies : log' = IF calls(r) = <<>> THEN log ELSE Advance(log \o calls(r), {t})
      BY <2>5, Zenon DEF CommitTurn
    <3>2. t \in Threads
      BY <2>5 DEF CommitTurn, Commits, Holds, SessionInv
    <3>3. calls(r) \in Logs
      BY <3>2, NewCallsSound DEF SessionInv
    <3>4. Continues(log \o calls(r), log)
      <4> HIDE DEF calls
      <4> QED BY <3>3 DEF Continues, SessionInv
    <3> QED BY <2>1, <3>1, <3>4, AdvanceContinues, ContinuesTransitive
  <2>6. ASSUME NEW w \in Drivers, SettleRun(w) PROVE Continues(log', log)
    <3>1. PICK done : log' = Advance(WithResults(log, done), FlowThreads(db))
      BY <2>6 DEF SettleRun
    <3>2. Continues(WithResults(log, done), log)
      BY DEF Continues, WithResults
    <3> QED BY <3>1, <3>2, AdvanceContinues, ContinuesTransitive
  <2>7. CASE InterruptAll \/ ArchiveSession \/ \E t \in Threads : InterruptThread(t) \/ ArchiveThread(t)
    <3>1. \E ts : log' = Abandoned(log, ts)
      BY <2>7, Zenon DEF InterruptAll, ArchiveSession, InterruptThread, ArchiveThread
    <3> QED BY <2>3, <3>1
  <2>8. CASE SendMessage \/ FleetStops \/ (\E s \in Slots : Lapse(s) \/ \E w \in Workers : Claim(w, s))
             \/ \E w \in Workers : Abort(w)
    BY <2>1, <2>8, Zenon DEF SendMessage, FleetStops, Lapse, Claim, Abort
  <2>9. ASSUME NEW b \in Brains, AdmitTurn(b) PROVE Continues(log', log)
    <3>1. log' = log \/ log' = Advance(log, {job[b].slot})
      BY <2>9 DEF AdmitTurn
    <3> QED BY <2>1, <2>2, <3>1
  <2>10. ASSUME NEW b \in Brains, BrainStep(b), ~AdmitTurn(b), ~CommitTurn(b) PROVE log' = log
    BY <2>10 DEF BrainStep, RefuseTurn, ClearTurn, StartRequest, FinishTurn, FailTurn, SettleTurn, FailUnrouted, ReleaseTurn
  <2>11. ASSUME NEW w \in Drivers, DriverStep(w), ~SettleRun(w) PROVE log' = log
    BY <2>11 DEF DriverStep, AdmitRun, ScanUses, FinishHarvest
  <2> QED BY <2>1, <2>4, <2>5, <2>6, <2>7, <2>8, <2>9, <2>10, <2>11 DEF Next
<1>2. SessionInv /\ [Next]_vars =>
        [\A i \in DOMAIN log : /\ i \in DOMAIN log'
                               /\ log[i].result = "done" => log'[i] = log[i]]_vars
  BY <1>1 DEF Continues
<1> QED BY <1>2, SessionInvariant, PTL DEF Spec, SettledIsFinal

-----------------------------------------------------------------------------
(* The session's rows, and what each operation does to them. *)

\* The types of a thread's status and of the session's rows.
St == [status : {"absent", "running", "idle", "terminated"},
       stop : {"none", "end_turn", "requires_action", "retries_exhausted"}, ids : SUBSET Nat]

Db == [env : {"cloud", "self_hosted"}, th : [Threads -> St], sess : {"running", "idle"},
       unread : [Threads -> SUBSET {"user", "result", "peer"}],
       item : [Slots -> {"none", "queued", "active"}], chain : [Threads -> Nat],
       own : [Slots -> Workers \cup {Null}], spent : Nat,
       archived : BOOLEAN, parked : BOOLEAN, halted : BOOLEAN]

\* e's rows are d's, but for the input, the settlement chains, the budget and the
\* interrupt's mark.
SameRows(e, d) ==
    /\ e \in Db /\ e.env = d.env
    /\ e.th = d.th /\ e.sess = d.sess /\ e.item = d.item /\ e.own = d.own
    /\ e.archived = d.archived /\ e.parked = d.parked

\* MoveAll sets the status of the threads it is given, folds the session's, and
\* unparks a moved coordinator; no other column changes.
LEMMA MoveAllFields ==
    ASSUME NEW d \in Db, NEW D \in SUBSET Threads, NEW to \in [D -> St]
    PROVE  /\ MoveAll(d, to) \in Db
           /\ MoveAll(d, to).th = [t \in Threads |-> IF t \in D THEN to[t] ELSE d.th[t]]
           /\ MoveAll(d, to).sess = Fold(MoveAll(d, to).th)
           /\ MoveAll(d, to).parked = (d.parked /\ Primary \notin D)
           /\ MoveAll(d, to).item = d.item /\ MoveAll(d, to).own = d.own
           /\ MoveAll(d, to).archived = d.archived /\ MoveAll(d, to).env = d.env
           /\ MoveAll(d, to).unread = d.unread /\ MoveAll(d, to).spent = d.spent
           /\ MoveAll(d, to).chain = d.chain
<1> DEFINE th == [t \in Threads |-> IF t \in D THEN to[t] ELSE d.th[t]]
           parked == d.parked /\ Primary \notin D
           halted == d.halted /\ ~(Primary \in D /\ th[Primary].status = "running")
           e == [d EXCEPT !.th = th, !.sess = Fold(th), !.parked = parked, !.halted = halted]
<1>1. MoveAll(d, to) = e
  BY DEF MoveAll, Db
<1>2. th \in [Threads -> St] /\ Fold(th) \in {"running", "idle"} /\ parked \in BOOLEAN /\ halted \in BOOLEAN
  BY DEF Db, Fold
<1> HIDE DEF th, parked, halted
<1>3. /\ e.th = th /\ e.sess = Fold(th) /\ e.parked = parked
      /\ e.item = d.item /\ e.own = d.own /\ e.archived = d.archived /\ e.env = d.env
      /\ e.unread = d.unread /\ e.spent = d.spent /\ e.chain = d.chain
  BY DEF Db
<1>4. e \in Db
  BY <1>2, Zenon DEF Db
<1> HIDE DEF e
<1> QED BY <1>1, <1>3, <1>4 DEF th, parked

\* Enqueue queues an item where the slot has none, and nothing else.
LEMMA EnqueueFields ==
    ASSUME NEW d \in Db, NEW s \in Slots
    PROVE  /\ Enqueue(d, s) \in Db
           /\ Enqueue(d, s).item = [d.item EXCEPT ![s] = IF d.item[s] = "none" THEN "queued" ELSE d.item[s]]
           /\ Enqueue(d, s).th = d.th /\ Enqueue(d, s).sess = d.sess /\ Enqueue(d, s).own = d.own
           /\ Enqueue(d, s).archived = d.archived /\ Enqueue(d, s).parked = d.parked
           /\ Enqueue(d, s).env = d.env /\ Enqueue(d, s).unread = d.unread /\ Enqueue(d, s).spent = d.spent
           /\ Enqueue(d, s).chain = d.chain
<1>1. CASE d.item[s] = "none"
  <2> DEFINE e == [d EXCEPT !.item = [d.item EXCEPT ![s] = "queued"]]
  <2>1. Enqueue(d, s) = e
    BY <1>1 DEF Enqueue
  <2>2. /\ e.item = [d.item EXCEPT ![s] = "queued"] /\ e.th = d.th /\ e.sess = d.sess /\ e.own = d.own
        /\ e.archived = d.archived /\ e.parked = d.parked /\ e.env = d.env /\ e.unread = d.unread
        /\ e.spent = d.spent /\ e.chain = d.chain
    BY DEF Db
  <2>3. e \in Db
    <3>1. [d.item EXCEPT ![s] = "queued"] \in [Slots -> {"none", "queued", "active"}]
      BY DEF Db
    <3> QED BY <3>1, Zenon DEF Db
  <2> HIDE DEF e
  <2> QED BY <1>1, <2>1, <2>2, <2>3
<1>2. CASE d.item[s] # "none"
  <2>1. Enqueue(d, s) = d
    BY <1>2 DEF Enqueue
  <2>2. d.item = [d.item EXCEPT ![s] = d.item[s]]
    BY DEF Db
  <2> QED BY <1>2, <2>1, <2>2
<1> QED BY <1>1, <1>2

\* The same for the turns of a set of threads.
LEMMA EnqueueTurnsFields ==
    ASSUME NEW d \in Db, NEW ts \in SUBSET Threads
    PROVE  /\ EnqueueTurns(d, ts) \in Db
           /\ EnqueueTurns(d, ts).item =
                [s \in Slots |-> IF s \in ts /\ d.item[s] = "none" THEN "queued" ELSE d.item[s]]
           /\ EnqueueTurns(d, ts).th = d.th /\ EnqueueTurns(d, ts).sess = d.sess
           /\ EnqueueTurns(d, ts).own = d.own /\ EnqueueTurns(d, ts).archived = d.archived
           /\ EnqueueTurns(d, ts).parked = d.parked /\ EnqueueTurns(d, ts).env = d.env
           /\ EnqueueTurns(d, ts).unread = d.unread /\ EnqueueTurns(d, ts).spent = d.spent
<1> DEFINE fresh == {t \in ts : d.item[t] = "none"}
           item == [s \in Slots |-> IF s \in fresh THEN "queued" ELSE d.item[s]]
           chain == [t \in Threads |-> IF t \in fresh THEN 0 ELSE d.chain[t]]
           e == [d EXCEPT !.item = item, !.chain = chain]
<1>1. EnqueueTurns(d, ts) = e
  BY DEF EnqueueTurns, Db
<1>2. item \in [Slots -> {"none", "queued", "active"}] /\ chain \in [Threads -> Nat]
  BY DEF Db
<1>3. item = [s \in Slots |-> IF s \in ts /\ d.item[s] = "none" THEN "queued" ELSE d.item[s]]
  OBVIOUS
<1> HIDE DEF item, chain, fresh
<1>4. /\ e.item = item /\ e.th = d.th /\ e.sess = d.sess /\ e.own = d.own
      /\ e.archived = d.archived /\ e.parked = d.parked /\ e.env = d.env /\ e.unread = d.unread
      /\ e.spent = d.spent
  BY DEF Db
<1>5. e \in Db
  BY <1>2, Zenon DEF Db
<1> HIDE DEF e
<1> QED BY <1>1, <1>3, <1>4, <1>5

\* Cancel removes the items of its slots and their claims, and nothing else.
LEMMA CancelFields ==
    ASSUME NEW d \in Db, NEW ss \in SUBSET Slots
    PROVE  /\ Cancel(d, ss) \in Db
           /\ Cancel(d, ss).item = [s \in Slots |-> IF s \in ss THEN "none" ELSE d.item[s]]
           /\ Cancel(d, ss).own = [s \in Slots |-> IF s \in ss THEN Null ELSE d.own[s]]
           /\ Cancel(d, ss).th = d.th /\ Cancel(d, ss).sess = d.sess /\ Cancel(d, ss).archived = d.archived
           /\ Cancel(d, ss).parked = d.parked /\ Cancel(d, ss).env = d.env
           /\ Cancel(d, ss).unread = d.unread /\ Cancel(d, ss).spent = d.spent /\ Cancel(d, ss).chain = d.chain
<1> DEFINE item == [s \in Slots |-> IF s \in ss THEN "none" ELSE d.item[s]]
           own == [s \in Slots |-> IF s \in ss THEN Null ELSE d.own[s]]
           e == [d EXCEPT !.item = item, !.own = own]
<1>1. Cancel(d, ss) = e
  BY DEF Cancel, Db
<1>2. item \in [Slots -> {"none", "queued", "active"}] /\ own \in [Slots -> Workers \cup {Null}]
  BY DEF Db
<1> HIDE DEF item, own
<1>4. /\ e.item = item /\ e.own = own /\ e.th = d.th /\ e.sess = d.sess /\ e.archived = d.archived
      /\ e.parked = d.parked /\ e.env = d.env /\ e.unread = d.unread /\ e.spent = d.spent /\ e.chain = d.chain
  BY DEF Db
<1>5. e \in Db
  BY <1>2, Zenon DEF Db
<1> HIDE DEF e
<1> QED BY <1>1, <1>4, <1>5 DEF item, own

\* Completing an item removes it as a cancel does.
LEMMA CompleteIsCancel == ASSUME NEW d \in Db, NEW s \in Slots PROVE Complete(d, s) = Cancel(d, {s})
<1> DEFINE item == [d.item EXCEPT ![s] = "none"]
           own == [d.own EXCEPT ![s] = Null]
<1>1. item = [x \in Slots |-> IF x \in {s} THEN "none" ELSE d.item[x]]
  BY DEF Db
<1>2. own = [x \in Slots |-> IF x \in {s} THEN Null ELSE d.own[x]]
  BY DEF Db
<1>3. Complete(d, s) = [d EXCEPT !.item = item, !.own = own]
  BY DEF Complete, Db
<1>4. Cancel(d, {s}) = [d EXCEPT !.item = [x \in Slots |-> IF x \in {s} THEN "none" ELSE d.item[x]],
                                 !.own = [x \in Slots |-> IF x \in {s} THEN Null ELSE d.own[x]]]
  BY DEF Cancel, Db
<1> QED BY <1>1, <1>2, <1>3, <1>4, Zenon

\* RequeueTurn puts the turn back without its claim, and nothing else.
LEMMA RequeueFields ==
    ASSUME NEW d \in Db, NEW t \in Threads, NEW n \in Nat
    PROVE  /\ RequeueTurn(d, t, n) \in Db
           /\ RequeueTurn(d, t, n).item = [d.item EXCEPT ![t] = "queued"]
           /\ RequeueTurn(d, t, n).own = [d.own EXCEPT ![t] = Null]
           /\ RequeueTurn(d, t, n).th = d.th /\ RequeueTurn(d, t, n).sess = d.sess
           /\ RequeueTurn(d, t, n).archived = d.archived /\ RequeueTurn(d, t, n).parked = d.parked
           /\ RequeueTurn(d, t, n).env = d.env /\ RequeueTurn(d, t, n).unread = d.unread
           /\ RequeueTurn(d, t, n).spent = d.spent
<1> t \in Slots
  BY DEF Slots
<1> DEFINE item == [d.item EXCEPT ![t] = "queued"]
           own == [d.own EXCEPT ![t] = Null]
           chain == [d.chain EXCEPT ![t] = n]
           e == [d EXCEPT !.item = item, !.own = own, !.chain = chain]
<1>1. RequeueTurn(d, t, n) = e
  BY DEF RequeueTurn, Requeue, Db
<1>2. item \in [Slots -> {"none", "queued", "active"}] /\ own \in [Slots -> Workers \cup {Null}] /\ chain \in [Threads -> Nat]
  BY DEF Db
<1> HIDE DEF item, own, chain
<1>4. /\ e.item = item /\ e.own = own /\ e.th = d.th /\ e.sess = d.sess /\ e.archived = d.archived
      /\ e.parked = d.parked /\ e.env = d.env /\ e.unread = d.unread /\ e.spent = d.spent
  BY DEF Db
<1>5. e \in Db
  BY <1>2, Zenon DEF Db
<1> HIDE DEF e
<1> QED BY <1>1, <1>4, <1>5 DEF item, own

\* An update of the input and the budget.
WithInput(d, unread, spent) == [d EXCEPT !.unread = unread, !.spent = spent]

\* An update of the input and the budget touches no other row.
LEMMA InputFields ==
    ASSUME NEW d \in Db, NEW u \in [Threads -> SUBSET {"user", "result", "peer"}], NEW n \in Nat
    PROVE  SameRows(WithInput(d, u, n), d) /\ WithInput(d, u, n).unread = u /\ WithInput(d, u, n).spent = n
<1> DEFINE e == [d EXCEPT !.unread = u, !.spent = n]
<1>1. e \in Db
  BY Zenon DEF Db
<1>2. /\ e.env = d.env /\ e.th = d.th /\ e.sess = d.sess /\ e.item = d.item /\ e.own = d.own
      /\ e.archived = d.archived /\ e.parked = d.parked /\ e.unread = u /\ e.spent = n
  BY DEF Db
<1> QED BY <1>1, <1>2, Zenon DEF SameRows, WithInput

\* An update of one thread's input touches no other row.
LEMMA UnreadFields ==
    ASSUME NEW d \in Db, NEW t \in Threads, NEW new \in SUBSET {"user", "result", "peer"}
    PROVE  LET e == [d EXCEPT !.unread[t] = new] IN
           SameRows(e, d) /\ e.unread = [d.unread EXCEPT ![t] = new] /\ e.spent = d.spent
<1> DEFINE unread == [d.unread EXCEPT ![t] = new]
           e == [d EXCEPT !.unread = unread]
<1>1. unread \in [Threads -> SUBSET {"user", "result", "peer"}]
  BY DEF Db
<1> HIDE DEF unread
<1>2. e \in Db
  BY <1>1, Zenon DEF Db
<1>3. /\ e.env = d.env /\ e.th = d.th /\ e.sess = d.sess /\ e.item = d.item /\ e.own = d.own
      /\ e.archived = d.archived /\ e.parked = d.parked /\ e.unread = unread /\ e.spent = d.spent
  BY DEF Db
<1> QED BY <1>2, <1>3 DEF SameRows, unread

\* A message to a thread adds to its input only.
LEMMA TellFields ==
    ASSUME NEW d \in Db, NEW t \in Threads
    PROVE  /\ SameRows(Tell(d, t), d) /\ Tell(d, t).spent = d.spent
           /\ Tell(d, t).unread = [d.unread EXCEPT ![t] = @ \cup {"peer"}]
<1> DEFINE new == d.unread[t] \cup {"peer"}
<1>1. new \in SUBSET {"user", "result", "peer"}
  BY DEF Db
<1>2. Tell(d, t) = [d EXCEPT !.unread[t] = new]
  BY DEF Tell
<1> HIDE DEF new
<1> QED BY <1>1, <1>2, UnreadFields DEF new

\* A user's message adds to the primary's input and resets the budget.
LEMMA DemandFields ==
    ASSUME NEW d \in Db
    PROVE  /\ SameRows(Demand(d), d) /\ Demand(d).spent = 0
           /\ Demand(d).unread = [d.unread EXCEPT ![Primary] = @ \cup {"user"}]
<1> DEFINE unread == [d.unread EXCEPT ![Primary] = @ \cup {"user"}]
<1>1. unread \in [Threads -> SUBSET {"user", "result", "peer"}]
  BY DEF Db
<1>2. Demand(d) = WithInput(d, unread, 0)
  BY DEF Demand, Db, WithInput
<1> HIDE DEF unread
<1> QED BY <1>1, <1>2, InputFields DEF unread

\* Answers add a result to their thread's input.
LEMMA PostedFields ==
    ASSUME NEW d \in Db, NEW t \in Threads, NEW batch
    PROVE  /\ SameRows(Posted(d, batch, t), d) /\ Posted(d, batch, t).spent = d.spent
           /\ Posted(d, batch, t).unread =
                [d.unread EXCEPT ![t] = IF \E a \in batch : a.says = "result" THEN @ \cup {"result"} ELSE @]
<1> DEFINE new == IF \E a \in batch : a.says = "result" THEN d.unread[t] \cup {"result"} ELSE d.unread[t]
<1>1. new \in SUBSET {"user", "result", "peer"}
  BY DEF Db
<1>2. Posted(d, batch, t) = [d EXCEPT !.unread[t] = new]
  BY DEF Posted
<1> HIDE DEF new
<1> QED BY <1>1, <1>2, UnreadFields DEF new

\* A turn's charge is at most one of the budget.
LEMMA ChargedFields ==
    ASSUME NEW d \in Db, NEW t, NEW ops
    PROVE  /\ SameRows(Charged(d, t, ops), d) /\ Charged(d, t, ops).unread = d.unread
           /\ Charged(d, t, ops).spent \in {d.spent, d.spent + 1}
<1> DEFINE spent == IF \E n \in DOMAIN ops : Offered(t, ops[n].op) THEN d.spent + 1 ELSE d.spent
<1>1. spent \in {d.spent, d.spent + 1}
  OBVIOUS
<1>2. Charged(d, t, ops) = WithInput(d, d.unread, spent)
  BY DEF Charged, Db, WithInput
<1>3. d.unread \in [Threads -> SUBSET {"user", "result", "peer"}] /\ d.spent \in Nat
  BY DEF Db
<1>4. spent \in Nat
  BY <1>1, <1>3
<1> HIDE DEF spent
<1> QED BY <1>1, <1>2, <1>3, <1>4, InputFields

\* An interrupt unparks the coordinator, and touches no thread and no item.
LEMMA HaltFields ==
    ASSUME NEW d \in Db
    PROVE  /\ Halt(d) \in Db /\ Halt(d).env = d.env /\ Halt(d).th = d.th /\ Halt(d).sess = d.sess
           /\ Halt(d).item = d.item /\ Halt(d).own = d.own /\ Halt(d).archived = d.archived
           /\ ~Halt(d).parked /\ Halt(d).unread = d.unread /\ Halt(d).spent = d.spent
<1> DEFINE h == d.th[Primary].status = "idle"
           e == [d EXCEPT !.halted = h, !.parked = FALSE]
<1>1. Halt(d) = e
  BY DEF Halt
<1>2. h \in BOOLEAN
  OBVIOUS
<1> HIDE DEF h
<1>3. e \in Db
  BY <1>2, Zenon DEF Db
<1>4. /\ e.env = d.env /\ e.th = d.th /\ e.sess = d.sess /\ e.item = d.item /\ e.own = d.own
      /\ e.archived = d.archived /\ e.unread = d.unread /\ e.spent = d.spent
  BY DEF Db
<1>5. ~e.parked
  BY Zenon DEF Db
<1> HIDE DEF e
<1> QED BY <1>1, <1>3, <1>4, <1>5

\* A lease that is lost.
LEMMA UnownFields ==
    ASSUME NEW d \in Db, NEW s \in Slots
    PROVE  LET e == [d EXCEPT !.own[s] = Null] IN
           /\ e \in Db /\ e.env = d.env /\ e.th = d.th /\ e.sess = d.sess /\ e.item = d.item
           /\ e.own = [d.own EXCEPT ![s] = Null] /\ e.archived = d.archived /\ e.parked = d.parked
           /\ e.unread = d.unread /\ e.spent = d.spent
<1> DEFINE own == [d.own EXCEPT ![s] = Null]
           e == [d EXCEPT !.own = own]
<1>1. own \in [Slots -> Workers \cup {Null}]
  BY DEF Db
<1> HIDE DEF own
<1>2. e \in Db
  BY <1>1, Zenon DEF Db
<1>3. /\ e.env = d.env /\ e.th = d.th /\ e.sess = d.sess /\ e.item = d.item /\ e.own = own
      /\ e.archived = d.archived /\ e.parked = d.parked /\ e.unread = d.unread /\ e.spent = d.spent
  BY DEF Db
<1> QED BY <1>2, <1>3 DEF own

\* A log's next work is of a kind of executor, or of none.
LEMMA ExecClassKinds == \A l : ExecClass(l) \in Execs \cup {"none"}
BY Zenon DEF ExecClass, Execs

-----------------------------------------------------------------------------
(* What the rows of a thread say about its calls, and how operations keep it. *)

\* A thread's row and turn match its calls.
Fits(st, it, flow) ==
    /\ st.status \in {"absent", "terminated"} => ~flow.unsettled
    /\ st.status = "idle" => IF st.stop = "requires_action"
                             THEN st.ids = flow.pending /\ flow.pending # {} /\ ~Running(flow)
                             ELSE ~flow.unsettled
    /\ st.status = "running" => it # "none" \/ flow.runnable
    /\ it # "none" => ~flow.unsettled

\* A turn still held is held as before, and its thread runs if it did.
Held(b, d, t) ==
    d.own[t] # Null => d.own[t] = b.own[t] /\ (b.th[t].status = "running" => d.th[t].status = "running")

Asleep(d) == \A t \in Threads : d.th[t].status # "running" /\ (t # Primary => t \notin Live(d))

\* The rows d that a transaction which began with b has made so far; X are the
\* threads it is not done with.
Rows(b, d, l, X) ==
    /\ d \in Db
    /\ d.sess = Fold(d.th)
    /\ \A t \in Threads \ X : Fits(d.th[t], d.item[t], Flow(l, t)) /\ Held(b, d, t)
    /\ \A s \in Slots : d.own[s] # Null => d.item[s] # "none"
    /\ d.archived => Asleep(d)

\* A parked coordinator waits for a busy child.
Waited(d) == d.parked => d.th[Primary] = EndTurn /\ (~d.archived => \E c \in Children : Busy(d, c))

\* e has d's threads.
Kept(e, d) == e.th = d.th /\ e.sess = d.sess /\ e.parked = d.parked /\ e.archived = d.archived /\ e.env = d.env

\* e differs from d in what is not a thread's.
Beside(e, d) == Kept(e, d) /\ \A t \in Threads : e.own[t] = d.own[t] /\ e.item[t] = d.item[t]

\* Who keeps the threads keeps what a parked coordinator waits for.
LEMMA KeptWaited == ASSUME NEW e, NEW d, Kept(e, d), Waited(d) PROVE Waited(e)
BY DEF Kept, Waited, Busy

\* Equal rows keep the threads.
LEMMA SameKept == ASSUME NEW e, NEW d, SameRows(e, d) PROVE Kept(e, d)
BY DEF SameRows, Kept

\* Keeping the threads composes.
LEMMA KeptTransitive == ASSUME NEW e, NEW d, NEW f, Kept(e, d), Kept(f, e) PROVE Kept(f, d)
BY DEF Kept

\* The rows stay fit under a change of the input and the budget.
LEMMA RowsSame ==
    ASSUME NEW b, NEW d, NEW e, NEW l, NEW X, Rows(b, d, l, X), SameRows(e, d)
    PROVE  Rows(b, e, l, X)
<1>1. Asleep(d) => Asleep(e)
  BY DEF Asleep, Live, SameRows
<1>2. \A t : Held(b, d, t) => Held(b, e, t)
  BY DEF Held, SameRows
<1> QED BY <1>1, <1>2, Zenon DEF Rows, SameRows

\* A transaction may be less far than it is.
LEMMA RowsWeaken ==
    ASSUME NEW b, NEW d, NEW l, NEW X, NEW Y, Rows(b, d, l, X), X \subseteq Y
    PROVE  Rows(b, d, l, Y)
BY Zenon DEF Rows

\* A transaction is done with the threads whose rows fit again.
LEMMA RowsClose ==
    ASSUME NEW b, NEW d, NEW l, NEW X, NEW Y, Rows(b, d, l, X),
           \A t \in (Threads \cap X) \ Y : Fits(d.th[t], d.item[t], Flow(l, t)) /\ Held(b, d, t)
    PROVE  Rows(b, d, l, Y)
BY Zenon DEF Rows

\* The rows fit every log that gives the other threads the same flow.
LEMMA RowsLog ==
    ASSUME NEW b, NEW d, NEW l, NEW m, NEW X, Rows(b, d, l, X),
           \A t \in Threads \ X : Flow(m, t) = Flow(l, t)
    PROVE  Rows(b, d, m, X)
BY Zenon DEF Rows

\* Moving threads it is not done with keeps the rows fit.
LEMMA RowsMoveAll ==
    ASSUME NEW b, NEW d, NEW l, NEW X, Rows(b, d, l, X), ~d.archived,
           NEW D \in SUBSET Threads, D \subseteq X, NEW to \in [D -> St]
    PROVE  Rows(b, MoveAll(d, to), l, X)
<1> DEFINE e == MoveAll(d, to)
<1>0. d \in Db
  BY DEF Rows
<1>1. /\ e \in Db /\ e.sess = Fold(e.th) /\ e.item = d.item /\ e.own = d.own /\ ~e.archived
      /\ e.th = [t \in Threads |-> IF t \in D THEN to[t] ELSE d.th[t]]
  BY <1>0, MoveAllFields
<1> HIDE DEF e
<1>2. \A t \in Threads \ X : e.th[t] = d.th[t]
  BY <1>1
<1>3. \A t \in Threads \ X : Fits(e.th[t], e.item[t], Flow(l, t)) /\ Held(b, e, t)
  BY <1>1, <1>2 DEF Rows, Held
<1>4. Rows(b, e, l, X)
  BY <1>1, <1>3 DEF Rows
<1> QED BY <1>4 DEF e

\* Queueing an executor's item or a harvest keeps the rows fit.
LEMMA RowsEnqueue ==
    ASSUME NEW b, NEW d, NEW l, NEW X, Rows(b, d, l, X), NEW s \in Slots, s \notin Threads
    PROVE  Rows(b, Enqueue(d, s), l, X) /\ Beside(Enqueue(d, s), d)
<1> DEFINE e == Enqueue(d, s)
<1>0. d \in Db
  BY DEF Rows
<1>1. /\ e \in Db /\ e.th = d.th /\ e.sess = d.sess /\ e.own = d.own /\ e.archived = d.archived
      /\ e.parked = d.parked /\ e.env = d.env
      /\ e.item = [d.item EXCEPT ![s] = IF d.item[s] = "none" THEN "queued" ELSE d.item[s]]
  BY <1>0, EnqueueFields
<1> HIDE DEF e
<1>2. /\ \A t \in Threads : e.item[t] = d.item[t]
      /\ \A r \in Slots : d.item[r] # "none" => e.item[r] # "none"
  BY <1>0, <1>1 DEF Db, Slots
<1>3. \A t \in Threads \ X : Fits(e.th[t], e.item[t], Flow(l, t)) /\ Held(b, e, t)
  BY <1>1, <1>2 DEF Rows, Held
<1>4. Asleep(d) => Asleep(e)
  BY <1>1 DEF Asleep, Live
<1>5. Rows(b, e, l, X)
  BY <1>1, <1>2, <1>3, <1>4 DEF Rows
<1> QED BY <1>1, <1>2, <1>5 DEF e, Kept, Beside

\* e is d with the turns of ts queued.
Queued(e, d, ts) ==
    /\ Kept(e, d) /\ e.own = d.own
    /\ \A t \in ts : e.item[t] # "none"
    /\ \A t \in Threads \ ts : e.item[t] = d.item[t]

\* Queueing the turns of threads without an open call keeps the rows fit.
LEMMA RowsEnqueueTurns ==
    ASSUME NEW b, NEW d, NEW l, NEW X, Rows(b, d, l, X), NEW ts \in SUBSET Threads,
           \A t \in ts \ X : ~Flow(l, t).unsettled
    PROVE  Rows(b, EnqueueTurns(d, ts), l, X) /\ Queued(EnqueueTurns(d, ts), d, ts)
<1> DEFINE e == EnqueueTurns(d, ts)
<1>0. d \in Db
  BY DEF Rows
<1>1. /\ e \in Db /\ e.th = d.th /\ e.sess = d.sess /\ e.own = d.own /\ e.archived = d.archived
      /\ e.parked = d.parked /\ e.env = d.env
      /\ e.item = [s \in Slots |-> IF s \in ts /\ d.item[s] = "none" THEN "queued" ELSE d.item[s]]
  BY <1>0, EnqueueTurnsFields
<1> HIDE DEF e
<1>2. /\ \A t \in ts : e.item[t] # "none"
      /\ \A s \in Slots \ ts : e.item[s] = d.item[s]
      /\ \A s \in Slots : d.item[s] # "none" => e.item[s] # "none"
  BY <1>0, <1>1 DEF Db, Slots
<1>3. ASSUME NEW t \in Threads \ X PROVE Fits(e.th[t], e.item[t], Flow(l, t)) /\ Held(b, e, t)
  <2>1. Fits(d.th[t], d.item[t], Flow(l, t)) /\ Held(b, d, t)
    BY DEF Rows
  <2>2. CASE t \in ts
    BY <1>1, <1>2, <2>1, <2>2 DEF Fits, Held
  <2>3. CASE t \notin ts
    <3>1. e.item[t] = d.item[t]
      BY <1>2, <2>3 DEF Slots
    <3> QED BY <1>1, <2>1, <3>1 DEF Held
  <2> QED BY <2>2, <2>3
<1>4. Asleep(d) => Asleep(e)
  BY <1>1 DEF Asleep, Live
<1>5. Rows(b, e, l, X)
  BY <1>1, <1>2, <1>3, <1>4 DEF Rows
<1>6. \A t \in Threads \ ts : e.item[t] = d.item[t]
  BY <1>2 DEF Slots
<1>7. Queued(e, d, ts)
  BY <1>1, <1>2, <1>6 DEF Kept, Queued
<1> QED BY <1>5, <1>7 DEF e

\* ts are threads left out of the invariant.
Among(ts, X) == ts \in SUBSET Threads /\ ts \subseteq X

\* So does queueing the turns of threads left out.
LEMMA RowsEnqueueAmong ==
    ASSUME NEW b, NEW d, NEW l, NEW X, Rows(b, d, l, X), NEW ts, Among(ts, X)
    PROVE  Rows(b, EnqueueTurns(d, ts), l, X) /\ Queued(EnqueueTurns(d, ts), d, ts)
<1>1. ts \in SUBSET Threads /\ \A x \in ts \ X : ~Flow(l, x).unsettled
  BY DEF Among
<1> QED BY <1>1, RowsEnqueueTurns

\* A status that fits its turn fits without one, unless the thread runs.
LEMMA FitsWithout ==
    ASSUME NEW st, NEW it, NEW flow, Fits(st, it, flow), st.status # "running"
    PROVE  Fits(st, "none", flow)
BY DEF Fits

\* Cancelling the items of threads that do not run keeps the rows fit.
LEMMA RowsCancel ==
    ASSUME NEW b, NEW d, NEW l, NEW X, Rows(b, d, l, X), NEW ss \in SUBSET Slots,
           \A t \in (ss \cap Threads) \ X : d.th[t].status # "running"
    PROVE  /\ Rows(b, Cancel(d, ss), l, X) /\ Kept(Cancel(d, ss), d)
           /\ \A s \in ss : Cancel(d, ss).own[s] = Null /\ Cancel(d, ss).item[s] = "none"
           /\ \A s \in Slots \ ss : Cancel(d, ss).own[s] = d.own[s] /\ Cancel(d, ss).item[s] = d.item[s]
<1> DEFINE e == Cancel(d, ss)
<1>0. d \in Db
  BY DEF Rows
<1>1. /\ e \in Db /\ e.th = d.th /\ e.sess = d.sess /\ e.archived = d.archived
      /\ e.parked = d.parked /\ e.env = d.env
      /\ e.item = [s \in Slots |-> IF s \in ss THEN "none" ELSE d.item[s]]
      /\ e.own = [s \in Slots |-> IF s \in ss THEN Null ELSE d.own[s]]
  BY <1>0, CancelFields
<1> HIDE DEF e
<1>2. /\ \A s \in ss : e.own[s] = Null /\ e.item[s] = "none"
      /\ \A s \in Slots \ ss : e.own[s] = d.own[s] /\ e.item[s] = d.item[s]
  BY <1>1
<1>3. ASSUME NEW t \in Threads \ X PROVE Fits(e.th[t], e.item[t], Flow(l, t)) /\ Held(b, e, t)
  <2>1. Fits(d.th[t], d.item[t], Flow(l, t)) /\ Held(b, d, t) /\ t \in Slots
    BY DEF Rows, Slots
  <2>2. CASE t \in ss
    <3>1. e.own[t] = Null /\ e.item[t] = "none" /\ e.th[t] = d.th[t]
      BY <1>1, <1>2, <2>2
    <3>2. d.th[t].status # "running"
      BY <2>2
    <3>3. Held(b, e, t)
      BY <3>1 DEF Held
    <3>4. Fits(e.th[t], e.item[t], Flow(l, t))
      BY <2>1, <3>1, <3>2, FitsWithout
    <3> QED BY <3>3, <3>4
  <2>3. CASE t \notin ss
    BY <1>1, <1>2, <2>1, <2>3 DEF Held
  <2> QED BY <2>2, <2>3
<1>4. Asleep(d) => Asleep(e)
  BY <1>1 DEF Asleep, Live
<1>5. \A s \in Slots : e.own[s] # Null => e.item[s] # "none"
  BY <1>2 DEF Rows
<1>6. Rows(b, e, l, X)
  BY <1>1, <1>3, <1>4, <1>5 DEF Rows
<1> QED BY <1>1, <1>2, <1>6 DEF e, Kept

\* Completing an item keeps the rows fit unless it is the turn of a thread that
\* runs on.
LEMMA RowsComplete ==
    ASSUME NEW b, NEW d, NEW l, NEW X, Rows(b, d, l, X), NEW s \in Slots,
           s \in Threads \ X => d.th[s].status # "running"
    PROVE  /\ Rows(b, Complete(d, s), l, X) /\ Kept(Complete(d, s), d)
           /\ Complete(d, s).own[s] = Null /\ Complete(d, s).item[s] = "none"
           /\ \A r \in Slots \ {s} : Complete(d, s).own[r] = d.own[r] /\ Complete(d, s).item[r] = d.item[r]
<1>1. Complete(d, s) = Cancel(d, {s})
  BY CompleteIsCancel DEF Rows
<1>2. PICK ss : ss = {s}
  OBVIOUS
<1>3. ss \in SUBSET Slots /\ s \in ss /\ \A r \in Slots \ {s} : r \in Slots \ ss
  BY <1>2
<1>4. \A t \in (ss \cap Threads) \ X : d.th[t].status # "running"
  BY <1>2
<1>5. Complete(d, s) = Cancel(d, ss)
  BY <1>1, <1>2
<1> QED BY <1>3, <1>4, <1>5, RowsCancel

\* e is d with the turn of t completed.
Completed(e, d, t) == Kept(e, d) /\ e.own[t] = Null /\ e.item[t] = "none"

\* So does completing the turn of a thread left out.
LEMMA RowsCompleteTurn ==
    ASSUME NEW b, NEW d, NEW l, NEW X, Rows(b, d, l, X), NEW t \in Threads, t \in X
    PROVE  Rows(b, Complete(d, t), l, X) /\ Completed(Complete(d, t), d, t)
<1>1. t \in Slots /\ (t \in Threads \ X => d.th[t].status # "running")
  BY DEF Slots
<1>2. /\ Rows(b, Complete(d, t), l, X) /\ Kept(Complete(d, t), d)
      /\ Complete(d, t).own[t] = Null /\ Complete(d, t).item[t] = "none"
  BY <1>1, RowsComplete
<1> QED BY <1>2 DEF Completed

\* Requeueing the turn of a thread without an open call keeps the rows fit.
LEMMA RowsRequeue ==
    ASSUME NEW b, NEW d, NEW l, NEW X, Rows(b, d, l, X), NEW t \in Threads, NEW n \in Nat,
           t \in X \/ ~Flow(l, t).unsettled
    PROVE  /\ Rows(b, RequeueTurn(d, t, n), l, X) /\ Kept(RequeueTurn(d, t, n), d)
           /\ RequeueTurn(d, t, n).own[t] = Null /\ RequeueTurn(d, t, n).item[t] # "none"
<1> DEFINE e == RequeueTurn(d, t, n)
<1>0. d \in Db /\ t \in Slots
  BY DEF Rows, Slots
<1>1. /\ e \in Db /\ e.th = d.th /\ e.sess = d.sess /\ e.archived = d.archived
      /\ e.parked = d.parked /\ e.env = d.env
      /\ e.item = [d.item EXCEPT ![t] = "queued"] /\ e.own = [d.own EXCEPT ![t] = Null]
  BY <1>0, RequeueFields
<1> HIDE DEF e
<1>2. /\ e.own[t] = Null /\ e.item[t] = "queued"
      /\ \A s \in Slots \ {t} : e.own[s] = d.own[s] /\ e.item[s] = d.item[s]
  BY <1>0, <1>1 DEF Db
<1>3. ASSUME NEW x \in Threads \ X PROVE Fits(e.th[x], e.item[x], Flow(l, x)) /\ Held(b, e, x)
  <2>1. Fits(d.th[x], d.item[x], Flow(l, x)) /\ Held(b, d, x) /\ x \in Slots
    BY DEF Rows, Slots
  <2>2. CASE x = t
    BY <1>1, <1>2, <2>1, <2>2 DEF Fits, Held
  <2>3. CASE x # t
    BY <1>1, <1>2, <2>1, <2>3 DEF Held
  <2> QED BY <2>2, <2>3
<1>4. Asleep(d) => Asleep(e)
  BY <1>1 DEF Asleep, Live
<1>5. \A s \in Slots : e.own[s] # Null => e.item[s] # "none"
  BY <1>2 DEF Rows
<1>6. Rows(b, e, l, X)
  BY <1>1, <1>3, <1>4, <1>5 DEF Rows
<1> QED BY <1>1, <1>2, <1>6 DEF e, Kept

\* Losing a claim keeps the rows fit.
LEMMA RowsUnown ==
    ASSUME NEW b, NEW d, NEW l, NEW X, Rows(b, d, l, X), NEW s \in Slots
    PROVE  /\ Rows(b, [d EXCEPT !.own[s] = Null], l, X) /\ Kept([d EXCEPT !.own[s] = Null], d)
<1> DEFINE e == [d EXCEPT !.own[s] = Null]
<1>0. d \in Db
  BY DEF Rows
<1>1. /\ e \in Db /\ e.th = d.th /\ e.sess = d.sess /\ e.archived = d.archived
      /\ e.parked = d.parked /\ e.env = d.env
      /\ e.item = d.item /\ e.own = [d.own EXCEPT ![s] = Null]
  BY <1>0, UnownFields
<1> HIDE DEF e
<1>2. \A r \in Slots : e.own[r] # Null => e.own[r] = d.own[r]
  BY <1>0, <1>1 DEF Db
<1>3. ASSUME NEW x \in Threads \ X PROVE Fits(e.th[x], e.item[x], Flow(l, x)) /\ Held(b, e, x)
  <2>1. Fits(d.th[x], d.item[x], Flow(l, x)) /\ Held(b, d, x) /\ x \in Slots
    BY DEF Rows, Slots
  <2> QED BY <1>1, <1>2, <2>1 DEF Held
<1>4. Asleep(d) => Asleep(e)
  BY <1>1 DEF Asleep, Live
<1>5. \A r \in Slots : e.own[r] # Null => e.item[r] # "none"
  BY <1>1, <1>2 DEF Rows
<1>6. Rows(b, e, l, X)
  BY <1>1, <1>3, <1>4, <1>5 DEF Rows
<1> QED BY <1>1, <1>6 DEF e, Kept

-----------------------------------------------------------------------------
(* The settlements. *)

\* The executors' slots and the harvest's are no thread's.
LEMMA OtherSlots == \A s \in Execs \cup {"harvest"} : s \in Slots /\ s \notin Threads
BY SessionAssumption DEF Slots

\* Rows differ from themselves in nothing.
LEMMA BesideSelf == \A d : Beside(d, d)
BY DEF Beside, Kept

\* Differing in no thread's rows composes.
LEMMA BesideTransitive == ASSUME NEW d, NEW e, NEW f, Beside(e, d), Beside(f, e) PROVE Beside(f, d)
BY DEF Beside, Kept

\* Queueing what a log can run touches no thread's rows.
LEMMA RowsEnqueueExec ==
    ASSUME NEW b, NEW d, NEW l, NEW m, NEW X, Rows(b, d, l, X)
    PROVE  Rows(b, EnqueueExec(d, m), l, X) /\ Beside(EnqueueExec(d, m), d)
<1>1. CASE ExecClass(m) = "none"
  BY <1>1, BesideSelf DEF EnqueueExec
<1>2. CASE ExecClass(m) # "none"
  <2>1. ExecClass(m) \in Slots /\ ExecClass(m) \notin Threads
    BY <1>2, ExecClassKinds, OtherSlots
  <2> QED BY <1>2, <2>1, RowsEnqueue DEF EnqueueExec
<1> QED BY <1>1, <1>2

\* Nor does the harvest queued when a session goes idle.
LEMMA RowsHarvest ==
    ASSUME NEW b, NEW d, NEW l, NEW X, Rows(b, d, l, X), NEW before
    PROVE  Rows(b, IdleHarvest(before, d), l, X) /\ Beside(IdleHarvest(before, d), d)
<1>1. "harvest" \in Slots /\ "harvest" \notin Threads
  BY OtherSlots
<1> QED BY <1>1, RowsEnqueue, BesideSelf DEF IdleHarvest

\* The calls a thread waits for are indices of the log.
LEMMA FlowIds == ASSUME NEW l \in Logs, NEW t PROVE Flow(l, t).pending \in SUBSET Nat
<1>1. Unsettled(l, t) \subseteq Nat
  BY DEF Unsettled, Logs
<1> QED BY <1>1, FlowOfQuiet

\* A settlement leaves its thread running or waiting for an action, and running
\* where no call is open.
LEMMA SettleToStatus ==
    ASSUME NEW flow, flow.pending \in SUBSET Nat
    PROVE  /\ SettleTo(flow) \in St
           /\ \/ SettleTo(flow).status = "running"
              \/ SettleTo(flow).status = "idle" /\ SettleTo(flow).stop = "requires_action"
           /\ ~flow.unsettled => SettleTo(flow) = RunningNow
BY DEF SettleTo, RunningNow, IdleOn, St, Running

\* The running status is one.
LEMMA RunningIsStatus == RunningNow \in St /\ RunningNow.status = "running"
BY DEF RunningNow, St

\* A thread settled to what its calls say fits them.
LEMMA SettledFits ==
    ASSUME NEW flow, NEW it, Running(flow) \/ flow.pending # {}, it # "none" <=> ~flow.unsettled
    PROVE  Fits(SettleTo(flow), it, flow)
BY DEF Fits, SettleTo, Running, RunningNow, IdleOn

\* A parked coordinator still has its busy child when threads only start to run
\* or to wait for an action.
LEMMA BusyMoves ==
    ASSUME NEW d \in Db, NEW D \in SUBSET Threads, NEW to \in [D -> St], Waited(d),
           \A c \in D : \/ to[c].status = "running"
                        \/ to[c].status = "idle" /\ to[c].stop = "requires_action"
    PROVE  Waited(MoveAll(d, to))
<1> DEFINE e == MoveAll(d, to)
<1>1. /\ e.th = [t \in Threads |-> IF t \in D THEN to[t] ELSE d.th[t]]
      /\ e.parked = (d.parked /\ Primary \notin D) /\ e.archived = d.archived
  BY MoveAllFields
<1> HIDE DEF e
<1>2. \A c \in Children : Busy(d, c) => Busy(e, c)
  BY <1>1 DEF Busy, Children
<1>3. Primary \in Threads
  BY SessionAssumption
<1>4. Waited(e)
  BY <1>1, <1>2, <1>3 DEF Waited
<1> QED BY <1>4 DEF e

\* Move is MoveAll of one thread.
LEMMA MoveFields ==
    ASSUME NEW d \in Db, NEW t \in Threads, NEW s \in St
    PROVE  /\ Move(d, t, s) \in Db /\ Move(d, t, s).th = [d.th EXCEPT ![t] = s]
           /\ Move(d, t, s).parked = (d.parked /\ t # Primary)
           /\ Move(d, t, s).item = d.item /\ Move(d, t, s).own = d.own
           /\ Move(d, t, s).archived = d.archived /\ Move(d, t, s).unread = d.unread
           /\ Move(d, t, s).spent = d.spent /\ Move(d, t, s).env = d.env
<1> DEFINE to == [x \in {t} |-> s]
<1>1. to \in [{t} -> St] /\ {t} \in SUBSET Threads
  OBVIOUS
<1>2. Move(d, t, s) = MoveAll(d, to)
  BY DEF Move
<1>3. d.th \in [Threads -> St]
  BY DEF Db
<1>4. [x \in Threads |-> IF x \in {t} THEN to[x] ELSE d.th[x]] = [d.th EXCEPT ![t] = s]
  BY <1>3
<1> HIDE DEF to
<1> QED BY <1>1, <1>2, <1>4, MoveAllFields

\* Moving a thread it is not done with keeps the rows fit.
LEMMA RowsMove ==
    ASSUME NEW b, NEW d, NEW l, NEW X, Rows(b, d, l, X), ~d.archived, NEW t \in Threads, t \in X, NEW s \in St
    PROVE  Rows(b, Move(d, t, s), l, X)
<1>1. [x \in {t} |-> s] \in [{t} -> St] /\ {t} \in SUBSET Threads /\ {t} \subseteq X
  OBVIOUS
<1> QED BY <1>1, RowsMoveAll DEF Move

\* A child may come to rest where no coordinator is parked, or where another
\* child is busy.
LEMMA RestWaited ==
    ASSUME NEW d \in Db, NEW c \in Threads, NEW s \in St, Waited(d),
           c # Primary /\ d.parked => \E o \in Children \ {c} : Busy(d, o)
    PROVE  Waited(Move(d, c, s))
<1> DEFINE e == Move(d, c, s)
<1>1. e.th = [d.th EXCEPT ![c] = s] /\ e.parked = (d.parked /\ c # Primary) /\ e.archived = d.archived
  BY MoveFields
<1> HIDE DEF e
<1>2. d.th \in [Threads -> St] /\ Primary \in Threads
  BY SessionAssumption DEF Db
<1>3. \A o \in Children \ {c} : Busy(d, o) => Busy(e, o)
  BY <1>1, <1>2 DEF Busy, Children
<1>4. Waited(e)
  BY <1>1, <1>2, <1>3 DEF Waited
<1> QED BY <1>4 DEF e

\* A thread without a turn, after a walk of its calls: it is settled, the executor
\* gets what it can run, and a thread with nothing open goes on.
Settlement(d, l, t) ==
    LET e == EnqueueExec(Move(d, t, SettleTo(Flow(l, t))), l) IN
    IF Unsettled(l, t) = {} THEN EnqueueTurn(e, t) ELSE e

\* The settlement of a thread without a turn makes its rows fit again.
LEMMA RowsSettle ==
    ASSUME NEW b, NEW d, NEW l \in Logs, NEW t \in Threads, Rows(b, d, l, {t}), Waited(d), ~d.archived,
           d.item[t] = "none", d.own[t] = Null, Running(Flow(l, t)) \/ Flow(l, t).pending # {}
    PROVE  Rows(b, Settlement(d, l, t), l, {}) /\ Waited(Settlement(d, l, t))
<1> DEFINE flow == Flow(l, t)
           s == SettleTo(flow)
           d1 == Move(d, t, s)
           d2 == EnqueueExec(d1, l)
           d3 == IF Unsettled(l, t) = {} THEN EnqueueTurn(d2, t) ELSE d2
<1>0. d \in Db /\ d.th \in [Threads -> St]
  BY DEF Rows, Db
<1>2. Settlement(d, l, t) = d3
  BY DEF Settlement
<1>3. /\ s \in St
      /\ \/ s.status = "running"
         \/ s.status = "idle" /\ s.stop = "requires_action"
  BY FlowIds, SettleToStatus
<1> HIDE DEF s
<1>5. Rows(b, d1, l, {t})
  BY <1>3, RowsMove
<1>6. Waited(d1)
  <2> DEFINE to == [x \in {t} |-> s]
  <2>1. to \in [{t} -> St] /\ {t} \in SUBSET Threads /\ d1 = MoveAll(d, to)
    BY <1>3 DEF Move
  <2>2. \A c \in {t} : to[c].status = "running" \/ (to[c].status = "idle" /\ to[c].stop = "requires_action")
    BY <1>3
  <2> HIDE DEF to
  <2> QED BY <1>0, <2>1, <2>2, BusyMoves
<1>7. d1.th[t] = s /\ d1.item[t] = "none" /\ d1.own[t] = Null
  <2>1. d1.th = [d.th EXCEPT ![t] = s] /\ d1.item = d.item /\ d1.own = d.own
    BY <1>0, <1>3, MoveFields
  <2> HIDE DEF d1
  <2> QED BY <1>0, <2>1
<1> HIDE DEF d1
<1>8. Rows(b, d2, l, {t}) /\ Beside(d2, d1)
  BY <1>5, RowsEnqueueExec
<1>9. d2.th[t] = s /\ d2.item[t] = "none" /\ d2.own[t] = Null
  BY <1>7, <1>8 DEF Beside, Kept
<1>10. Waited(d2)
  BY <1>6, <1>8, KeptWaited DEF Beside
<1> HIDE DEF d2
<1>11. /\ Rows(b, d3, l, {t}) /\ Kept(d3, d2) /\ d3.own[t] = Null
       /\ d3.item[t] # "none" <=> Unsettled(l, t) = {}
  <2>1. CASE Unsettled(l, t) = {}
    <3> DEFINE ts == {t}
    <3>1. Among(ts, {t}) /\ t \in ts
      BY DEF Among
    <3>2. d3 = EnqueueTurns(d2, ts)
      BY <2>1 DEF EnqueueTurn
    <3> HIDE DEF ts
    <3>3. /\ Rows(b, EnqueueTurns(d2, ts), l, {t}) /\ Kept(EnqueueTurns(d2, ts), d2)
          /\ EnqueueTurns(d2, ts).own = d2.own /\ EnqueueTurns(d2, ts).item[t] # "none"
      <4>1. Rows(b, EnqueueTurns(d2, ts), l, {t}) /\ Queued(EnqueueTurns(d2, ts), d2, ts)
        BY <1>8, <3>1, RowsEnqueueAmong
      <4> QED BY <3>1, <4>1 DEF Queued
    <3> QED BY <1>9, <2>1, <3>2, <3>3
  <2>2. CASE Unsettled(l, t) # {}
    BY <1>8, <1>9, <2>2 DEF Kept
  <2> QED BY <2>1, <2>2
<1> HIDE DEF d3
<1>12. d3.th[t] = s
  BY <1>9, <1>11 DEF Kept
<1>13. d3.item[t] # "none" <=> ~flow.unsettled
  BY <1>11, FlowOfQuiet
<1>14. Fits(d3.th[t], d3.item[t], flow)
  BY <1>12, <1>13, SettledFits DEF s
<1>15. Held(b, d3, t)
  BY <1>11 DEF Held
<1>16. Rows(b, d3, l, {})
  BY <1>11, <1>14, <1>15, RowsClose
<1>17. Waited(d3)
  BY <1>10, <1>11, KeptWaited
<1> QED BY <1>2, <1>16, <1>17

\* settleTools, of a thread that was running.
LEMMA SettleToolsIs ==
    ASSUME NEW d, NEW l, NEW t \in Threads, d.th[t].status = "running"
    PROVE  SettleTools(d, l, t) = Settlement(d, l, t)
<1>1. {t} \cap Live(d) = {t}
  BY DEF Live
<1>2. [x \in {t} |-> SettleTo(Flow(l, x))] = [x \in {t} |-> SettleTo(Flow(l, t))]
  OBVIOUS
<1>3. SettleFlow(d, l, {t}) = Move(d, t, SettleTo(Flow(l, t)))
  BY <1>1, <1>2, Zenon DEF SettleFlow, Move
<1> QED BY <1>3, Zenon DEF SettleTools, Settlement

-----------------------------------------------------------------------------
(* Messages between threads. *)

\* A thread starts to run, or is told something first.
Start(d, t) == EnqueueTurn(Move(d, t, RunningNow), t)
Wake(d, t) == Start(Tell(d, t), t)

\* A message to a thread changes no thread's rows.
LEMMA RowsTell ==
    ASSUME NEW b, NEW d, NEW X, Rows(b, d, log, X), Waited(d), ~d.archived, NEW t \in Threads
    PROVE  /\ Rows(b, Tell(d, t), log, X) /\ Waited(Tell(d, t)) /\ ~Tell(d, t).archived
           /\ SameRows(Tell(d, t), d) /\ Tell(d, t) \in Db
           /\ \A c \in Children : Busy(d, c) => Busy(Tell(d, t), c)
<1>1. SameRows(Tell(d, t), d)
  BY TellFields DEF Rows
<1>2. Waited(Tell(d, t)) /\ Rows(b, Tell(d, t), log, X)
  BY <1>1, SameKept, KeptWaited, RowsSame
<1>3. Tell(d, t) \in Db /\ ~Tell(d, t).archived
  BY <1>1 DEF SameRows
<1>4. \A c \in Children : Busy(d, c) => Busy(Tell(d, t), c)
  BY <1>1 DEF Busy, SameRows
<1> QED BY <1>1, <1>2, <1>3, <1>4

\* A thread without an open call starts to run.
LEMMA RowsStart ==
    ASSUME NEW b, NEW d, NEW l, NEW X, Rows(b, d, l, X), Waited(d), ~d.archived, NEW t \in Threads, t \notin X,
           ~Flow(l, t).unsettled
    PROVE  /\ Rows(b, Start(d, t), l, X) /\ Waited(Start(d, t)) /\ ~Start(d, t).archived
           /\ \A x \in Threads \ {t} : Start(d, t).th[x] = d.th[x]
           /\ Start(d, t).own = d.own
           /\ \A c \in Children : Busy(d, c) => Busy(Start(d, t), c)
           /\ Start(d, t).parked => d.parked /\ t # Primary
<1> DEFINE moved == Move(d, t, RunningNow)
           e == EnqueueTurns(moved, {t})
<1>0. d \in Db /\ d.th \in [Threads -> St]
  BY DEF Rows, Db
<1>2. Held(b, d, t)
  BY DEF Rows
<1>3. Start(d, t) = e
  BY DEF Start, EnqueueTurn
<1>4. Rows(b, moved, l, X \cup {t})
  <2>1. Rows(b, d, l, X \cup {t})
    BY RowsWeaken
  <2> QED BY <2>1, RunningIsStatus, RowsMove
<1>5. /\ moved.th = [d.th EXCEPT ![t] = RunningNow] /\ moved.item = d.item /\ moved.own = d.own
      /\ moved.archived = d.archived /\ moved.parked = (d.parked /\ t # Primary)
  BY <1>0, RunningIsStatus, MoveFields
<1>6. Waited(moved)
  <2>1. [x \in {t} |-> RunningNow] \in [{t} -> St] /\ {t} \in SUBSET Threads
    BY RunningIsStatus
  <2>2. \A c \in {t} : [x \in {t} |-> RunningNow][c].status = "running"
    BY RunningIsStatus
  <2> QED BY <1>0, <2>1, <2>2, BusyMoves DEF Move
<1> HIDE DEF moved
<1>7. /\ Rows(b, e, l, X \cup {t}) /\ Kept(e, moved) /\ e.own = moved.own /\ e.item[t] # "none"
  <2> DEFINE ts == {t}
             Y == X \cup {t}
  <2>1. Among(ts, Y) /\ t \in ts
    BY DEF Among
  <2>2. e = EnqueueTurns(moved, ts) /\ Rows(b, moved, l, Y)
    BY <1>4 DEF EnqueueTurn
  <2> HIDE DEF ts, Y, e
  <2>3. /\ Rows(b, EnqueueTurns(moved, ts), l, Y) /\ Kept(EnqueueTurns(moved, ts), moved)
        /\ EnqueueTurns(moved, ts).own = moved.own /\ EnqueueTurns(moved, ts).item[t] # "none"
    <3>1. Rows(b, EnqueueTurns(moved, ts), l, Y) /\ Queued(EnqueueTurns(moved, ts), moved, ts)
      BY <2>1, <2>2, RowsEnqueueAmong
    <3> QED BY <2>1, <3>1 DEF Queued
  <2> QED BY <2>2, <2>3 DEF Y
<1> HIDE DEF e
<1>8. e.th = [d.th EXCEPT ![t] = RunningNow] /\ e.own = d.own /\ ~e.archived
      /\ e.parked = (d.parked /\ t # Primary)
  BY <1>5, <1>7 DEF Kept
<1>9. Fits(e.th[t], e.item[t], Flow(l, t))
  BY <1>0, <1>7, <1>8, RunningIsStatus DEF Fits
<1>10. Held(b, e, t)
  BY <1>0, <1>2, <1>8, RunningIsStatus DEF Held
<1>11. Rows(b, e, l, X)
  BY <1>7, <1>9, <1>10, RowsClose
<1>12. Waited(e)
  BY <1>6, <1>7, KeptWaited
<1>13. \A c \in Children : Busy(d, c) => Busy(e, c)
  BY <1>0, <1>8, RunningIsStatus DEF Busy, Children
<1>14. \A x \in Threads \ {t} : e.th[x] = d.th[x]
  BY <1>0, <1>8
<1> QED BY <1>3, <1>8, <1>11, <1>12, <1>13, <1>14

\* So does a thread that is told something first.
LEMMA RowsWake ==
    ASSUME NEW b, NEW d, NEW X, Rows(b, d, log, X), Waited(d), ~d.archived, NEW t \in Threads, t \notin X,
           ~Flow(log, t).unsettled
    PROVE  /\ Rows(b, Wake(d, t), log, X) /\ Waited(Wake(d, t)) /\ ~Wake(d, t).archived
           /\ \A x \in Threads \ {t} : Wake(d, t).th[x] = d.th[x]
           /\ Wake(d, t).own = d.own
           /\ \A c \in Children : Busy(d, c) => Busy(Wake(d, t), c)
           /\ Wake(d, t).parked => d.parked /\ t # Primary
<1> DEFINE told == Tell(d, t)
           e == Start(told, t)
<1>1. /\ Rows(b, told, log, X) /\ Waited(told) /\ ~told.archived /\ SameRows(told, d)
      /\ \A c \in Children : Busy(d, c) => Busy(told, c)
  BY RowsTell
<1>2. Wake(d, t) = e
  BY DEF Wake
<1> HIDE DEF told
<1>3. /\ Rows(b, e, log, X) /\ Waited(e) /\ ~e.archived
      /\ \A x \in Threads \ {t} : e.th[x] = told.th[x]
      /\ e.own = told.own
      /\ \A c \in Children : Busy(told, c) => Busy(e, c)
      /\ e.parked => told.parked /\ t # Primary
  BY <1>1, RowsStart
<1> HIDE DEF e
<1> QED BY <1>1, <1>2, <1>3 DEF SameRows

\* A message wakes a thread at rest, which has no open call, and a waiting
\* coordinator is at rest.
LEMMA RowsDeliver ==
    ASSUME NEW b, NEW d, NEW X, Rows(b, d, log, X), Waited(d), ~d.archived, NEW t \in Threads, t \notin X
    PROVE  /\ Rows(b, Deliver(d, t), log, X) /\ Waited(Deliver(d, t)) /\ ~Deliver(d, t).archived
           /\ \A x \in Threads \ {t} : Deliver(d, t).th[x] = d.th[x]
           /\ Deliver(d, t).own = d.own
           /\ \A c \in Children : Busy(d, c) => Busy(Deliver(d, t), c)
           /\ Deliver(d, t).parked => d.parked /\ t # Primary
<1>0. d \in Db /\ d.th \in [Threads -> St]
  BY DEF Rows, Db
<1>1. Fits(d.th[t], d.item[t], Flow(log, t))
  BY DEF Rows
<1>2. CASE Wakeable(d, t)
  <2>1. Deliver(d, t) = Wake(d, t)
    BY <1>2 DEF Deliver, Wake, Start
  <2>2. ~Flow(log, t).unsettled
    BY <1>1, <1>2 DEF Fits, Wakeable
  <2>3. /\ Rows(b, Wake(d, t), log, X) /\ Waited(Wake(d, t)) /\ ~Wake(d, t).archived
        /\ \A x \in Threads \ {t} : Wake(d, t).th[x] = d.th[x]
        /\ Wake(d, t).own = d.own
        /\ \A c \in Children : Busy(d, c) => Busy(Wake(d, t), c)
        /\ Wake(d, t).parked => d.parked /\ t # Primary
    BY <2>2, RowsWake
  <2> QED BY <2>1, <2>3
<1>3. CASE ~Wakeable(d, t)
  <2>1. Deliver(d, t) = Tell(d, t)
    BY <1>3 DEF Deliver
  <2>2. t = Primary => ~d.parked
    <3> SUFFICES ASSUME t = Primary, d.parked PROVE FALSE
      OBVIOUS
    <3>1. d.th[t].status = "idle" /\ d.th[t].stop = "end_turn"
      BY DEF Waited, EndTurn, IdleOn
    <3>2. Unsettled(log, t) = {}
      BY <1>1, <3>1, FlowOfQuiet DEF Fits
    <3>3. Unanswered(t) = {}
      BY <3>2 DEF Unanswered, Unsettled
    <3> QED BY <1>3, <3>1, <3>3 DEF Wakeable
  <2>3. SameRows(Tell(d, t), d)
    BY RowsTell
  <2> QED BY <2>1, <2>2, <2>3, RowsTell DEF SameRows
<1> QED BY <1>2, <1>3

\* A thread's ending is told before it rests: a coordinator that still waits
\* then has another busy child.
LEMMA RowsEnded ==
    ASSUME NEW b, NEW d, NEW c \in Threads, NEW X, X \subseteq {c}, Rows(b, d, log, X), Waited(d), ~d.archived
    PROVE  /\ Rows(b, Ended(d, c), log, X) /\ Waited(Ended(d, c)) /\ ~Ended(d, c).archived
           /\ Ended(d, c).th[c] = d.th[c] /\ Ended(d, c).own = d.own
           /\ c # Primary /\ Ended(d, c).parked => \E o \in Children \ {c} : Busy(Ended(d, c), o)
<1>0. d \in Db /\ Primary \in Threads
  BY SessionAssumption DEF Rows
<1>1. CASE c = Primary
  BY <1>1 DEF Ended
<1>2. CASE c # Primary /\ Busy(d, c) /\ ~\E o \in Children \ {c} : Busy(d, o)
  <2>1. Ended(d, c) = Deliver(d, Primary)
    BY <1>2 DEF Ended
  <2>2. Primary \notin X
    BY <1>2
  <2> QED BY <1>0, <1>2, <2>1, <2>2, RowsDeliver
<1>3. CASE c # Primary /\ ~(Busy(d, c) /\ ~\E o \in Children \ {c} : Busy(d, o))
  <2> DEFINE e == Tell(d, Primary)
  <2>1. Ended(d, c) = e
    BY <1>3 DEF Ended
  <2>2. SameRows(e, d)
    BY <1>0, TellFields
  <2> HIDE DEF e
  <2>3. Rows(b, e, log, X) /\ Waited(e)
    BY <2>2, RowsSame, SameKept, KeptWaited
  <2>4. e.parked => \E o \in Children \ {c} : Busy(d, o)
    BY <1>3, <2>2 DEF Waited, SameRows
  <2>5. \A o \in Children : Busy(d, o) => Busy(e, o)
    BY <2>2 DEF Busy, SameRows
  <2> QED BY <2>1, <2>2, <2>3, <2>4, <2>5 DEF SameRows
<1> QED BY <1>1, <1>2, <1>3

\* The statuses a turn may end a thread with.
RestStates == {EndTurn, IdleOn("retries_exhausted", {})}

\* The statuses a turn may end a thread with are idle, waiting for no action.
LEMMA RestIsStatus ==
    \A s \in RestStates : s \in St /\ s.status = "idle" /\ s.stop # "requires_action"
BY DEF RestStates, EndTurn, IdleOn, St

\* They fit a thread without an open call or a turn.
LEMMA RestFits == ASSUME NEW s \in RestStates, NEW flow, ~flow.unsettled PROVE Fits(s, "none", flow)
BY RestIsStatus DEF Fits

\* Ending a thread's turn, and telling its coordinator, keeps the rows fit.
LEMMA RowsEndThread ==
    ASSUME NEW b, NEW d, Rows(b, d, log, {}), Waited(d), ~d.archived, NEW t \in Threads,
           NEW s \in RestStates, Unsettled(log, t) = {}
    PROVE  Rows(b, EndThread(d, t, s), log, {}) /\ Waited(EndThread(d, t, s))
<1> DEFINE d1 == Ended(d, t)
           d2 == Move(d1, t, s)
           d3 == Complete(d2, t)
           d4 == IdleHarvest(d, d3)
<1>1. EndThread(d, t, s) = d4
  BY DEF EndThread
<1>2. /\ Rows(b, d1, log, {}) /\ Waited(d1) /\ ~d1.archived
      /\ t # Primary /\ d1.parked => \E o \in Children \ {t} : Busy(d1, o)
  <2>1. {} \subseteq {t}
    OBVIOUS
  <2> QED BY <2>1, RowsEnded
<1> HIDE DEF d1
<1>3. d1 \in Db /\ s \in St
  BY <1>2, RestIsStatus DEF Rows
<1>4. Rows(b, d2, log, {t})
  <2>1. Rows(b, d1, log, {t})
    BY <1>2, RowsWeaken
  <2> QED BY <1>2, <1>3, <2>1, RowsMove
<1>5. Waited(d2)
  BY <1>2, <1>3, RestWaited
<1>6. d2.th[t] = s
  <2>1. d2.th = [d1.th EXCEPT ![t] = s]
    BY <1>3, MoveFields
  <2>2. d1.th \in [Threads -> St]
    BY <1>3 DEF Db
  <2> QED BY <2>1, <2>2
<1> HIDE DEF d2
<1>7. Rows(b, d3, log, {t}) /\ Kept(d3, d2) /\ d3.own[t] = Null /\ d3.item[t] = "none"
  <2>1. t \in {t}
    OBVIOUS
  <2>2. Rows(b, d3, log, {t}) /\ Completed(d3, d2, t)
    BY <1>4, <2>1, RowsCompleteTurn
  <2> QED BY <2>2 DEF Completed
<1> HIDE DEF d3
<1>8. Fits(d3.th[t], d3.item[t], Flow(log, t)) /\ Held(b, d3, t)
  BY <1>6, <1>7, FlowOfQuiet, RestFits DEF Kept, Held
<1>9. Rows(b, d3, log, {})
  BY <1>7, <1>8, RowsClose
<1>10. Waited(d3)
  BY <1>5, <1>7, KeptWaited
<1>11. Rows(b, d4, log, {}) /\ Beside(d4, d3)
  BY <1>9, RowsHarvest
<1> QED BY <1>1, <1>10, <1>11, KeptWaited DEF Beside

-----------------------------------------------------------------------------
(* The inductive invariant. *)

\* A driver's plan is, of each thread, what is next to be settled.
PlanFits(w) ==
    \A i \in job[w].plan :
        /\ i \in DOMAIN log
        /\ \A j \in DOMAIN log : j < i /\ log[j].thread = log[i].thread => log[j].result = "done" \/ j \in job[w].plan

\* A brain at work on a turn it holds has a running thread.
AtWork(b) ==
    Holds(b) /\ job[b].phase \in {"admitted", "cleared", "asking"} /\ ~db.archived =>
        db.th[job[b].slot].status = "running"

ThreadInv ==
    /\ SessionInv
    /\ Rows(db, db, log, {}) /\ Waited(db)
    /\ Ordered(log)
    /\ \A w \in Workers : PlanFits(w)
    /\ \A b \in Brains : AtWork(b)
    /\ \A w \in Drivers : job[w].slot \notin Threads

-----------------------------------------------------------------------------
(* Steps. *)

\* m holds every call of l, made by the same thread, and those l has settled.
Onward(m, l) == Continues(m, l) /\ \A i \in DOMAIN l : m[i].thread = l[i].thread

\* The rows e and the log m are fit to follow the present ones.
Sound(m, e) ==
    /\ Rows(db, e, m, {}) /\ Waited(e) /\ Ordered(m) /\ Onward(m, log)
    /\ db.archived => e.archived

\* A log follows itself.
LEMMA OnwardSelf == \A l : Onward(l, l)
BY DEF Onward, Continues

\* The walk's log follows the one it walks.
LEMMA OnwardAdvance == ASSUME NEW l \in Logs, NEW ts PROVE Onward(Advance(l, ts), l)
BY AdvanceContinues, AdvanceKeeps DEF Onward

\* Following composes.
LEMMA OnwardTransitive == ASSUME NEW l, NEW m, NEW n, Onward(m, l), Onward(n, m) PROVE Onward(n, l)
<1>1. Continues(n, l)
  BY ContinuesTransitive DEF Onward
<1>2. \A i \in DOMAIN l : i \in DOMAIN m
  BY DEF Onward, Continues
<1> QED BY <1>1, <1>2 DEF Onward

\* A driver's plan stays what is next to be settled, whatever others settle.
LEMMA PlanStays ==
    ASSUME NEW l \in Logs, NEW m \in Logs, Onward(m, l), NEW plan,
           \A i \in plan : /\ i \in DOMAIN l
                           /\ \A j \in DOMAIN l : j < i /\ l[j].thread = l[i].thread => l[j].result = "done" \/ j \in plan
    PROVE  \A i \in plan : /\ i \in DOMAIN m
                           /\ \A j \in DOMAIN m : j < i /\ m[j].thread = m[i].thread => m[j].result = "done" \/ j \in plan
<1> SUFFICES ASSUME NEW i \in plan
             PROVE  /\ i \in DOMAIN m
                    /\ \A j \in DOMAIN m : j < i /\ m[j].thread = m[i].thread => m[j].result = "done" \/ j \in plan
  OBVIOUS
<1>1. i \in DOMAIN l /\ i \in DOMAIN m
  BY DEF Onward, Continues
<1>2. ASSUME NEW j \in DOMAIN m, j < i, m[j].thread = m[i].thread PROVE m[j].result = "done" \/ j \in plan
  <2>1. j \in DOMAIN l
    BY <1>1, <1>2 DEF Logs
  <2>2. l[j].thread = l[i].thread
    BY <1>1, <1>2, <2>1 DEF Onward
  <2>3. l[j].result = "done" \/ j \in plan
    BY <1>1, <1>2, <2>1, <2>2
  <2> QED BY <2>1, <2>3 DEF Onward, Continues
<1> QED BY <1>1, <1>2

\* What a transaction has committed is where the next one begins.
LEMMA RowsRebase == ASSUME NEW b, NEW d, NEW l, Rows(b, d, l, {}) PROVE Rows(d, d, l, {})
BY DEF Rows, Held

\* A worker that keeps what it is at, or nothing.
LEMMA KeepsAtWork ==
    ASSUME ThreadInv, Sound(log', db'), NEW b \in Brains, job'[b] = job[b]
    PROVE  AtWork(b)'
<1> SUFFICES ASSUME Holds(b)', job'[b].phase \in {"admitted", "cleared", "asking"}, ~db'.archived
             PROVE  db'.th[job'[b].slot].status = "running"
  BY DEF AtWork
<1>1. PICK t : t = job[b].slot
  OBVIOUS
<1>2. t # Null /\ db'.own[t] = b /\ job'[b].slot = t
  BY <1>1 DEF Holds
<1>3. t \in Threads /\ b # Null
  BY <1>1, <1>2, SessionAssumption DEF ThreadInv, SessionInv, Workers
<1>4. Held(db, db', t)
  BY <1>3 DEF Sound, Rows
<1>5. Holds(b) /\ ~db.archived
  BY <1>1, <1>2, <1>3, <1>4 DEF Held, Holds, Sound
<1>6. db.th[t].status = "running"
  BY <1>1, <1>5 DEF ThreadInv, AtWork
<1> QED BY <1>2, <1>3, <1>4, <1>6 DEF Held

\* A worker without an item is at work on nothing.
LEMMA OffAtWork == ASSUME NEW b, job'[b] = Off PROVE AtWork(b)'
BY DEF AtWork, Holds, Off

\* A worker's plan is as fit after a sound step as before it.
LEMMA PlanKeeps ==
    ASSUME ThreadInv, SessionInv', Sound(log', db'), NEW w \in Workers, job'[w].plan = job[w].plan
    PROVE  PlanFits(w)'
<1>1. PICK plan : plan = job[w].plan
  OBVIOUS
<1>2. PICK l \in Logs, m \in Logs : l = log /\ m = log'
  BY DEF ThreadInv, SessionInv
<1>3. Onward(m, l)
  BY <1>2 DEF Sound
<1>4. \A i \in plan : /\ i \in DOMAIN l
                      /\ \A j \in DOMAIN l : j < i /\ l[j].thread = l[i].thread => l[j].result = "done" \/ j \in plan
  BY <1>1, <1>2 DEF ThreadInv, PlanFits
<1>5. \A i \in plan : /\ i \in DOMAIN m
                      /\ \A j \in DOMAIN m : j < i /\ m[j].thread = m[i].thread => m[j].result = "done" \/ j \in plan
  BY <1>3, <1>4, PlanStays
<1> QED BY <1>1, <1>2, <1>5 DEF PlanFits

\* A step of worker v: the others keep what they are at.
LEMMA WorkerKeeps ==
    ASSUME ThreadInv, SessionInv', Sound(log', db'), NEW v \in Workers,
           \A w \in Workers \ {v} : job'[w] = job[w],
           PlanFits(v)', v \in Brains => AtWork(v)', v \in Drivers => job'[v].slot \notin Threads
    PROVE  ThreadInv'
<1>1. Rows(db', db', log', {}) /\ Waited(db') /\ Ordered(log')
  BY RowsRebase DEF Sound
<1>2. \A w \in Workers : PlanFits(w)'
  BY PlanKeeps
<1>3. \A b \in Brains : AtWork(b)'
  BY KeepsAtWork DEF Workers
<1>4. \A w \in Drivers : job'[w].slot \notin Threads
  BY DEF ThreadInv, Workers
<1> QED BY <1>1, <1>2, <1>3, <1>4 DEF ThreadInv

\* A worker's step that ends what it was at.
LEMMA DoneKeeps ==
    ASSUME ThreadInv, SessionInv', Sound(log', db'), NEW v \in Workers, Done(v)
    PROVE  ThreadInv'
<1>1. job'[v] = Off /\ \A w \in Workers \ {v} : job'[w] = job[w]
  BY DEF Done, ThreadInv, SessionInv
<1>2. PlanFits(v)'
  BY <1>1 DEF PlanFits, Off
<1>3. AtWork(v)'
  BY <1>1, OffAtWork
<1>4. job'[v].slot \notin Threads
  BY <1>1, SessionAssumption DEF Off, Slots
<1> QED BY <1>1, <1>2, <1>3, <1>4, WorkerKeeps

\* A step of no worker.
LEMMA OthersKeep ==
    ASSUME ThreadInv, SessionInv', Sound(log', db'), job' = job
    PROVE  ThreadInv'
<1>1. Rows(db', db', log', {}) /\ Waited(db') /\ Ordered(log')
  BY RowsRebase DEF Sound
<1>2. \A w \in Workers : PlanFits(w)'
  BY PlanKeeps
<1>3. \A b \in Brains : AtWork(b)'
  BY KeepsAtWork
<1> QED BY <1>1, <1>2, <1>3 DEF ThreadInv

\* Rows that keep the threads, or none but the input.
LEMMA KeptSound ==
    ASSUME ThreadInv, log' = log, Rows(db, db', log, {}), Kept(db', db)
    PROVE  Sound(log', db')
<1>1. Waited(db') /\ (db.archived => db'.archived)
  BY KeptWaited DEF ThreadInv, Kept
<1> QED BY <1>1, OnwardSelf DEF Sound, ThreadInv

\* A step that leaves the log and the rows is sound.
LEMMA StandSound == ASSUME ThreadInv, log' = log, db' = db PROVE Sound(log', db')
BY KeptSound DEF ThreadInv, Kept

\* A held turn is of a thread without an open call.
LEMMA HeldQuiet ==
    ASSUME ThreadInv, NEW b \in Brains, Holds(b)
    PROVE  /\ job[b].slot \in Threads /\ db.own[job[b].slot] # Null
           /\ Unsettled(log, job[b].slot) = {} /\ ~Flow(log, job[b].slot).unsettled
<1>1. PICK t : t = job[b].slot
  OBVIOUS
<1>2. t \in Threads /\ t \in Slots /\ db.own[t] # Null
  BY <1>1, SessionAssumption DEF Holds, ThreadInv, SessionInv, Slots, Workers
<1>3. db.item[t] # "none"
  BY <1>2 DEF ThreadInv, Rows
<1>4. ~Flow(log, t).unsettled
  BY <1>2, <1>3 DEF ThreadInv, Rows, Fits
<1> QED BY <1>1, <1>2, <1>4, FlowOfQuiet

\* A brain's job with a new phase.
LEMMA PhaseFields ==
    ASSUME ThreadInv, NEW w \in Workers, NEW p, job' = [job EXCEPT ![w].phase = p]
    PROVE  /\ job'[w].phase = p /\ job'[w].slot = job[w].slot /\ job'[w].plan = job[w].plan
           /\ \A v \in Workers \ {w} : job'[v] = job[v]
<1>1. job \in [Workers -> Job]
  BY DEF ThreadInv, SessionInv
<1>2. job'[w] = [job[w] EXCEPT !.phase = p] /\ \A v \in Workers \ {w} : job'[v] = job[v]
  BY <1>1
<1>3. job[w] \in Job
  BY <1>1
<1> QED BY <1>2, <1>3 DEF Job
===============================================================================
