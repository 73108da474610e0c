-------------------------- MODULE AnswerProofs --------------------------
(***************************************************************************)
(* What a client, its fleet and the drivers of tool runs do to a           *)
(* session's threads: each of their steps, an answer, an interrupt, an     *)
(* archive or a settled run, leaves a log and rows that match one another  *)
(* (Sound).                                                                *)
(***************************************************************************)
EXTENDS SessionProofs

-----------------------------------------------------------------------------
(* The client. *)

\* An interrupt leaves the threads it stops no open call and the others their
\* flow, in an ordered log.
LEMMA AbandonedFacts ==
    ASSUME NEW l \in Logs, NEW ts, Ordered(l)
    PROVE  /\ Ordered(Abandoned(l, ts)) /\ Onward(Abandoned(l, ts), l)
           /\ \A t \in ts : ~Flow(Abandoned(l, ts), t).unsettled
           /\ \A t : t \notin ts => Flow(Abandoned(l, ts), t) = Flow(l, t)
<1> DEFINE a == Abandon(l, ts)
           m == Advance(a, ts)
<1>1. Abandoned(l, ts) = m
  BY DEF Abandoned
<1>2. a \in Logs
  BY AbandonSound
<1>3. NearlyOrdered(a, ts)
  BY AbandonOrders
<1>4. \A t \in ts : ~Flow(m, t).unsettled
  BY AbandonedQuiet, FlowOfQuiet
<1>5. \A t : t \notin ts => Flow(m, t) = Flow(l, t)
  BY AbandonOthers
<1>6. \A i \in DOMAIN l : a[i].thread = l[i].thread
  BY AbandonKeeps
<1>7. Continues(a, l)
  BY DEF Continues, Abandon
<1> HIDE DEF a
<1>8. Ordered(m)
  BY <1>2, <1>3, AdvanceOrders
<1>9. Onward(m, a)
  BY <1>2, OnwardAdvance
<1>10. Onward(m, l)
  BY <1>6, <1>7, <1>9, OnwardTransitive DEF Onward
<1> HIDE DEF m
<1> QED BY <1>1, <1>4, <1>5, <1>8, <1>10

\* An interrupt's mark keeps the rows fit.
LEMMA RowsHalt ==
    ASSUME NEW b, NEW d, NEW l, NEW X, Rows(b, d, l, X)
    PROVE  Rows(b, Halt(d), l, X) /\ Waited(Halt(d)) /\ Halt(d).th = d.th /\ Halt(d).archived = d.archived
<1> DEFINE e == Halt(d)
<1>1. /\ e \in Db /\ e.th = d.th /\ e.sess = d.sess /\ e.item = d.item /\ e.own = d.own /\ e.archived = d.archived
      /\ ~e.parked
  BY HaltFields DEF Rows
<1> HIDE DEF e
<1>4. Asleep(d) => Asleep(e)
  BY <1>1 DEF Asleep, Live
<1>5. \A x : Held(b, d, x) => Held(b, e, x)
  BY <1>1 DEF Held
<1>6. Rows(b, e, l, X)
  BY <1>1, <1>4, <1>5, Zenon DEF Rows
<1>7. Waited(e)
  BY <1>1 DEF Waited
<1> QED BY <1>1, <1>6, <1>7 DEF e

\* A user's message leaves sound rows.
LEMMA MessageSound == ASSUME ThreadInv, SendMessage PROVE Sound(log', db')
<1> DEFINE d == Demand(db)
<1>1. ~db.archived /\ log' = log
  BY DEF SendMessage
<1>2. db' = d \/ (Unsettled(log, Primary) = {} /\ db' = Start(d, Primary))
  BY DEF SendMessage, Start
<1>3. SameRows(d, db)
  BY DemandFields DEF ThreadInv, Rows
<1> HIDE DEF d
<1>4. Rows(db, d, log, {}) /\ Waited(d) /\ ~d.archived
  BY <1>1, <1>3, RowsSame, SameKept, KeptWaited DEF ThreadInv, SameRows
<1>5. Rows(db, db', log, {}) /\ Waited(db')
  <2>1. CASE db' = d
    BY <1>4, <2>1
  <2>2. CASE Unsettled(log, Primary) = {} /\ db' = Start(d, Primary)
    <3>1. ~Flow(log, Primary).unsettled /\ Primary \in Threads /\ Primary \notin {}
      BY <2>2, FlowOfQuiet, SessionAssumption
    <3>2. Rows(db, Start(d, Primary), log, {}) /\ Waited(Start(d, Primary))
      BY <1>4, <3>1, RowsStart
    <3> QED BY <2>2, <3>2
  <2> QED BY <1>2, <2>1, <2>2
<1> QED BY <1>1, <1>5, OnwardSelf DEF Sound, ThreadInv

\* So do answers to calls, confirmations and custom results.
LEMMA AnswersSound == ASSUME ThreadInv, SendAnswers PROVE Sound(log', db')
<1>1. PICK t \in Live(db) : \E batch \in Batches(log, t) :
        LET flow == Planned(log, batch, t)
            d == EnqueueExec(Move(Posted(db, batch, t), t, SettleTo(flow)), log') IN
        /\ ~calm /\ ~db.archived
        /\ log' = Advance(Appended(log, batch, {t}), {t})
        /\ Flow(log', t) = flow
        /\ db' = IF Unsettled(log', t) = {} THEN EnqueueTurn(d, t) ELSE d
  BY DEF SendAnswers
<1>2. PICK batch \in Batches(log, t) :
        /\ ~db.archived
        /\ log' = Advance(Appended(log, batch, {t}), {t})
        /\ db' = LET d == EnqueueExec(Move(Posted(db, batch, t), t, SettleTo(Flow(log', t))), log') IN
                 IF Unsettled(log', t) = {} THEN EnqueueTurn(d, t) ELSE d
  BY <1>1
<1> DEFINE p == Posted(db, batch, t)
<1>3. log \in Logs /\ t \in Threads /\ db \in Db /\ Ordered(log)
  BY DEF ThreadInv, SessionInv, Live, Rows
<1>4. db' = Settlement(p, log', t)
  BY <1>2, Zenon DEF Settlement
<1>5. PICK m : m = Advance(Appended(log, batch, {t}), {t})
  OBVIOUS
<1>6. Appended(log, batch, {t}) \in Logs /\ DOMAIN Appended(log, batch, {t}) = DOMAIN log
  BY <1>3, AppendedSound
<1>7. m \in Logs
  BY <1>5, <1>6, AdvanceSound
<1>8. Ordered(m)
  BY <1>3, <1>5, <1>6, AppendedOrders, AdvanceOrders
<1>9. Onward(m, log)
  <2>1. Onward(Appended(log, batch, {t}), log)
    BY <1>3, AppendedContinues, AppendedKeeps DEF Onward
  <2> QED BY <1>5, <1>6, <2>1, OnwardAdvance, OnwardTransitive
<1>10. \A x \in Threads \ {t} : Flow(m, x) = Flow(log, x)
  BY <1>3, <1>5, SendOthers
<1>11. Running(Flow(m, t)) \/ Flow(m, t).pending # {}
  BY <1>5, <1>6, StopsOnAWait
<1>12. Unsettled(log, t) # {}
  <2>1. PICK a \in Answer(log) : log[a.call].thread = t /\ Valid(log, a)
    BY DEF Batches
  <2>2. a.call \in DOMAIN log /\ log[a.call].result = "none"
    BY <2>1 DEF Answer, Valid
  <2> QED BY <2>1, <2>2 DEF Unsettled
<1>13. Fits(db.th[t], db.item[t], Flow(log, t))
  BY <1>3 DEF ThreadInv, Rows
<1>14. db.item[t] = "none" /\ db.own[t] = Null
  <2>1. db.item[t] = "none"
    BY <1>12, <1>13, FlowOfQuiet DEF Fits
  <2> QED BY <1>3, <2>1 DEF ThreadInv, Rows, Slots
<1>15. SameRows(p, db)
  BY <1>3, PostedFields
<1> HIDE DEF p
<1>16. Rows(db, p, log, {}) /\ Waited(p) /\ ~p.archived /\ p.item[t] = "none" /\ p.own[t] = Null
  BY <1>2, <1>14, <1>15, RowsSame, SameKept, KeptWaited DEF ThreadInv, SameRows
<1>17. Rows(db, p, m, {t})
  <2>1. Rows(db, p, log, {t})
    BY <1>16, RowsWeaken
  <2> QED BY <1>10, <2>1, RowsLog
<1>18. Rows(db, Settlement(p, m, t), m, {}) /\ Waited(Settlement(p, m, t))
  BY <1>3, <1>7, <1>11, <1>16, <1>17, RowsSettle
<1>19. log' = m
  BY <1>2, <1>5
<1> QED BY <1>2, <1>4, <1>8, <1>9, <1>18, <1>19 DEF Sound

\* So does an interrupt of the session.
LEMMA InterruptAllSound == ASSUME ThreadInv, InterruptAll PROVE Sound(log', db')
<1> DEFINE stopped == {t \in Live(db) : Interruptible(t)}
           to == [t \in stopped |-> EndTurn]
           d == MoveAll(db, to)
           d1 == IF stopped = {} THEN d ELSE Cancel(d, Slots)
           d2 == Halt(d1)
<1>1. PICK redirect \in BOOLEAN : ~db.archived /\ log' = Abandoned(log, stopped) /\ db' = Resume(d2, redirect)
  BY Zenon DEF InterruptAll
<1>2. /\ log \in Logs /\ Ordered(log) /\ db \in Db /\ Rows(db, db, log, {}) /\ Primary \in Threads
      /\ db.th \in [Threads -> St]
  BY SessionAssumption DEF ThreadInv, SessionInv, Rows, Db
<1>3. stopped \in SUBSET Threads /\ EndTurn \in St /\ EndTurn \in RestStates
  BY RestIsStatus DEF Live, RestStates
<1>4. \A t \in Threads \ stopped : db.th[t].status # "running" /\ ~Flow(log, t).unsettled
  <2> SUFFICES ASSUME NEW t \in Threads, t \notin stopped
               PROVE  db.th[t].status # "running" /\ ~Flow(log, t).unsettled
    OBVIOUS
  <2>1. CASE t \in Live(db)
    BY <2>1, FlowOfQuiet DEF Interruptible
  <2>2. CASE t \notin Live(db)
    <3>1. db.th[t].status \in {"absent", "terminated"}
      BY <1>2, <2>2 DEF Live, St
    <3>2. Fits(db.th[t], db.item[t], Flow(log, t))
      BY <1>2 DEF Rows
    <3> QED BY <3>1, <3>2 DEF Fits
  <2> QED BY <2>1, <2>2
<1> HIDE DEF stopped
<1>5. to \in [stopped -> St] /\ \A t \in stopped : to[t] = EndTurn
  BY <1>3
<1> HIDE DEF to
<1>6. PICK m : m = Abandoned(log, stopped)
  OBVIOUS
<1>7. /\ Ordered(m) /\ Onward(m, log)
      /\ \A t \in stopped : ~Flow(m, t).unsettled
      /\ \A t : t \notin stopped => Flow(m, t) = Flow(log, t)
  BY <1>2, <1>6, AbandonedFacts
<1>8. Rows(db, d, m, stopped)
  <2>1. Rows(db, db, log, stopped)
    BY <1>2, RowsWeaken
  <2>2. Rows(db, d, log, stopped)
    BY <1>1, <1>3, <1>5, <2>1, RowsMoveAll
  <2> HIDE DEF d
  <2> QED BY <1>7, <2>2, RowsLog
<1>9. d.th = [t \in Threads |-> IF t \in stopped THEN to[t] ELSE db.th[t]] /\ d.archived = db.archived
  BY <1>2, <1>3, <1>5, MoveAllFields
<1> HIDE DEF d
<1>10. Rows(db, d1, m, {}) /\ ~d1.archived
  <2>1. CASE stopped = {}
    BY <1>1, <1>8, <1>9, <2>1
  <2>2. CASE stopped # {}
    <3>1. Slots \in SUBSET Slots /\ \A t \in (Slots \cap Threads) \ stopped : d.th[t].status # "running"
      BY <1>4, <1>9
    <3>2. /\ Rows(db, Cancel(d, Slots), m, stopped) /\ Kept(Cancel(d, Slots), d)
          /\ \A s \in Slots : Cancel(d, Slots).own[s] = Null /\ Cancel(d, Slots).item[s] = "none"
      BY <1>8, <3>1, RowsCancel
    <3>3. d1 = Cancel(d, Slots)
      BY <2>2
    <3> HIDE DEF d1
    <3>4. ASSUME NEW t \in stopped PROVE Fits(d1.th[t], d1.item[t], Flow(m, t)) /\ Held(db, d1, t)
      <4>1. d1.th[t] = EndTurn /\ d1.own[t] = Null /\ d1.item[t] = "none"
        BY <1>3, <1>5, <1>9, <3>2, <3>3 DEF Kept, Slots
      <4>2. Fits(EndTurn, "none", Flow(m, t))
        BY <1>3, <1>7, RestFits
      <4> QED BY <4>1, <4>2 DEF Held
    <3>5. Rows(db, d1, m, {})
      BY <3>2, <3>3, <3>4, RowsClose
    <3> QED BY <1>1, <1>9, <3>2, <3>3, <3>5 DEF Kept
  <2> QED BY <2>1, <2>2
<1> HIDE DEF d1
<1>11. Rows(db, d2, m, {}) /\ Waited(d2) /\ ~d2.archived
  BY <1>10, RowsHalt
<1> HIDE DEF d2
<1>12. Rows(db, db', m, {}) /\ Waited(db')
  <2>1. CASE ~redirect
    BY <1>1, <1>11, <2>1 DEF Resume
  <2>2. CASE redirect
    <3> DEFINE e == Demand(d2)
    <3>1. db' = Start(e, Primary)
      BY <1>1, <2>2 DEF Resume, Start
    <3>2. SameRows(e, d2)
      BY <1>11, DemandFields DEF Rows
    <3> HIDE DEF e
    <3>3. Rows(db, e, m, {}) /\ Waited(e) /\ ~e.archived
      BY <1>11, <3>2, RowsSame, SameKept, KeptWaited DEF SameRows
    <3>4. ~Flow(m, Primary).unsettled /\ Primary \notin {}
      BY <1>2, <1>4, <1>7
    <3>5. Rows(db, Start(e, Primary), m, {}) /\ Waited(Start(e, Primary))
      BY <1>2, <3>3, <3>4, RowsStart
    <3> QED BY <3>1, <3>5
  <2> QED BY <2>1, <2>2
<1> QED BY <1>1, <1>6, <1>7, <1>12 DEF Sound

-----------------------------------------------------------------------------
\* A thread is moved to where no call may be open, and its calls are abandoned.
LEMMA RowsLeave ==
    ASSUME ThreadInv, ~db.archived, NEW t \in Threads, NEW s \in St
    PROVE  LET d == Move(Ended(db, t), t, s) IN
           /\ Rows(db, d, Abandoned(log, {t}), {t}) /\ Waited(d) /\ ~d.archived
           /\ d.th[t] = s /\ d.own = db.own
<1> DEFINE d1 == Ended(db, t)
           d == Move(d1, t, s)
<1>1. /\ Rows(db, d1, log, {}) /\ Waited(d1) /\ ~d1.archived /\ d1.own = db.own
      /\ t # Primary /\ d1.parked => \E o \in Children \ {t} : Busy(d1, o)
  <2>1. {} \subseteq {t}
    OBVIOUS
  <2> QED BY <2>1, RowsEnded DEF ThreadInv
<1> HIDE DEF d1
<1>2. d1 \in Db /\ d1.th \in [Threads -> St]
  BY <1>1 DEF Rows, Db
<1>3. Rows(db, d, log, {t})
  <2>1. Rows(db, d1, log, {t})
    BY <1>1, RowsWeaken
  <2> QED BY <1>1, <2>1, RowsMove
<1>4. Waited(d)
  BY <1>1, <1>2, RestWaited
<1>5. d.th = [d1.th EXCEPT ![t] = s] /\ d.own = d1.own /\ d.archived = d1.archived
  BY <1>2, MoveFields
<1> HIDE DEF d
<1>6. Rows(db, d, Abandoned(log, {t}), {t})
  <2>1. \A x : x \notin {t} => Flow(Abandoned(log, {t}), x) = Flow(log, x)
    BY AbandonedFacts DEF ThreadInv, SessionInv
  <2> QED BY <1>3, <2>1, RowsLog
<1>7. d.th[t] = s /\ d.own = db.own /\ ~d.archived
  BY <1>1, <1>2, <1>5
<1> QED BY <1>4, <1>6, <1>7 DEF d, d1

\* So does an interrupt of one thread.
LEMMA InterruptThreadSound ==
    ASSUME ThreadInv, NEW t \in Threads, InterruptThread(t) PROVE Sound(log', db')
<1> DEFINE d == Move(Ended(db, t), t, EndTurn)
           e == Cancel(d, {t})
<1>1. ~db.archived /\ log' = Abandoned(log, {t}) /\ db' = IF t = Primary THEN Halt(e) ELSE e
  BY DEF InterruptThread
<1>2. PICK m : m = Abandoned(log, {t})
  OBVIOUS
<1>3. EndTurn \in St /\ EndTurn \in RestStates
  BY RestIsStatus DEF RestStates
<1>4. Rows(db, d, m, {t}) /\ Waited(d) /\ ~d.archived /\ d.th[t] = EndTurn
  BY <1>1, <1>2, <1>3, RowsLeave
<1>5. Ordered(m) /\ Onward(m, log) /\ ~Flow(m, t).unsettled
  BY <1>2, AbandonedFacts DEF ThreadInv, SessionInv
<1> HIDE DEF d
<1>6. Rows(db, e, m, {t}) /\ Kept(e, d) /\ e.own[t] = Null /\ e.item[t] = "none"
  <2>1. {t} \in SUBSET Slots /\ \A x \in ({t} \cap Threads) \ {t} : d.th[x].status # "running"
    BY DEF Slots
  <2> QED BY SMTT(30), <1>4, <2>1, RowsCancel
<1> HIDE DEF e
<1>7. Fits(e.th[t], e.item[t], Flow(m, t)) /\ Held(db, e, t)
  <2>1. Fits(EndTurn, "none", Flow(m, t))
    BY <1>3, <1>5, RestFits
  <2> QED BY <1>4, <1>6, <2>1 DEF Kept, Held
<1>8. Rows(db, e, m, {})
  BY <1>6, <1>7, RowsClose
<1>9. Waited(e)
  BY <1>4, <1>6, KeptWaited
<1>10. Rows(db, db', m, {}) /\ Waited(db')
  BY <1>1, <1>8, <1>9, RowsHalt
<1> QED BY <1>1, <1>2, <1>5, <1>10 DEF Sound

\* The terminated status is one.
LEMMA GoneIsStatus == Gone \in St /\ Gone.status = "terminated"
BY DEF Gone, St

\* Archiving a thread leaves sound rows.
LEMMA ArchiveThreadSound ==
    ASSUME ThreadInv, NEW t \in Threads, ArchiveThread(t) PROVE Sound(log', db')
<1> DEFINE d == Move(Ended(db, t), t, Gone)
<1>1. t # Primary /\ db.th[t].status = "idle" /\ log' = Abandoned(log, {t}) /\ db' = d
  BY DEF ArchiveThread, Children
<1>2. ~db.archived
  BY <1>1 DEF ThreadInv, Rows, Asleep, Live
<1>3. PICK m : m = Abandoned(log, {t})
  OBVIOUS
<1>4. Rows(db, d, m, {t}) /\ Waited(d) /\ d.th[t] = Gone /\ d.own = db.own
  BY <1>2, <1>3, GoneIsStatus, RowsLeave
<1>5. Ordered(m) /\ Onward(m, log) /\ ~Flow(m, t).unsettled
  BY <1>3, AbandonedFacts DEF ThreadInv, SessionInv
<1> HIDE DEF d
<1>6. Fits(d.th[t], d.item[t], Flow(m, t)) /\ Held(db, d, t)
  BY <1>1, <1>4, <1>5, GoneIsStatus DEF Fits, Held
<1>7. Rows(db, d, m, {})
  BY <1>4, <1>6, RowsClose
<1> QED BY <1>1, <1>2, <1>3, <1>4, <1>5, <1>7 DEF Sound

\* A session in which nothing runs and no child is live may be archived.
LEMMA RowsArchive ==
    ASSUME NEW b, NEW d, NEW l, Rows(b, d, l, {}), Asleep(d), d.parked => d.th[Primary] = EndTurn
    PROVE  LET e == [d EXCEPT !.archived = TRUE] IN Rows(b, e, l, {}) /\ Waited(e) /\ e.archived
<1> DEFINE e == [d EXCEPT !.archived = TRUE]
<1>0. d \in Db
  BY DEF Rows
<1>1. e \in Db
  BY <1>0, Zenon DEF Db
<1>2. e.th = d.th /\ e.sess = d.sess /\ e.item = d.item /\ e.own = d.own
  BY <1>0 DEF Db
<1>3. (e.parked <=> d.parked) /\ e.archived
  BY <1>0, Zenon DEF Db
<1> HIDE DEF e
<1>4. Asleep(e)
  BY <1>2 DEF Asleep, Live
<1>5. \A x : Held(b, d, x) => Held(b, e, x)
  BY <1>2 DEF Held
<1>6. Rows(b, e, l, {})
  BY <1>1, <1>2, <1>4, <1>5, Zenon DEF Rows
<1>7. Waited(e)
  BY <1>2, <1>3 DEF Waited
<1> QED BY <1>3, <1>6, <1>7 DEF e

\* Archiving a session leaves sound rows.
LEMMA ArchiveSessionSound == ASSUME ThreadInv, ArchiveSession PROVE Sound(log', db')
<1> DEFINE ended == Children \cap Live(db)
           open == Unsettled(log, Primary) # {}
           ts == ended \cup (IF open THEN {Primary} ELSE {})
           to == [t \in ended |-> Gone]
           d == MoveAll(db, to)
           d1 == Move(d, Primary, EndTurn)
           d2 == IF open THEN Cancel(d1, Slots) ELSE d
<1>1. ~db.archived /\ db.sess # "running" /\ log' = Abandoned(log, ts) /\ db' = [d2 EXCEPT !.archived = TRUE]
  BY Zenon DEF ArchiveSession
<1>2. /\ log \in Logs /\ Ordered(log) /\ db \in Db /\ Rows(db, db, log, {}) /\ Primary \in Threads
      /\ db.th \in [Threads -> St]
  BY SessionAssumption DEF ThreadInv, SessionInv, Rows, Db
<1>3. ended \in SUBSET Threads /\ Primary \notin ended /\ EndTurn \in St /\ EndTurn \in RestStates
  BY RestIsStatus DEF Children, RestStates
<1>4. \A t \in Threads : db.th[t].status # "running"
  BY <1>1, <1>2 DEF Rows, Fold
<1>5. \A t \in Threads \ {Primary} : t \notin ended => db.th[t].status \notin {"running", "idle"}
  BY DEF Live, Children
<1> HIDE DEF ended
<1>6. to \in [ended -> St] /\ \A t \in ended : to[t] = Gone
  BY GoneIsStatus
<1> HIDE DEF to
<1>7. PICK m : m = Abandoned(log, ts)
  OBVIOUS
<1>8. /\ Ordered(m) /\ Onward(m, log)
      /\ \A t \in ts : ~Flow(m, t).unsettled
      /\ \A t : t \notin ts => Flow(m, t) = Flow(log, t)
  BY <1>2, <1>7, AbandonedFacts
<1> DEFINE X == ended \cup {Primary}
<1>9. Rows(db, d, m, X)
  <2>1. Rows(db, db, log, X)
    BY <1>2, RowsWeaken
  <2>2. Rows(db, d, log, X)
    BY <1>1, <1>3, <1>6, <2>1, RowsMoveAll
  <2> HIDE DEF d
  <2>3. \A t \in Threads \ X : Flow(m, t) = Flow(log, t)
    BY <1>8
  <2> QED BY <2>2, <2>3, RowsLog
<1>10. /\ d \in Db /\ d.th = [t \in Threads |-> IF t \in ended THEN to[t] ELSE db.th[t]]
       /\ d.archived = db.archived /\ d.item = db.item /\ d.own = db.own
       /\ d.parked = (db.parked /\ Primary \notin ended)
  BY <1>2, <1>3, <1>6, MoveAllFields
<1> HIDE DEF d
<1>11. /\ \A t \in ended : d.th[t] = Gone
       /\ \A t \in Threads \ ended : d.th[t] = db.th[t]
  BY <1>3, <1>6, <1>10
<1>12. ASSUME NEW e, Rows(db, e, m, X), \A t \in ended : e.th[t] = Gone,
              \A t \in Threads \ X : e.th[t] = db.th[t], e.th[Primary].status # "running",
              Fits(e.th[Primary], e.item[Primary], Flow(m, Primary)),
              \A t \in Threads : e.own[t] \in {Null, db.own[t]}
       PROVE  Rows(db, e, m, {}) /\ Asleep(e)
  <2>1. ASSUME NEW t \in (Threads \cap X) \ {} PROVE Fits(e.th[t], e.item[t], Flow(m, t)) /\ Held(db, e, t)
    <3>1. Held(db, e, t)
      BY <1>4, <1>12 DEF Held
    <3>2. CASE t \in ended
      BY <1>8, <1>12, <3>1, <3>2, GoneIsStatus DEF Fits
    <3>3. CASE t = Primary
      BY <1>12, <3>1, <3>3
    <3> QED BY <3>2, <3>3
  <2>2. Rows(db, e, m, {})
    BY <1>12, <2>1, RowsClose
  <2>3. Asleep(e)
    BY <1>3, <1>4, <1>5, <1>12, GoneIsStatus DEF Asleep, Live
  <2> QED BY <2>2, <2>3
<1>13. Rows(db, d2, m, {}) /\ Asleep(d2) /\ (d2.parked => d2.th[Primary] = EndTurn)
  <2>1. CASE ~open
    <3>1. d2 = d /\ Primary \notin ts
      BY <1>3, <2>1
    <3>2. Fits(d.th[Primary], d.item[Primary], Flow(m, Primary))
      <4>1. Fits(db.th[Primary], db.item[Primary], Flow(log, Primary))
        BY <1>2 DEF Rows
      <4> QED BY <1>2, <1>3, <1>8, <1>10, <1>11, <3>1, <4>1
    <3>3. d.parked => d.th[Primary] = EndTurn
      BY <1>2, <1>3, <1>10, <1>11 DEF ThreadInv, Waited
    <3>4. d.th[Primary].status # "running"
      BY <1>2, <1>3, <1>4, <1>11
    <3>5. \A t \in Threads : d.own[t] \in {Null, db.own[t]}
      BY <1>10
    <3>6. \A t \in Threads \ X : d.th[t] = db.th[t]
      BY <1>11
    <3> HIDE DEF d2, X
    <3>7. Rows(db, d, m, {}) /\ Asleep(d)
      BY <1>9, <1>11, <1>12, <3>2, <3>4, <3>5, <3>6
    <3> QED BY <3>1, <3>3, <3>7
  <2>2. CASE open
    <3>1. d2 = Cancel(d1, Slots) /\ Primary \in ts
      BY <2>2
    <3>2. Rows(db, d1, m, X)
      BY <1>1, <1>2, <1>3, <1>9, <1>10, RowsMove
    <3>3. d1.th = [d.th EXCEPT ![Primary] = EndTurn] /\ d1.parked = (d.parked /\ Primary # Primary)
      BY <1>2, <1>3, <1>10, MoveFields
    <3>4. d.th \in [Threads -> St]
      BY <1>10 DEF Db
    <3> HIDE DEF d1
    <3>5. /\ d1.th[Primary] = EndTurn /\ ~d1.parked
          /\ \A t \in ended : d1.th[t] = Gone
          /\ \A t \in Threads \ X : d1.th[t] = db.th[t]
      BY <1>2, <1>3, <1>11, <3>3, <3>4
    <3>6. Slots \in SUBSET Slots /\ \A t \in (Slots \cap Threads) \ X : d1.th[t].status # "running"
      BY <1>4, <3>5
    <3>7. /\ Rows(db, d2, m, X) /\ Kept(d2, d1)
          /\ \A s \in Slots : d2.own[s] = Null /\ d2.item[s] = "none"
      BY SMTT(30), <3>1, <3>2, <3>6, RowsCancel
    <3> HIDE DEF d2
    <3>8. d2.th = d1.th /\ ~d2.parked /\ \A t \in Threads : d2.own[t] = Null /\ d2.item[t] = "none"
      BY <3>5, <3>7 DEF Kept, Slots
    <3>9. Fits(d2.th[Primary], d2.item[Primary], Flow(m, Primary))
      <4>1. Fits(EndTurn, "none", Flow(m, Primary))
        BY <1>3, <1>8, <3>1, RestFits
      <4> QED BY <1>2, <3>5, <3>8, <4>1
    <3>10. d2.th[Primary].status # "running"
      BY <1>3, <3>5, <3>8, RestIsStatus
    <3> HIDE DEF X, ts
    <3>11. Rows(db, d2, m, {}) /\ Asleep(d2)
      BY <1>12, <3>5, <3>7, <3>8, <3>9, <3>10
    <3> QED BY <3>8, <3>11
  <2> QED BY <2>1, <2>2
<1> HIDE DEF d2
<1>14. Rows(db, db', m, {}) /\ Waited(db') /\ db'.archived
  BY <1>1, <1>13, RowsArchive
<1> QED BY <1>1, <1>7, <1>8, <1>14 DEF Sound

\* Completing an executor's item changes no thread's rows.
LEMMA RowsItem ==
    ASSUME ThreadInv, NEW s \in Slots, s \notin Threads
    PROVE  /\ Rows(db, Complete(db, s), log, {}) /\ Kept(Complete(db, s), db)
BY RowsComplete DEF ThreadInv

\* The self-hosted fleet's stop of an item leaves sound rows.
LEMMA FleetSound == ASSUME ThreadInv, FleetStops PROVE Sound(log', db')
<1> DEFINE d == Complete(db, "tool")
           e == EnqueueExec(d, log)
<1>1. db' = e /\ log' = log
  BY DEF FleetStops
<1>2. "tool" \in Slots /\ "tool" \notin Threads
  BY OtherSlots DEF Execs
<1>3. Rows(db, d, log, {}) /\ Kept(d, db)
  BY <1>2, RowsItem
<1> HIDE DEF d
<1>4. Rows(db, e, log, {}) /\ Beside(e, d)
  BY <1>3, RowsEnqueueExec
<1> HIDE DEF e
<1>5. Kept(e, db)
  BY <1>3, <1>4, KeptTransitive DEF Beside
<1>6. Waited(e) /\ (db.archived => e.archived)
  BY <1>5, KeptWaited DEF ThreadInv, Kept
<1> QED BY <1>1, <1>4, <1>6, OnwardSelf DEF Sound, ThreadInv

-----------------------------------------------------------------------------
(* A driver. *)

\* Requeue puts an executor's item back without its claim, and nothing else.
LEMMA RequeueItemFields ==
    ASSUME NEW d \in Db, NEW s \in Slots
    PROVE  /\ Requeue(d, s) \in Db
           /\ Requeue(d, s).th = d.th /\ Requeue(d, s).sess = d.sess
           /\ Requeue(d, s).archived = d.archived /\ Requeue(d, s).parked = d.parked
           /\ Requeue(d, s).env = d.env
           /\ Requeue(d, s).own[s] = Null /\ Requeue(d, s).item[s] = "queued"
           /\ \A r \in Slots \ {s} : Requeue(d, s).own[r] = d.own[r] /\ Requeue(d, s).item[r] = d.item[r]
<1> DEFINE item == [d.item EXCEPT ![s] = "queued"]
           own == [d.own EXCEPT ![s] = Null]
<1>1. item \in [Slots -> {"none", "queued", "active"}] /\ own \in [Slots -> Workers \cup {Null}]
  BY DEF Db
<1>2. Requeue(d, s) = [d EXCEPT !.item = item, !.own = own]
  BY DEF Requeue
<1>3. /\ item[s] = "queued" /\ own[s] = Null
      /\ \A r \in Slots \ {s} : own[r] = d.own[r] /\ item[r] = d.item[r]
  BY DEF Db
<1> HIDE DEF item, own
<1>4. Requeue(d, s) \in Db
  BY <1>1, <1>2, Zenon DEF Db
<1> QED BY <1>2, <1>3, <1>4 DEF Db

\* Requeueing an executor's item keeps the rows fit.
LEMMA RowsRequeueItem ==
    ASSUME NEW b, NEW d, NEW l, NEW X, Rows(b, d, l, X), NEW s \in Slots, s \notin Threads
    PROVE  Rows(b, Requeue(d, s), l, X) /\ Kept(Requeue(d, s), d)
<1> DEFINE e == Requeue(d, s)
<1>0. d \in Db
  BY DEF Rows
<1>1. /\ e \in Db /\ e.th = d.th /\ e.sess = d.sess /\ e.archived = d.archived
      /\ e.parked = d.parked /\ e.env = d.env /\ e.own[s] = Null /\ e.item[s] = "queued"
      /\ \A r \in Slots \ {s} : e.own[r] = d.own[r] /\ e.item[r] = d.item[r]
  BY <1>0, RequeueItemFields
<1> HIDE DEF e
<1>2. \A t \in Threads : e.own[t] = d.own[t] /\ e.item[t] = d.item[t]
  BY <1>1 DEF Slots
<1>3. \A t \in Threads \ X : Fits(e.th[t], e.item[t], Flow(l, t)) /\ Held(b, e, t)
  BY <1>1, <1>2 DEF Rows, Held
<1>4. Asleep(d) => Asleep(e)
  BY <1>1 DEF Asleep, Live
<1>5. \A r \in Slots : e.own[r] # Null => e.item[r] # "none"
  BY <1>1 DEF Rows
<1>6. Rows(b, e, l, X)
  BY <1>1, <1>3, <1>4, <1>5 DEF Rows
<1> QED BY <1>1, <1>6 DEF e, Kept

\* A driver's item is no thread's.
LEMMA DriverSlot ==
    ASSUME ThreadInv, NEW w \in Drivers, Holds(w)
    PROVE  job[w].slot \in Slots /\ job[w].slot \notin Threads
<1>1. job[w] \in Job
  BY DEF ThreadInv, SessionInv, Workers
<1> QED BY <1>1, Zenon DEF ThreadInv, Holds, Job

\* A driver that admits its run keeps the invariant.
LEMMA AdmitRunKeeps == ASSUME ThreadInv, SessionInv', NEW w \in Drivers, AdmitRun(w) PROVE ThreadInv'
<1>0. w \in Workers /\ w \notin Brains
  BY SessionAssumption DEF Workers
<1>1. PICK s : s = job[w].slot
  OBVIOUS
<1>2. /\ Holds(w) /\ log' = log
      /\ \/ db' = Complete(db, s) /\ Done(w)
         \/ db' = Requeue(db, s) /\ Done(w)
         \/ db' = db /\ job' = [job EXCEPT ![w].phase = "admitted"]
  BY <1>1 DEF AdmitRun
<1>3. s \in Slots /\ s \notin Threads
  BY <1>1, <1>2, DriverSlot
<1>4. CASE db' = Complete(db, s) /\ Done(w)
  BY <1>0, <1>2, <1>3, <1>4, RowsItem, KeptSound, DoneKeeps
<1>5. CASE db' = Requeue(db, s) /\ Done(w)
  <2>1. Rows(db, Requeue(db, s), log, {}) /\ Kept(Requeue(db, s), db)
    BY <1>3, RowsRequeueItem DEF ThreadInv
  <2> QED BY <1>0, <1>2, <1>5, <2>1, KeptSound, DoneKeeps
<1>6. CASE db' = db /\ job' = [job EXCEPT ![w].phase = "admitted"]
  <2>1. Sound(log', db')
    BY <1>2, <1>6, StandSound
  <2>2. /\ job'[w].slot = job[w].slot /\ job'[w].plan = job[w].plan
        /\ \A v \in Workers \ {w} : job'[v] = job[v]
    BY <1>0, <1>6, PhaseFields
  <2>3. PlanFits(w)' /\ job'[w].slot \notin Threads
    BY <1>0, <2>1, <2>2, PlanKeeps DEF ThreadInv
  <2> QED BY <1>0, <2>1, <2>2, <2>3, WorkerKeeps
<1> QED BY <1>2, <1>4, <1>5, <1>6

\* So does one that plans the calls it will run.
LEMMA ScanKeeps == ASSUME ThreadInv, SessionInv', NEW w \in Drivers, ScanUses(w) PROVE ThreadInv'
<1>0. w \in Workers /\ w \notin Brains
  BY SessionAssumption DEF Workers
<1> DEFINE plan == RunnableUses(log, job[w].slot)
<1>1. job' = [job EXCEPT ![w].phase = "running", ![w].plan = plan] /\ log' = log /\ db' = db
  BY DEF ScanUses
<1>2. Sound(log', db')
  BY <1>1, StandSound
<1>3. log \in Logs /\ job \in [Workers -> Job]
  BY DEF ThreadInv, SessionInv
<1>4. \A i \in plan : /\ i \in DOMAIN log
                      /\ \A j \in DOMAIN log : j < i /\ log[j].thread = log[i].thread => log[j].result = "done" \/ j \in plan
  <2> SUFFICES ASSUME NEW i \in plan, NEW j \in DOMAIN log, j < i, log[j].thread = log[i].thread, log[j].result # "done"
               PROVE  j \in plan
    BY DEF RunnableUses
  <2>1. i \in DOMAIN log /\ InReadyPrefix(log, i, job[w].slot)
    BY DEF RunnableUses
  <2>2. DOMAIN log \subseteq Int
    BY <1>3 DEF Logs
  <2>3. \A k \in Unsettled(log, log[j].thread) : k <= j => k <= i
    BY <2>1, <2>2 DEF Unsettled
  <2>4. InReadyPrefix(log, j, job[w].slot)
    BY <2>1, <2>3 DEF InReadyPrefix
  <2> QED BY <2>4 DEF RunnableUses
<1> HIDE DEF plan
<1>5. job[w] \in Job
  BY <1>0, <1>3
<1>6. /\ job'[w].plan = plan /\ job'[w].slot = job[w].slot
      /\ \A v \in Workers \ {w} : job'[v] = job[v]
  BY <1>0, <1>1, <1>3, <1>5 DEF Job
<1>7. PlanFits(w)'
  BY <1>1, <1>4, <1>6 DEF PlanFits
<1>8. job'[w].slot \notin Threads
  BY <1>6 DEF ThreadInv
<1> QED BY <1>0, <1>2, <1>6, <1>7, <1>8, WorkerKeeps

\* A harvest leaves sound rows.
LEMMA HarvestSound == ASSUME ThreadInv, NEW w \in Drivers, FinishHarvest(w) PROVE Sound(log', db') /\ Done(w)
<1>1. db' = Complete(db, "harvest") /\ log' = log /\ Done(w)
  BY DEF FinishHarvest, Commits
<1>2. "harvest" \in Slots /\ "harvest" \notin Threads
  BY OtherSlots
<1> QED BY <1>1, <1>2, RowsItem, KeptSound

\* A thread that its calls keep waiting is one the settlement looks at.
LEMMA OpenIsFlow ==
    ASSUME ThreadInv, NEW t \in Threads, t \notin FlowThreads(db)
    PROVE  Unsettled(log, t) = {} /\ db.th[t].status # "running"
<1>1. Fits(db.th[t], db.item[t], Flow(log, t)) /\ db \in Db
  BY DEF ThreadInv, Rows
<1>2. db.th[t].status \in {"absent", "running", "idle", "terminated"}
  BY <1>1 DEF Db, St
<1>3. ~Flow(log, t).unsettled /\ db.th[t].status # "running"
  BY <1>1, <1>2 DEF Fits, FlowThreads
<1> QED BY <1>3, FlowOfQuiet

\* The log of a pass.
LEMMA PassLog ==
    ASSUME ThreadInv, NEW w \in Workers, NEW done \in SUBSET job[w].plan,
           \A i \in done, j \in job[w].plan : j < i => j \in done
    PROVE  LET m == Advance(WithResults(log, done), FlowThreads(db)) IN
           /\ m \in Logs /\ Ordered(m) /\ Onward(m, log)
           /\ \A t \in Threads \ FlowThreads(db) : Flow(m, t) = Flow(log, t)
           /\ \A t \in FlowThreads(db) : Running(Flow(m, t)) \/ Flow(m, t).pending # {}
           /\ \A t : Unsettled(m, t) \subseteq Unsettled(log, t)
<1> DEFINE a == WithResults(log, done)
           ts == FlowThreads(db)
           m == Advance(a, ts)
<1>1. log \in Logs /\ Ordered(log) /\ PlanFits(w)
  BY DEF ThreadInv, SessionInv
<1>2. a \in Logs /\ DOMAIN a = DOMAIN log
  BY <1>1, WithResultsSound DEF WithResults
<1>3. \A i \in DOMAIN log : /\ a[i].thread = log[i].thread
                            /\ log[i].result # "none" => a[i] = log[i]
                            /\ i \notin done => a[i] = log[i]
                            /\ i \in done /\ log[i].result = "none" => a[i].result = "done"
  BY DEF WithResults, Settled
<1>4. \A i \in DOMAIN log : log[i].thread \in Threads /\ log[i].result \in {"none", "held", "done"}
  BY <1>1 DEF SoundCall, Call, Logs
<1> HIDE DEF a
<1>5. NearlyOrdered(a, ts)
  <2> SUFFICES ASSUME NEW i \in DOMAIN log, NEW j \in DOMAIN log, i < j, a[i].thread = a[j].thread,
                      a[j].result = "done", a[i].result # "done"
               PROVE  a[i].thread \in ts /\ Resolves(a[i])
    BY <1>2 DEF NearlyOrdered
  <2>1. log[i].thread = log[j].thread /\ log[i].result # "done"
    BY <1>3
  <2>2. log[j].result # "done"
    BY <1>1, <2>1 DEF Ordered
  <2>3. j \in done
    BY <1>3, <2>2
  <2>4. i \in done
    BY <1>1, <2>1, <2>3 DEF PlanFits
  <2>5. log[i].result = "held" /\ a[i] = log[i]
    BY <1>3, <1>4, <2>1, <2>4
  <2>6. i \in Unsettled(log, log[i].thread)
    BY <2>1 DEF Unsettled
  <2>7. log[i].thread \in ts
    BY <1>4, <2>6, OpenIsFlow
  <2> QED BY <2>5, <2>7 DEF Resolves
<1>6. Ordered(m) /\ m \in Logs /\ Onward(m, a) /\ DOMAIN m = DOMAIN log
  <2>1. Ordered(m)
    BY <1>2, <1>5, AdvanceOrders
  <2>2. m \in Logs /\ DOMAIN m = DOMAIN log
    BY <1>2, AdvanceSound DEF Advance
  <2> QED BY <1>2, <2>1, <2>2, OnwardAdvance
<1>7. Onward(a, log)
  BY <1>2, <1>3 DEF Onward, Continues
<1>8. ASSUME NEW t \in Threads, t \notin ts PROVE Flow(m, t) = Flow(log, t)
  <2>1. Unsettled(log, t) = {}
    BY <1>8, OpenIsFlow
  <2>2. CallsOf(a, t) = CallsOf(log, t) /\ \A i \in CallsOf(log, t) : a[i] = log[i]
    BY <1>2, <1>3, <2>1 DEF CallsOf, Unsettled
  <2>3. Flow(a, t) = Flow(log, t)
    BY <2>2, SameCalls
  <2>4. Flow(m, t) = Flow(a, t)
    BY <1>2, <1>8, AdvanceOthers
  <2> QED BY <2>3, <2>4
<1>9. ASSUME NEW t \in ts PROVE Running(Flow(m, t)) \/ Flow(m, t).pending # {}
  BY <1>2, StopsOnAWait
<1>10. ASSUME NEW t PROVE Unsettled(m, t) \subseteq Unsettled(log, t)
  <2>1. Onward(m, log)
    BY <1>6, <1>7, OnwardTransitive
  <2> QED BY <1>6, <2>1 DEF Unsettled, Onward, Continues
<1>11. Onward(m, log)
  BY <1>6, <1>7, OnwardTransitive
<1> HIDE DEF m
<1>12. m = Advance(WithResults(log, done), FlowThreads(db))
  BY DEF m, a
<1> QED BY <1>6, <1>8, <1>9, <1>10, <1>11, <1>12

\* The threads after it: settled, and resumed.
Resumed(d, m) == LET d1 == SettleFlow(d, m, FlowThreads(d)) IN EnqueueTurns(d1, Resumable(d1, m))

\* The threads a settlement moves have the status it gives them; their items
\* stay.
LEMMA MovedThreads ==
    ASSUME NEW d \in Db, NEW D \in SUBSET Threads, NEW to \in [D -> St]
    PROVE  /\ \A t \in D : MoveAll(d, to).th[t] = to[t]
           /\ MoveAll(d, to).item = d.item /\ MoveAll(d, to).own = d.own
<1> DEFINE e == MoveAll(d, to)
<1>1. /\ e.th = [t \in Threads |-> IF t \in D THEN to[t] ELSE d.th[t]]
      /\ e.item = d.item /\ e.own = d.own
  BY MoveAllFields
<1> HIDE DEF e
<1>2. \A t \in D : e.th[t] = to[t]
  BY <1>1
<1> QED BY <1>1, <1>2 DEF e

\* m is the log after a walk of the threads with open calls: each of them runs on
\* or waits, nobody's open calls are more, and the other threads are as before.
Walked(m) ==
    /\ \A t \in Threads \ FlowThreads(db) : Flow(m, t) = Flow(log, t)
    /\ \A t \in FlowThreads(db) : Running(Flow(m, t)) \/ Flow(m, t).pending # {}
    /\ \A t \in Threads : Unsettled(m, t) \subseteq Unsettled(log, t)

\* The settlement of every thread with open calls, and the turns it queues,
\* leave rows that fit the walked log.
LEMMA RowsResumed ==
    ASSUME ThreadInv, ~db.archived, NEW m \in Logs, Walked(m)
    PROVE  Rows(db, Resumed(db, m), m, {}) /\ Waited(Resumed(db, m))
<1> DEFINE ts == FlowThreads(db)
           to == [t \in ts |-> SettleTo(Flow(m, t))]
           d1 == MoveAll(db, to)
           rs == Resumable(d1, m)
           d2 == EnqueueTurns(d1, rs)
<1>1. ts \in SUBSET Threads /\ ts \cap Live(db) = ts
  BY DEF FlowThreads, Live
<1>2. Resumed(db, m) = d2
  <2>1. SettleFlow(db, m, ts) = d1
    BY <1>1, Zenon DEF SettleFlow
  <2> QED BY <2>1, Zenon DEF Resumed
<1>3. to \in [ts -> St] /\ \A t \in ts : to[t] = SettleTo(Flow(m, t))
  <2>1. ASSUME NEW t \in ts PROVE SettleTo(Flow(m, t)) \in St
    BY FlowIds, SettleToStatus
  <2> QED BY <2>1
<1>4. db \in Db /\ Waited(db) /\ Rows(db, db, log, {}) /\ db.th \in [Threads -> St]
  BY DEF ThreadInv, Rows, Db
<1> HIDE DEF ts, to
<1>5. Rows(db, db, m, ts)
  <2>1. Rows(db, db, log, ts)
    <3>1. {} \subseteq ts
      OBVIOUS
    <3> QED BY <1>4, <3>1, RowsWeaken
  <2>2. \A t \in Threads \ ts : Flow(m, t) = Flow(log, t)
    BY DEF ts, Walked
  <2> QED BY <2>1, <2>2, RowsLog
<1>6. Rows(db, d1, m, ts)
  BY <1>1, <1>3, <1>5, RowsMoveAll
<1>7. \A t \in ts : d1.th[t] = to[t]
  BY <1>1, <1>3, <1>4, MovedThreads
<1>8. d1.item = db.item /\ d1.own = db.own
  BY <1>1, <1>3, <1>4, MovedThreads
<1>9. Waited(d1)
  <2>1. \A c \in ts : \/ to[c].status = "running"
                      \/ to[c].status = "idle" /\ to[c].stop = "requires_action"
    BY <1>3 DEF SettleTo, RunningNow, IdleOn
  <2> QED BY <1>1, <1>3, <1>4, <2>1, BusyMoves
<1> HIDE DEF d1
<1>10. rs \in SUBSET Threads /\ \A t \in Threads : t \in rs <=> d1.th[t].status = "running" /\ Unsettled(m, t) = {}
  BY DEF Resumable
<1> HIDE DEF rs
<1>11. \A t \in rs \ ts : ~Flow(m, t).unsettled
  BY <1>10, FlowOfQuiet
<1>12. /\ Rows(db, d2, m, ts) /\ Kept(d2, d1) /\ d2.own = d1.own
       /\ \A t \in rs : d2.item[t] # "none"
       /\ \A t \in Threads \ rs : d2.item[t] = d1.item[t]
  <2>1. rs \in SUBSET Threads
    BY <1>10
  <2>2. Rows(db, d2, m, ts) /\ Queued(d2, d1, rs)
    BY <1>6, <1>11, <2>1, RowsEnqueueTurns
  <2> QED BY <2>2 DEF Queued
<1> HIDE DEF d2
<1>13. ASSUME NEW t \in Threads, t \in ts PROVE Fits(d2.th[t], d2.item[t], Flow(m, t)) /\ Held(db, d2, t)
  <2> DEFINE flow == Flow(m, t)
  <2>1. (Running(flow) \/ flow.pending # {}) /\ d2.th[t] = SettleTo(flow)
    <3>1. Running(flow) \/ flow.pending # {}
      BY <1>13 DEF ts, Walked
    <3>2. d2.th[t] = SettleTo(flow)
      BY <1>3, <1>7, <1>12, <1>13 DEF Kept
    <3> QED BY <3>1, <3>2
  <2>2. flow.unsettled <=> Unsettled(m, t) # {}
    BY FlowOfQuiet
  <2>3. CASE ~flow.unsettled
    <3>1. Running(flow)
      BY <2>3 DEF Running
    <3>2. d2.th[t].status = "running" /\ d1.th[t].status = "running"
      <4>1. d2.th = d1.th
        BY <1>12 DEF Kept
      <4>2. SettleTo(flow).status = "running"
        BY <3>1 DEF SettleTo, RunningNow
      <4> QED BY <2>1, <4>1, <4>2
    <3>3. d2.item[t] # "none"
      BY <1>10, <1>12, <2>2, <2>3, <3>2
    <3>4. Held(db, d2, t)
      BY <1>8, <1>12, <3>2 DEF Held
    <3> QED BY <2>1, <2>3, <3>3, <3>4, SettledFits
  <2>4. CASE flow.unsettled
    <3>1. Unsettled(log, t) # {}
      BY <2>2, <2>4 DEF Walked
    <3>2. Flow(log, t).unsettled
      BY <3>1, FlowOfQuiet
    <3>3. db.item[t] = "none" /\ db.own[t] = Null
      BY <1>4, <3>2 DEF Rows, Fits, Slots
    <3>4. d2.item[t] = "none" /\ d2.own[t] = Null
      BY <1>8, <1>10, <1>12, <2>2, <2>4, <3>3
    <3> QED BY <2>1, <2>4, <3>4, SettledFits DEF Held
  <2> QED BY <2>3, <2>4
<1>14. Rows(db, d2, m, {})
  BY <1>12, <1>13, RowsClose
<1>15. Waited(d2)
  BY <1>9, <1>12, KeptWaited
<1> QED BY <1>2, <1>14, <1>15

\* What becomes of the driver's item afterwards changes no thread's rows.
LEMMA RowsHandOn ==
    ASSUME NEW d, NEW l, Rows(db, d, l, {}), NEW s \in Slots, s \notin Threads, NEW k \in Execs, NEW fault
    PROVE  Rows(db, HandOn(d, s, k, fault), l, {}) /\ Kept(HandOn(d, s, k, fault), d)
<1> DEFINE d1 == IF k = s THEN d ELSE Enqueue(d, k)
<1>1. Rows(db, d1, l, {}) /\ Kept(d1, d)
  <2>1. k \in Slots /\ k \notin Threads
    BY OtherSlots
  <2>2. Rows(db, Enqueue(d, k), l, {}) /\ Kept(Enqueue(d, k), d)
    BY <2>1, RowsEnqueue DEF Beside
  <2> QED BY <2>2 DEF Kept
<1>2. \/ HandOn(d, s, k, fault) = [d1 EXCEPT !.own[s] = Null]
      \/ HandOn(d, s, k, fault) = Requeue(d1, s)
      \/ HandOn(d, s, k, fault) = Complete(d1, s)
  BY DEF HandOn
<1> HIDE DEF d1
<1>3. /\ Rows(db, [d1 EXCEPT !.own[s] = Null], l, {}) /\ Kept([d1 EXCEPT !.own[s] = Null], d1)
  BY <1>1, RowsUnown
<1>4. Rows(db, Requeue(d1, s), l, {}) /\ Kept(Requeue(d1, s), d1)
  BY <1>1, RowsRequeueItem
<1>5. Rows(db, Complete(d1, s), l, {}) /\ Kept(Complete(d1, s), d1)
  BY <1>1, RowsComplete
<1> QED BY <1>1, <1>2, <1>3, <1>4, <1>5, KeptTransitive

\* A driver's settlement leaves sound rows.
LEMMA PassSound == ASSUME ThreadInv, NEW w \in Drivers, SettleRun(w) PROVE Sound(log', db') /\ Done(w)
<1>0. w \in Workers
  BY DEF Workers
<1>1. PICK s : s = job[w].slot
  OBVIOUS
<1>2. PICK done \in SUBSET job[w].plan :
        /\ \A i \in done, j \in job[w].plan : j < i => j \in done
        /\ log' = Advance(WithResults(log, done), FlowThreads(db))
        /\ Commits(w, SettleDrain(db, log', s, done # job[w].plan)) /\ Done(w)
  BY <1>1 DEF SettleRun
<1>3. Holds(w) /\ ~db.archived
  BY <1>2 DEF Commits
<1>4. s \in Slots /\ s \notin Threads
  BY <1>1, <1>3, DriverSlot
<1>5. PICK m : m = log'
  OBVIOUS
<1>6. /\ m \in Logs /\ Ordered(m) /\ Onward(m, log)
      /\ \A t \in Threads \ FlowThreads(db) : Flow(m, t) = Flow(log, t)
      /\ \A t \in FlowThreads(db) : Running(Flow(m, t)) \/ Flow(m, t).pending # {}
      /\ \A t : Unsettled(m, t) \subseteq Unsettled(log, t)
  BY <1>0, <1>2, <1>5, PassLog
<1>7. PICK fault : fault = (done # job[w].plan)
  OBVIOUS
<1> DEFINE d2 == Resumed(db, m)
           k == ExecClass(m)
<1>8. Rows(db, d2, m, {}) /\ Waited(d2)
  <2>1. Walked(m)
    BY <1>6 DEF Walked
  <2> QED BY <1>3, <1>6, <2>1, RowsResumed
<1>9. db' = IF k = "none" THEN Complete(IdleHarvest(db, d2), s) ELSE HandOn(d2, s, k, fault)
  BY <1>2, <1>5, <1>7, Zenon DEF Commits, SettleDrain, Resumed
<1> HIDE DEF d2, k
<1>10. CASE k = "none"
  <2> DEFINE h == IdleHarvest(db, d2)
  <2>1. Rows(db, h, m, {}) /\ Waited(h)
    BY <1>8, RowsHarvest, KeptWaited DEF Beside
  <2> HIDE DEF h
  <2>2. Rows(db, Complete(h, s), m, {}) /\ Waited(Complete(h, s))
    BY <1>4, <2>1, RowsComplete, KeptWaited
  <2> QED BY <1>2, <1>3, <1>5, <1>6, <1>9, <1>10, <2>2 DEF Sound, h
<1>11. CASE k # "none"
  <2>1. k \in Execs
    BY <1>11, ExecClassKinds DEF k
  <2>2. Rows(db, HandOn(d2, s, k, fault), m, {}) /\ Waited(HandOn(d2, s, k, fault))
    BY <1>4, <1>8, <2>1, RowsHandOn, KeptWaited
  <2> QED BY <1>2, <1>3, <1>5, <1>6, <1>9, <1>11, <2>2 DEF Sound
<1> QED BY <1>10, <1>11
===============================================================================
