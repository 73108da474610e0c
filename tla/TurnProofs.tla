-------------------------- MODULE TurnProofs --------------------------
(***************************************************************************)
(* What the queue and the brains do to a session's threads: a claim, a     *)
(* lapsed lease, a turn that ends without a reply, and the commit of a     *)
(* reply with its tool calls and its delegation calls.                     *)
(***************************************************************************)
EXTENDS SessionProofs

-----------------------------------------------------------------------------
(* A turn's delegation calls. *)

\* A run of a turn's delegation calls, as it goes on.
Run == [d : Db, woke : BOOLEAN, park : BOOLEAN, ended : BOOLEAN, alone : BOOLEAN]

\* What a run of thread t's ops that began with the rows b has made so far: all
\* is well but for t itself; it parks only on a busy child, and a child that
\* reported leaves no coordinator waiting.
OpsInv(b, t, acc) ==
    /\ acc \in Run
    /\ Rows(b, acc.d, log, {t}) /\ Waited(acc.d) /\ ~acc.d.archived
    /\ acc.d.th[t] = b.th[t] /\ acc.d.own = b.own
    /\ acc.park => t = Primary /\ \E c \in Children : Busy(acc.d, c)
    /\ acc.ended => t # Primary /\ ~acc.d.parked

\* e follows d: nobody stops being busy, and no one parks.
Follows(e, d, t) ==
    /\ ~e.archived /\ e.th[t] = d.th[t] /\ e.own = d.own
    /\ \A c \in Children : Busy(d, c) => Busy(e, c)
    /\ e.parked => d.parked

\* The run after a call that changed the rows.
Woken(acc, e, w) == [acc EXCEPT !.d = e, !.woke = w]

\* Such a call changes the rows and whether a thread was woken, and nothing
\* else.
LEMMA WokenFields ==
    ASSUME NEW acc \in Run, NEW e \in Db, NEW w \in BOOLEAN
    PROVE  /\ Woken(acc, e, w) \in Run /\ Woken(acc, e, w).d = e
           /\ Woken(acc, e, w).park <=> acc.park
           /\ Woken(acc, e, w).ended <=> acc.ended
<1> DEFINE a == [acc EXCEPT !.d = e, !.woke = w]
<1>1. a \in Run
  BY Zenon DEF Run
<1>2. a.d = e
  BY DEF Run
<1>3. (a.park <=> acc.park) /\ (a.ended <=> acc.ended)
  BY Zenon DEF Run
<1> QED BY <1>1, <1>2, <1>3, Zenon DEF Woken

\* A call whose rows follow the run's keeps the run's invariant.
LEMMA OpsStep ==
    ASSUME NEW b, NEW t, NEW acc, OpsInv(b, t, acc), NEW e, NEW w \in BOOLEAN,
           Rows(b, e, log, {t}), Waited(e), Follows(e, acc.d, t)
    PROVE  OpsInv(b, t, Woken(acc, e, w))
<1>1. acc \in Run /\ e \in Db
  BY DEF OpsInv, Rows
<1>2. /\ Woken(acc, e, w) \in Run /\ Woken(acc, e, w).d = e
      /\ Woken(acc, e, w).park <=> acc.park
      /\ Woken(acc, e, w).ended <=> acc.ended
  BY <1>1, WokenFields
<1> QED BY <1>2 DEF OpsInv, Follows

\* create_agent keeps it.
LEMMA CreateKeeps ==
    ASSUME NEW b, NEW acc, OpsInv(b, Primary, acc)
    PROVE  OpsInv(b, Primary, CreateAgent(acc))
<1> DEFINE fresh == {c \in Children : acc.d.th[c].status = "absent"}
           c == CHOOSE x \in fresh : TRUE
<1>1. CASE Cardinality(Live(acc.d)) >= MaxLive \/ fresh = {}
  BY <1>1 DEF CreateAgent
<1>2. CASE ~(Cardinality(Live(acc.d)) >= MaxLive \/ fresh = {})
  <2>1. c \in fresh
    BY <1>2
  <2>2. CreateAgent(acc) = Woken(acc, Wake(acc.d, c), TRUE)
    BY <1>2 DEF CreateAgent, Woken, Wake, Start
  <2> HIDE DEF c
  <2>3. c \in Threads /\ c \notin {Primary} /\ acc.d.th[c].status = "absent"
    BY <2>1 DEF Children
  <2>4. ~Flow(log, c).unsettled
    BY <2>3 DEF OpsInv, Rows, Fits
  <2>5. /\ Rows(b, Wake(acc.d, c), log, {Primary}) /\ Waited(Wake(acc.d, c)) /\ ~Wake(acc.d, c).archived
        /\ \A x \in Threads \ {c} : Wake(acc.d, c).th[x] = acc.d.th[x]
        /\ Wake(acc.d, c).own = acc.d.own
        /\ \A x \in Children : Busy(acc.d, x) => Busy(Wake(acc.d, c), x)
        /\ Wake(acc.d, c).parked => acc.d.parked
    BY <2>3, <2>4, RowsWake DEF OpsInv
  <2>6. Follows(Wake(acc.d, c), acc.d, Primary)
    BY <2>3, <2>5, SessionAssumption DEF Follows
  <2> QED BY <2>2, <2>5, <2>6, OpsStep
<1> QED BY <1>1, <1>2

\* A message to another thread keeps it, and unparks a coordinator that is
\* told.
LEMMA ReportKeeps ==
    ASSUME NEW b, NEW t \in Threads, NEW acc, OpsInv(b, t, acc), NEW to \in Threads, to # t
    PROVE  OpsInv(b, t, Report(acc, to)) /\ (to = Primary => ~Report(acc, to).d.parked)
<1> DEFINE e == Deliver(acc.d, to)
           w == acc.woke \/ Wakeable(acc.d, to)
<1>1. Report(acc, to) = Woken(acc, e, w)
  BY DEF Report, Woken
<1>2. /\ Rows(b, e, log, {t}) /\ Waited(e) /\ ~e.archived
      /\ \A x \in Threads \ {to} : e.th[x] = acc.d.th[x]
      /\ e.own = acc.d.own
      /\ \A c \in Children : Busy(acc.d, c) => Busy(e, c)
      /\ e.parked => acc.d.parked /\ to # Primary
  BY RowsDeliver DEF OpsInv
<1>3. w \in BOOLEAN
  OBVIOUS
<1> HIDE DEF e, w
<1>4. Follows(e, acc.d, t)
  BY <1>2 DEF Follows
<1>5. Woken(acc, e, w).d = e
  BY <1>2, <1>3, WokenFields DEF OpsInv, Rows
<1> QED BY <1>1, <1>2, <1>3, <1>4, <1>5, OpsStep

\* wait_for_agents keeps it.
LEMMA WaitKeeps ==
    ASSUME NEW b, NEW acc, OpsInv(b, Primary, acc)
    PROVE  OpsInv(b, Primary, WaitForAgents(acc))
<1> DEFINE p == acc.park \/ (acc.d.unread[Primary] = {} /\ \E c \in Children : Busy(acc.d, c))
           a == [acc EXCEPT !.park = p]
<1>1. acc \in Run
  BY DEF OpsInv
<1>2. WaitForAgents(acc) = a
  BY DEF WaitForAgents
<1>3. p \in BOOLEAN /\ (p => \E c \in Children : Busy(acc.d, c))
  BY DEF OpsInv
<1> HIDE DEF p
<1>4. a \in Run
  BY <1>1, <1>3, Zenon DEF Run
<1>5. a.d = acc.d
  BY <1>1 DEF Run
<1>6. (a.park <=> p) /\ (a.ended <=> acc.ended)
  BY <1>1, <1>3, Zenon DEF Run
<1> HIDE DEF a
<1> QED BY <1>2, <1>3, <1>4, <1>5, <1>6 DEF OpsInv

\* submit_result keeps it.
LEMMA SubmitKeeps ==
    ASSUME NEW b, NEW t \in Threads, t # Primary, NEW acc, OpsInv(b, t, acc)
    PROVE  OpsInv(b, t, SubmitResult(acc))
<1>1. CASE ~acc.alone
  BY <1>1 DEF SubmitResult
<1>2. CASE acc.alone
  <2> DEFINE r == Report(acc, Primary)
             a == [r EXCEPT !.ended = TRUE]
  <2>1. SubmitResult(acc) = a
    BY <1>2 DEF SubmitResult
  <2>2. OpsInv(b, t, r) /\ ~r.d.parked
    BY ReportKeeps, SessionAssumption
  <2> HIDE DEF r
  <2>3. r \in Run
    BY <2>2 DEF OpsInv
  <2>4. a \in Run
    BY <2>3, Zenon DEF Run
  <2>5. a.d = r.d
    BY <2>3 DEF Run
  <2>6. a.park <=> r.park
    BY <2>3, Zenon DEF Run
  <2> HIDE DEF a
  <2> QED BY <2>1, <2>2, <2>4, <2>5, <2>6 DEF OpsInv
<1> QED BY <1>1, <1>2

\* So does every call, accepted or refused.
LEMMA RunOpKeeps ==
    ASSUME NEW b, NEW t \in Threads, NEW acc, OpsInv(b, t, acc), NEW o
    PROVE  OpsInv(b, t, RunOp(t, acc, o))
<1>1. \/ RunOp(t, acc, o) = acc
      \/ t = Primary /\ RunOp(t, acc, o) = CreateAgent(acc)
      \/ t = Primary /\ RunOp(t, acc, o) = SendToAgent(acc, o.to)
      \/ t = Primary /\ RunOp(t, acc, o) = WaitForAgents(acc)
      \/ t # Primary /\ RunOp(t, acc, o) = SubmitResult(acc)
      \/ t # Primary /\ RunOp(t, acc, o) = Report(acc, Primary)
  BY DEF RunOp, Offered
<1>2. CASE t = Primary /\ RunOp(t, acc, o) = SendToAgent(acc, o.to)
  <2>1. CASE o.to \in Children \cap Live(acc.d) /\ acc.d.th[o.to].stop # "retries_exhausted"
    <3>1. SendToAgent(acc, o.to) = Report(acc, o.to) /\ o.to \in Threads /\ o.to # t
      BY <1>2, <2>1 DEF SendToAgent, Children
    <3> QED BY <1>2, <3>1, ReportKeeps
  <2>2. CASE ~(o.to \in Children \cap Live(acc.d) /\ acc.d.th[o.to].stop # "retries_exhausted")
    BY <1>2, <2>2 DEF SendToAgent
  <2> QED BY <2>1, <2>2
<1>3. CASE t # Primary /\ RunOp(t, acc, o) = Report(acc, Primary)
  BY <1>3, ReportKeeps, SessionAssumption
<1> QED BY <1>1, <1>2, <1>3, CreateKeeps, WaitKeeps, SubmitKeeps

-----------------------------------------------------------------------------
\* f is the run of thread t's first N ops, from init.
Trace(f, init, t, ops, N) == f = [n \in 0..N |-> IF n = 0 THEN init ELSE RunOp(t, f[n - 1], ops[n])]

\* A run of calls has its intermediate results.
LEMMA OpsTrace ==
    ASSUME NEW init, NEW t, NEW ops, NEW N \in Nat
    PROVE  \E f : Trace(f, init, t, ops, N)
<1> USE DEF Trace
<1> DEFINE Has(k) == \E f : Trace(f, init, t, ops, k)
           T == {k \in Nat : ~Has(k)}
<1> SUFFICES ASSUME ~Has(N) PROVE FALSE
  OBVIOUS
<1>1. N \in T /\ T \in SUBSET Nat
  OBVIOUS
<1> HIDE DEF T
<1>2. PICK k \in T : \A j \in T : k <= j
  BY <1>1, LeastIndex
<1>3. k \in Nat /\ ~Has(k) /\ \A j \in Nat : j < k => Has(j)
  BY <1>1, <1>2 DEF T
<1>4. CASE k = 0
  <2> DEFINE f == [n \in 0..0 |-> init]
  <2>1. f = [n \in 0..k |-> IF n = 0 THEN init ELSE RunOp(t, f[n - 1], ops[n])]
    BY <1>4
  <2> QED BY <1>3, <2>1
<1>5. CASE k # 0
  <2>0. k - 1 \in Nat /\ k - 1 < k
    BY <1>3, <1>5
  <2>1. Has(k - 1)
    BY <1>3, <2>0
  <2>2. PICK g : g = [n \in 0..(k - 1) |-> IF n = 0 THEN init ELSE RunOp(t, g[n - 1], ops[n])]
    BY <2>1
  <2> DEFINE f == [n \in 0..k |-> IF n = k THEN RunOp(t, g[k - 1], ops[k]) ELSE g[n]]
             h == [n \in 0..k |-> IF n = 0 THEN init ELSE RunOp(t, f[n - 1], ops[n])]
  <2>3. ASSUME NEW n \in 0..k PROVE f[n] = h[n]
    <3>1. CASE n = k
      <4>1. f[k - 1] = g[k - 1]
        BY <1>3, <2>0
      <4> QED BY <1>5, <3>1, <4>1
    <3>2. CASE n # k /\ n = 0
      <4>1. g[0] = init
        BY <2>0, <2>2
      <4> QED BY <3>2, <4>1
    <3>3. CASE n # k /\ n # 0
      <4>1. n \in 0..(k - 1) /\ n - 1 \in 0..k /\ n - 1 # k
        BY <1>3, <3>3
      <4>2. g[n] = RunOp(t, g[n - 1], ops[n])
        BY <2>2, <3>3, <4>1
      <4> QED BY <3>3, <4>1, <4>2
    <3> QED BY <3>1, <3>2, <3>3
  <2>4. f = h
    BY <2>3
  <2> QED BY <1>3, <2>4
<1> QED BY <1>4, <1>5

\* Each of them has the invariant, the last one too.
LEMMA OpsKept ==
    ASSUME NEW b, NEW t \in Threads, NEW ops, NEW N \in Nat, NEW init, OpsInv(b, t, init), NEW f,
           Trace(f, init, t, ops, N)
    PROVE  OpsInv(b, t, f[N])
<1> USE DEF Trace
<1> DEFINE T == {k \in 0..N : ~OpsInv(b, t, f[k])}
<1> SUFFICES ASSUME ~OpsInv(b, t, f[N]) PROVE FALSE
  OBVIOUS
<1>1. N \in T /\ T \in SUBSET Nat
  OBVIOUS
<1> HIDE DEF T
<1>2. PICK k \in T : \A j \in T : k <= j
  BY <1>1, LeastIndex
<1>3. k \in 0..N /\ ~OpsInv(b, t, f[k]) /\ \A j \in 0..N : j < k => OpsInv(b, t, f[j])
  BY <1>1, <1>2 DEF T
<1>4. f[0] = init
  OBVIOUS
<1>5. k # 0
  BY <1>3, <1>4
<1>6. k - 1 \in 0..N /\ k - 1 < k
  BY <1>3, <1>5
<1>7. f[k] = RunOp(t, f[k - 1], ops[k])
  BY <1>3, <1>5
<1>8. OpsInv(b, t, f[k - 1])
  BY <1>3, <1>6
<1> QED BY <1>3, <1>7, <1>8, RunOpKeeps

\* The run of a turn's delegation calls keeps the invariant.
LEMMA RunOpsKeeps ==
    ASSUME NEW b, NEW t \in Threads, NEW alone \in BOOLEAN, NEW ops, Len(ops) \in Nat,
           Rows(b, b, log, {t}), Waited(b), ~b.archived
    PROVE  OpsInv(b, t, RunOps(b, t, alone, ops))
<1> DEFINE init == [d |-> b, woke |-> FALSE, park |-> FALSE, ended |-> FALSE, alone |-> alone]
           N == Len(ops)
           ran == CHOOSE f : Trace(f, init, t, ops, N)
<1>1. RunOps(b, t, alone, ops) = ran[N]
  BY DEF RunOps, Trace
<1>2. OpsInv(b, t, init)
  <2>1. b \in Db
    BY DEF Rows
  <2>2. init \in Run /\ init.d = b /\ ~init.park /\ ~init.ended
    BY <2>1 DEF Run
  <2> HIDE DEF init
  <2> QED BY <2>2 DEF OpsInv
<1> HIDE DEF init, N
<1>3. N \in Nat
  BY DEF N
<1>4. \E f : Trace(f, init, t, ops, N)
  BY <1>3, OpsTrace
<1>5. Trace(ran, init, t, ops, N)
  BY <1>4, Zenon
<1> HIDE DEF ran
<1> QED BY <1>1, <1>2, <1>3, <1>5, OpsKept

-----------------------------------------------------------------------------
\* Parking a coordinator changes no thread's rows.
LEMMA RowsPark ==
    ASSUME NEW b, NEW d, NEW l, NEW X, Rows(b, d, l, X), NEW p \in BOOLEAN
    PROVE  LET e == [d EXCEPT !.parked = p] IN
           /\ Rows(b, e, l, X) /\ e.th = d.th /\ e.archived = d.archived /\ (e.parked <=> p)
<1> DEFINE e == [d EXCEPT !.parked = p]
<1>0. d \in Db
  BY DEF Rows
<1>1. e \in Db
  BY <1>0, Zenon DEF Db
<1>2. e.th = d.th /\ e.sess = d.sess /\ e.item = d.item /\ e.own = d.own /\ e.archived = d.archived
  BY <1>0 DEF Db
<1>3. e.parked <=> p
  BY <1>0, Zenon DEF Db
<1> HIDE DEF e
<1>4. Asleep(d) => Asleep(e)
  BY <1>2 DEF Asleep, Live
<1>5. \A x : Held(b, d, x) => Held(b, e, x)
  BY <1>2 DEF Held
<1>6. Rows(b, e, l, X)
  BY <1>1, <1>2, <1>4, <1>5, Zenon DEF Rows
<1> QED BY <1>2, <1>3, <1>6 DEF e

\* commitDelegatedTurn.
LEMMA RowsDelegated ==
    ASSUME NEW b, NEW l \in Logs, NEW t \in Threads, NEW alone \in BOOLEAN, NEW ops, Len(ops) \in Nat,
           Rows(b, b, log, {}), Waited(b), ~b.archived, b.th[t].status = "running",
           \A x \in Threads \ {t} : Flow(l, x) = Flow(log, x),
           alone => l = log /\ Unsettled(log, t) = {},
           ~alone => Running(Flow(l, t)) \/ Flow(l, t).pending # {}
    PROVE  Rows(b, Delegated(b, l, t, alone, ops), l, {}) /\ Waited(Delegated(b, l, t, alone, ops))
<1> DEFINE acc == RunOps(b, t, alone, ops)
           d1 == Charged(acc.d, t, ops)
           rests == alone /\ (acc.park \/ acc.ended)
           capped == alone /\ ~rests /\ ~acc.woke /\ Capped(b.chain[t])
           input == d1.unread[t] # {}
           dd == Delegated(b, l, t, alone, ops)
<1>0. b \in Db /\ b.chain[t] \in Nat
  BY DEF Rows, Db
<1>1. OpsInv(b, t, acc)
  <2>1. Rows(b, b, log, {t})
    BY RowsWeaken
  <2> QED BY <2>1, RunOpsKeeps
<1>2. \/ ~alone /\ dd = SettleTools(Complete(d1, t), l, t)
      \/ alone /\ \E n \in Nat : dd = RequeueTurn(d1, t, n)
      \/ /\ alone /\ (rests \/ capped)
         /\ dd = [Move(Complete(IF capped THEN Ended(d1, t) ELSE d1, t), t, EndTurn)
                    EXCEPT !.parked = (t = Primary /\ acc.park) \/ (t # Primary /\ @)]
  <2>1. b.chain[t] + 1 \in Nat /\ 0 \in Nat
    BY <1>0
  <2> QED BY <2>1 DEF Delegated
<1> HIDE DEF acc
<1>3. acc.d \in Db /\ acc \in Run
  BY <1>1 DEF OpsInv, Rows
<1>4. SameRows(d1, acc.d)
  BY <1>3, ChargedFields
<1> HIDE DEF d1
<1>5. /\ Rows(b, d1, log, {t}) /\ Waited(d1) /\ ~d1.archived /\ d1 \in Db
      /\ d1.th[t] = b.th[t]
      /\ \A c : Busy(acc.d, c) => Busy(d1, c)
      /\ acc.ended => t # Primary /\ ~d1.parked
  BY <1>1, <1>4, RowsSame, SameKept, KeptWaited DEF OpsInv, SameRows, Busy
<1>6. CASE ~alone /\ dd = SettleTools(Complete(d1, t), l, t)
  <2> DEFINE e == Complete(d1, t)
  <2>1. /\ Rows(b, e, log, {t}) /\ Kept(e, d1) /\ e.own[t] = Null /\ e.item[t] = "none"
    BY <1>5, RowsComplete DEF Slots
  <2> HIDE DEF e
  <2>2. Rows(b, e, l, {t})
    BY <2>1, RowsLog
  <2>3. Waited(e) /\ ~e.archived /\ e.th[t].status = "running"
    BY <1>5, <2>1, KeptWaited DEF Kept
  <2>4. dd = Settlement(e, l, t)
    BY <1>6, <2>3, SettleToolsIs DEF e
  <2>5. Rows(b, Settlement(e, l, t), l, {}) /\ Waited(Settlement(e, l, t))
    BY <1>6, <2>1, <2>2, <2>3, RowsSettle
  <2> QED BY <2>4, <2>5
<1>7. CASE alone /\ \E n \in Nat : dd = RequeueTurn(d1, t, n)
  <2>1. PICK n \in Nat : dd = RequeueTurn(d1, t, n)
    BY <1>7
  <2> DEFINE e == RequeueTurn(d1, t, n)
  <2>2. /\ Rows(b, e, log, {t}) /\ Kept(e, d1) /\ e.own[t] = Null /\ e.item[t] # "none"
    BY <1>5, RowsRequeue
  <2> HIDE DEF e
  <2>3. ~Flow(log, t).unsettled /\ l = log
    BY <1>7, FlowOfQuiet
  <2>4. Fits(e.th[t], e.item[t], Flow(log, t)) /\ Held(b, e, t)
    BY <1>5, <2>2, <2>3 DEF Fits, Held, Kept
  <2>5. Rows(b, e, log, {})
    BY <2>2, <2>4, RowsClose
  <2>6. Waited(e)
    BY <1>5, <2>2, KeptWaited
  <2> QED BY <2>1, <2>3, <2>5, <2>6 DEF e
<1>8. CASE /\ alone /\ (rests \/ capped)
           /\ dd = [Move(Complete(IF capped THEN Ended(d1, t) ELSE d1, t), t, EndTurn)
                      EXCEPT !.parked = (t = Primary /\ acc.park) \/ (t # Primary /\ @)]
  <2> DEFINE told == IF capped THEN Ended(d1, t) ELSE d1
             d2 == Complete(told, t)
             d3 == Move(d2, t, EndTurn)
             p == (t = Primary /\ acc.park) \/ (t # Primary /\ d3.parked)
             e == [d3 EXCEPT !.parked = p]
  <2>1. dd = e
    BY <1>8
  <2>2. /\ Rows(b, told, log, {t}) /\ Waited(told) /\ ~told.archived
        /\ t # Primary /\ told.parked => \E o \in Children \ {t} : Busy(told, o)
    <3>1. CASE capped
      <4>1. {t} \subseteq {t}
        OBVIOUS
      <4> QED BY <1>5, <3>1, <4>1, RowsEnded
    <3>2. CASE ~capped
      <4>1. told = d1 /\ (acc.park \/ acc.ended)
        BY <1>8, <3>2
      <4>2. acc.park => t = Primary
        BY <1>1 DEF OpsInv
      <4> QED BY <1>5, <4>1, <4>2
    <3> QED BY <3>1, <3>2
  <2>3. acc.park => t = Primary /\ told = d1 /\ \E c \in Children : Busy(told, c)
    BY <1>1, <1>5, <1>8 DEF OpsInv
  <2> HIDE DEF told, rests, capped
  <2>4. /\ Rows(b, d2, log, {t}) /\ Kept(d2, told) /\ d2.own[t] = Null /\ d2.item[t] = "none"
    BY <2>2, RowsComplete DEF Slots
  <2> HIDE DEF d2
  <2>5. /\ d2 \in Db /\ ~d2.archived /\ Waited(d2) /\ d2.th \in [Threads -> St]
        /\ t # Primary /\ d2.parked => \E o \in Children \ {t} : Busy(d2, o)
        /\ acc.park => t = Primary /\ \E c \in Children : Busy(d2, c)
    <3>1. d2 \in Db /\ Waited(d2) /\ d2.th \in [Threads -> St]
      BY <2>2, <2>4, KeptWaited DEF Rows, Db
    <3>2. \A o \in Children : Busy(told, o) => Busy(d2, o)
      BY <2>4 DEF Kept, Busy
    <3>3. ~d2.archived /\ (d2.parked => told.parked)
      BY <2>2, <2>4 DEF Kept
    <3> QED BY <2>2, <2>3, <3>1, <3>2, <3>3
  <2>6. EndTurn \in St /\ EndTurn \in RestStates
    BY RestIsStatus DEF RestStates
  <2>7. Rows(b, d3, log, {t}) /\ Waited(d3)
    BY <2>4, <2>5, <2>6, RowsMove, RestWaited
  <2>8. d3.th = [d2.th EXCEPT ![t] = EndTurn] /\ d3.item = d2.item /\ d3.own = d2.own /\ d3.archived = d2.archived
    BY <2>5, <2>6, MoveFields
  <2> HIDE DEF d3
  <2>9. d3.th[t] = EndTurn /\ (acc.park => t = Primary /\ \E c \in Children : Busy(d3, c))
    BY <2>5, <2>8 DEF Busy, Children
  <2>10. Fits(d3.th[t], d3.item[t], Flow(log, t)) /\ Held(b, d3, t)
    <3>1. ~Flow(log, t).unsettled
      BY <1>8, FlowOfQuiet
    <3>2. Fits(EndTurn, "none", Flow(log, t))
      BY <2>6, <3>1, RestFits
    <3> QED BY <2>4, <2>8, <2>9, <3>2 DEF Held
  <2>11. Rows(b, d3, log, {})
    BY <2>7, <2>10, RowsClose
  <2>12. p \in BOOLEAN
    OBVIOUS
  <2>13. p => \/ t = Primary /\ d3.th[Primary] = EndTurn /\ \E c \in Children : Busy(d3, c)
              \/ d3.parked
    BY <2>9
  <2> HIDE DEF p
  <2>14. Rows(b, e, log, {}) /\ e.th = d3.th /\ e.archived = d3.archived /\ (e.parked <=> p)
    BY <2>11, <2>12, RowsPark
  <2> HIDE DEF e
  <2>15. Waited(e)
    BY <2>7, <2>13, <2>14 DEF Waited, Busy
  <2> QED BY <1>8, <2>1, <2>14, <2>15
<1> QED BY <1>2, <1>6, <1>7, <1>8

-----------------------------------------------------------------------------
(* The queue. *)

\* A lapsed lease leaves sound rows.
LEMMA LapseSound == ASSUME ThreadInv, NEW s \in Slots, Lapse(s) PROVE Sound(log', db')
<1>1. db' = [db EXCEPT !.own[s] = Null] /\ log' = log
  BY DEF Lapse
<1>2. Rows(db, [db EXCEPT !.own[s] = Null], log, {}) /\ Kept([db EXCEPT !.own[s] = Null], db)
  BY RowsUnown DEF ThreadInv
<1> QED BY <1>1, <1>2, KeptSound

\* So does a worker that gives its item back.
LEMMA AbortSound == ASSUME ThreadInv, NEW w \in Workers, Abort(w) PROVE Sound(log', db')
<1>1. log' = log
  BY DEF Abort
<1>2. CASE ~Holds(w)
  BY <1>1, <1>2, StandSound DEF Abort
<1>3. CASE Holds(w)
  <2>1. PICK s : s = job[w].slot
    OBVIOUS
  <2>2. db' = [db EXCEPT !.own[s] = Null]
    BY <1>3, <2>1 DEF Abort
  <2>3. s \in Slots
    BY <1>3, <2>1 DEF ThreadInv, SessionInv, Job, Holds
  <2>4. Rows(db, [db EXCEPT !.own[s] = Null], log, {}) /\ Kept([db EXCEPT !.own[s] = Null], db)
    BY <2>3, RowsUnown DEF ThreadInv
  <2> QED BY <1>1, <2>2, <2>4, KeptSound
<1> QED BY <1>2, <1>3

\* The rows after a claim.
Claimed(d, s, w) == [d EXCEPT !.item[s] = "active", !.own[s] = w]

\* A claim makes the slot's item active and the worker its owner, and nothing
\* else.
LEMMA ClaimFields ==
    ASSUME NEW d \in Db, NEW s \in Slots, NEW w \in Workers
    PROVE  LET e == Claimed(d, s, w) IN
           /\ e \in Db /\ e.th = d.th /\ e.sess = d.sess
           /\ e.item = [d.item EXCEPT ![s] = "active"] /\ e.own = [d.own EXCEPT ![s] = w]
           /\ e.archived = d.archived /\ e.parked = d.parked /\ e.env = d.env
<1> DEFINE item == [d.item EXCEPT ![s] = "active"]
           own == [d.own EXCEPT ![s] = w]
           e == [d EXCEPT !.item = item, !.own = own]
<1>1. item \in [Slots -> {"none", "queued", "active"}] /\ own \in [Slots -> Workers \cup {Null}]
  BY DEF Db
<1>2. e = Claimed(d, s, w)
  BY DEF Db, Claimed
<1> HIDE DEF item, own
<1>3. e \in Db
  BY <1>1, Zenon DEF Db
<1>4. /\ e.th = d.th /\ e.sess = d.sess /\ e.item = item /\ e.own = own
      /\ e.archived = d.archived /\ e.parked = d.parked /\ e.env = d.env
  BY DEF Db
<1> HIDE DEF e
<1> QED BY <1>2, <1>3, <1>4 DEF item, own

\* A claim keeps the invariant.
LEMMA ClaimKeeps ==
    ASSUME ThreadInv, SessionInv', NEW w \in Workers, NEW s \in Slots, Claim(w, s) PROVE ThreadInv'
<1>1. /\ job[w] = Off /\ db.item[s] # "none" /\ db.own[s] = Null /\ log' = log
      /\ db' = Claimed(db, s, w)
      /\ job' = [job EXCEPT ![w] = [Off EXCEPT !.slot = s, !.phase = "claimed"]]
      /\ Serves(w, s)
  BY DEF Claim, Claimed
<1>2. db \in Db /\ w # Null /\ w \in Workers
  BY SessionAssumption DEF ThreadInv, Rows
<1>3. PICK e \in Db : /\ e = db' /\ e.th = db.th /\ e.sess = db.sess
                      /\ e.item = [db.item EXCEPT ![s] = "active"] /\ e.own = [db.own EXCEPT ![s] = w]
                      /\ e.archived = db.archived /\ e.parked = db.parked /\ e.env = db.env
  BY <1>1, <1>2, ClaimFields
<1>4. db.item \in [Slots -> {"none", "queued", "active"}] /\ db.own \in [Slots -> Workers \cup {Null}]
  BY <1>2 DEF Db
<1>5. /\ e.item[s] = "active" /\ e.own[s] = w
      /\ \A x \in Slots \ {s} : e.item[x] = db.item[x] /\ e.own[x] = db.own[x]
  BY <1>3, <1>4
<1>6. Rows(e, e, log, {})
  <2>1. ASSUME NEW t \in Threads PROVE Fits(e.th[t], e.item[t], Flow(log, t)) /\ Held(e, e, t)
    <3>1. Fits(db.th[t], db.item[t], Flow(log, t)) /\ t \in Slots
      BY DEF ThreadInv, Rows, Slots
    <3>2. e.item[t] # "none" <=> db.item[t] # "none"
      BY <1>1, <1>5, <3>1
    <3> QED BY <1>3, <3>1, <3>2 DEF Fits, Held
  <2>2. \A x \in Slots : e.own[x] # Null => e.item[x] # "none"
    BY <1>5 DEF ThreadInv, Rows
  <2>3. e.archived => Asleep(e)
    BY <1>3 DEF ThreadInv, Rows, Asleep, Live
  <2>4. e.sess = Fold(e.th)
    BY <1>3 DEF ThreadInv, Rows
  <2> QED BY <2>1, <2>2, <2>3, <2>4 DEF Rows
<1>7. Waited(e)
  BY <1>3, KeptWaited DEF ThreadInv, Kept
<1>8. /\ job'[w].slot = s /\ job'[w].phase = "claimed" /\ job'[w].plan = {}
      /\ \A v \in Workers \ {w} : job'[v] = job[v]
  BY <1>1 DEF ThreadInv, SessionInv, Off
<1>9. \A v \in Workers : PlanFits(v)'
  <2>1. PlanFits(w)'
    BY <1>8 DEF PlanFits
  <2>2. \A v \in Workers \ {w} : PlanFits(v)'
    BY <1>1, <1>8 DEF ThreadInv, PlanFits
  <2> QED BY <2>1, <2>2
<1>10. ASSUME NEW b \in Brains PROVE AtWork(b)'
  <2>1. CASE b = w
    BY <1>8, <2>1 DEF AtWork
  <2>2. CASE b # w
    <3>1. job'[b] = job[b]
      BY <1>8, <2>2 DEF Workers
    <3>2. PICK t : t = job[b].slot
      OBVIOUS
    <3>3. Holds(b)' => t \in Slots /\ e.own[t] = b
      BY <1>3, <3>1, <3>2 DEF Holds, ThreadInv, SessionInv, Slots
    <3>4. Holds(b)' => Holds(b)
      BY <1>5, <2>2, <3>2, <3>3, <3>1 DEF Holds
    <3>5. AtWork(b)
      BY DEF ThreadInv
    <3> QED BY <1>3, <3>1, <3>4, <3>5 DEF AtWork
  <2> QED BY <2>1, <2>2
<1>11. \A v \in Drivers : job'[v].slot \notin Threads
  <2>1. w \in Drivers => s \notin Threads
    BY <1>1, OtherSlots, SessionAssumption DEF Serves, DriverSlots, Execs
  <2> QED BY <1>8, <2>1 DEF ThreadInv, Workers
<1>12. Rows(db', db', log', {}) /\ Waited(db') /\ Ordered(log')
  BY <1>1, <1>3, <1>6, <1>7 DEF ThreadInv
<1> QED BY <1>9, <1>10, <1>11, <1>12 DEF ThreadInv

-----------------------------------------------------------------------------
(* A brain. *)

\* A brain may go on to its next phase while its thread runs.
LEMMA PhaseKeeps ==
    ASSUME ThreadInv, SessionInv', Sound(log', db'), NEW b \in Brains, NEW p, job' = [job EXCEPT ![b].phase = p],
           db'.own = db.own, db'.th = db.th, Holds(b) /\ ~db'.archived => db.th[job[b].slot].status = "running"
    PROVE  ThreadInv'
<1>0. b \in Workers /\ b \notin Drivers
  BY SessionAssumption DEF Workers
<1>1. /\ job'[b].slot = job[b].slot /\ job'[b].plan = job[b].plan
      /\ \A v \in Workers \ {b} : job'[v] = job[v]
  BY <1>0, PhaseFields
<1>2. AtWork(b)'
  BY <1>1 DEF AtWork, Holds
<1>3. PlanFits(b)'
  BY <1>0, <1>1, PlanKeeps
<1> QED BY <1>0, <1>1, <1>2, <1>3, WorkerKeeps

\* Admitting a turn keeps the invariant: the thread runs or the turn is over.
LEMMA AdmitKeeps == ASSUME ThreadInv, SessionInv', NEW b \in Brains, AdmitTurn(b) PROVE ThreadInv'
<1>0. b \in Workers
  BY DEF Workers
<1>1. PICK t : t = job[b].slot
  OBVIOUS
<1> DEFINE stale == db.archived \/ db.th[t].status # "running"
<1>2. /\ Holds(b) /\ log' = (IF stale THEN log ELSE Advance(log, {t}))
      /\ stale => db' = Complete(db, t) /\ Done(b)
      /\ ~stale /\ Unsettled(log', t) = {} => db' = db /\ job' = [job EXCEPT ![b].phase = "admitted"]
  BY <1>1 DEF AdmitTurn
<1>3. t \in Threads /\ Unsettled(log, t) = {}
  BY <1>1, <1>2, HeldQuiet
<1>4. CASE stale
  <2>1. t \in Slots /\ db.th[t].status # "running"
    BY <1>3, <1>4 DEF Slots, ThreadInv, Rows, Asleep
  <2>2. Rows(db, Complete(db, t), log, {}) /\ Kept(Complete(db, t), db)
    BY <2>1, RowsComplete DEF ThreadInv
  <2>3. Sound(log', db')
    BY <1>2, <1>4, <2>2, KeptSound
  <2> QED BY <1>0, <1>2, <1>4, <2>3, DoneKeeps
<1>5. CASE ~stale
  <2>1. PICK m : m = Advance(log, {t})
    OBVIOUS
  <2>2. log \in Logs /\ NearlyOrdered(log, {t})
    BY DEF ThreadInv, SessionInv, NearlyOrdered, Ordered
  <2>3. \A x \in Threads : Unsettled(m, x) = Unsettled(log, x) /\ Flow(m, x) = Flow(log, x)
    BY <1>3, <2>1, <2>2, AdvanceOthers
  <2>4. Rows(db, db, m, {})
    BY <2>3, RowsLog DEF ThreadInv
  <2>5. log' = m /\ db' = db /\ job' = [job EXCEPT ![b].phase = "admitted"]
    BY <1>2, <1>3, <1>5, <2>1, <2>3
  <2>6. Ordered(m) /\ Onward(m, log)
    BY <2>1, <2>2, AdvanceOrders, OnwardAdvance
  <2>7. Sound(log', db')
    BY <2>4, <2>5, <2>6 DEF Sound, ThreadInv
  <2> QED BY <1>1, <1>5, <2>5, <2>7, PhaseKeeps
<1> QED BY <1>4, <1>5

\* So does the look at the budget before a request.
LEMMA ClearKeeps == ASSUME ThreadInv, SessionInv', NEW b \in Brains, ClearTurn(b) PROVE ThreadInv'
<1>1. Phase(b, "admitted") /\ job' = [job EXCEPT ![b].phase = "cleared"] /\ log' = log /\ db' = db
  BY DEF ClearTurn
<1>2. Sound(log', db')
  BY <1>1, StandSound
<1>3. Holds(b) /\ ~db.archived => db.th[job[b].slot].status = "running"
  BY <1>1 DEF Phase, ThreadInv, AtWork
<1> QED BY <1>1, <1>2, <1>3, PhaseKeeps

\* So does reading the input and starting the request.
LEMMA StartKeeps == ASSUME ThreadInv, SessionInv', NEW b \in Brains, StartRequest(b) PROVE ThreadInv'
<1>1. PICK t : t = job[b].slot
  OBVIOUS
<1>2. /\ Phase(b, "cleared") /\ Holds(b) /\ ~db.archived /\ db' = [db EXCEPT !.unread[t] = {}]
      /\ job' = [job EXCEPT ![b].phase = "asking"] /\ log' = log
  BY <1>1 DEF StartRequest, Commits
<1>3. t \in Threads
  BY <1>1, <1>2, HeldQuiet
<1>4. SameRows([db EXCEPT !.unread[t] = {}], db)
  <2>1. {} \in SUBSET {"user", "result", "peer"} /\ db \in Db
    BY DEF ThreadInv, Rows
  <2> QED BY <1>3, <2>1, UnreadFields
<1>5. SameRows(db', db)
  BY <1>2, <1>4
<1>6. Rows(db, db', log, {}) /\ Kept(db', db) /\ db'.own = db.own /\ db'.th = db.th
  BY <1>5, RowsSame, SameKept DEF ThreadInv, SameRows
<1>7. Sound(log', db')
  BY <1>2, <1>6, KeptSound
<1>8. db.th[job[b].slot].status = "running"
  BY <1>2 DEF Phase, ThreadInv, AtWork
<1> QED BY <1>2, <1>6, <1>7, <1>8, PhaseKeeps

\* The endings of a turn.
LEMMA EndSound ==
    ASSUME ThreadInv, ~db.archived, NEW t \in Threads, Unsettled(log, t) = {}, NEW d, SameRows(d, db),
           NEW s \in RestStates, log' = log, db' = EndThread(d, t, s)
    PROVE  Sound(log', db')
<1>1. Rows(db, d, log, {}) /\ Waited(d) /\ ~d.archived
  BY RowsSame, SameKept, KeptWaited DEF ThreadInv, SameRows
<1>2. Rows(db, EndThread(d, t, s), log, {}) /\ Waited(EndThread(d, t, s))
  BY <1>1, RowsEndThread
<1> QED BY <1>2, OnwardSelf DEF Sound, ThreadInv

\* Requeueing a turn without an open call leaves sound rows.
LEMMA RequeueSound ==
    ASSUME ThreadInv, NEW t \in Threads, ~Flow(log, t).unsettled, log' = log, db' = RequeueTurn(db, t, 0)
    PROVE  Sound(log', db')
<1>1. 0 \in Nat
  OBVIOUS
<1>2. Rows(db, RequeueTurn(db, t, 0), log, {}) /\ Kept(RequeueTurn(db, t, 0), db)
  BY <1>1, RowsRequeue DEF ThreadInv
<1> QED BY <1>2, KeptSound

\* The present rows are equal to themselves.
LEMMA SelfRows == ASSUME ThreadInv PROVE SameRows(db, db)
BY DEF ThreadInv, Rows, SameRows

\* Every way a turn ends without a reply leaves sound rows, and lets the item
\* go.
LEMMA EndingsSound ==
    ASSUME ThreadInv, NEW b \in Brains,
           RefuseTurn(b) \/ FinishTurn(b) \/ FailTurn(b) \/ FailUnrouted(b) \/ ReleaseTurn(b)
    PROVE  Sound(log', db') /\ Done(b)
<1>1. PICK t : t = job[b].slot
  OBVIOUS
<1> DEFINE u == [db EXCEPT !.unread[t] = @ \cap {"result"}]
<1>2. /\ Holds(b) /\ ~db.archived /\ log' = log /\ Done(b)
      /\ \/ \E s \in RestStates : db' = EndThread(db, t, s)
         \/ \E s \in RestStates : db' = EndThread(u, t, s)
         \/ db' = RequeueTurn(db, t, 0)
  BY <1>1 DEF RefuseTurn, FinishTurn, FailTurn, FailUnrouted, ReleaseTurn, SettleTurn, Commits, RestStates
<1>3. t \in Threads /\ Unsettled(log, t) = {} /\ ~Flow(log, t).unsettled
  BY <1>1, <1>2, HeldQuiet
<1>4. SameRows(u, db)
  <2> DEFINE new == db.unread[t] \cap {"result"}
  <2>1. new \in SUBSET {"user", "result", "peer"} /\ db \in Db
    BY DEF ThreadInv, Rows
  <2>2. u = [db EXCEPT !.unread[t] = new]
    OBVIOUS
  <2> HIDE DEF new
  <2> QED BY <1>3, <2>1, <2>2, UnreadFields
<1> HIDE DEF u
<1> QED BY <1>2, <1>3, <1>4, SelfRows, EndSound, RequeueSound

\* commitTurn.
LEMMA AppendCalls ==
    ASSUME NEW l \in Logs, NEW m \in Logs, NEW t, Ordered(l),
           \A i \in DOMAIN l : i \in DOMAIN m /\ m[i] = l[i],
           \A i \in DOMAIN m : i \notin DOMAIN l => m[i].thread = t /\ m[i].result # "done"
    PROVE  /\ NearlyOrdered(m, {t}) /\ Onward(m, l)
           /\ \A x \in Threads \ {t} : Flow(m, x) = Flow(l, x)
<1>1. DOMAIN l = 1..Len(l) /\ Len(l) \in Nat /\ DOMAIN m = 1..Len(m) /\ Len(m) \in Nat
  OBVIOUS
<1>4. NearlyOrdered(m, {t})
  <2> SUFFICES ASSUME NEW i \in DOMAIN m, NEW j \in DOMAIN m, i < j, m[i].thread = m[j].thread, m[j].result = "done"
               PROVE  m[i].result = "done"
    BY DEF NearlyOrdered
  <2>1. j \in DOMAIN l
    OBVIOUS
  <2>2. i \in DOMAIN l
    BY <1>1, <2>1
  <2> QED BY <2>1, <2>2 DEF Ordered
<1>5. Onward(m, l)
  BY DEF Onward, Continues
<1>6. ASSUME NEW x \in Threads \ {t} PROVE Flow(m, x) = Flow(l, x)
  <2>1. CallsOf(m, x) = CallsOf(l, x) /\ \A i \in CallsOf(l, x) : m[i] = l[i]
    BY DEF CallsOf
  <2> QED BY <2>1, SameCalls
<1> QED BY <1>4, <1>5, <1>6

\* The calls of a reply, and the log after the turn's commit.
Made(r, t) == [n \in DOMAIN r.uses |-> NewCall(t, InEnv(r.uses[n]))]
Grown(l, r, t) == IF Made(r, t) = <<>> THEN l ELSE Advance(l \o Made(r, t), {t})

\* What a concatenation holds at each index.
LEMMA ConcatIndex ==
    ASSUME NEW S, NEW l \in Seq(S), NEW c \in Seq(S)
    PROVE  /\ \A i \in DOMAIN l : i \in DOMAIN (l \o c) /\ (l \o c)[i] = l[i]
           /\ \A i \in DOMAIN (l \o c) : i \notin DOMAIN l =>
                  i - Len(l) \in DOMAIN c /\ (l \o c)[i] = c[i - Len(l)]
OBVIOUS

\* A reply's calls, walked, leave an ordered log that follows the old one, the
\* other threads' flow, and a thread that runs or waits.
LEMMA CommitLog ==
    ASSUME NEW l \in Logs, NEW r \in Replies, NEW t \in Threads, Ordered(l), Unsettled(l, t) = {}
    PROVE  LET m == Grown(l, r, t) IN
           /\ m \in Logs /\ Ordered(m) /\ Onward(m, l)
           /\ \A x \in Threads \ {t} : Flow(m, x) = Flow(l, x)
           /\ Running(Flow(m, t)) \/ Flow(m, t).pending # {}
           /\ r.uses = <<>> => m = l
<1> DEFINE calls == Made(r, t)
           m == Grown(l, r, t)
<1>1. calls \in Logs /\ l \o calls \in Logs
  BY NewCallsSound DEF Made
<1>2. \A n \in DOMAIN calls : calls[n].thread = t /\ calls[n].result # "done"
  BY DEF Made, NewCall
<1>3. r.uses = <<>> => calls = <<>>
  BY DEF Made
<1>0. m = IF calls = <<>> THEN l ELSE Advance(l \o calls, {t})
  BY DEF Grown
<1> HIDE DEF calls, m
<1>4. CASE calls = <<>>
  <2>1. m = l
    BY <1>0, <1>4
  <2>2. Running(Flow(l, t))
    BY Zenon DEF Flow, Running
  <2> QED BY <2>1, <2>2, OnwardSelf DEF m
<1>5. CASE calls # <<>>
  <2>1. PICK k \in Logs : k = l \o calls
    BY <1>1
  <2>2. NearlyOrdered(k, {t}) /\ Onward(k, l) /\ \A x \in Threads \ {t} : Flow(k, x) = Flow(l, x)
    <3>1. PICK cs \in Logs : cs = calls
      BY <1>1
    <3>2. \A n \in DOMAIN cs : cs[n].thread = t /\ cs[n].result # "done"
      BY <1>2, <3>1
    <3>3. k = l \o cs
      BY <2>1, <3>1
    <3>4. \A i \in DOMAIN l : i \in DOMAIN k /\ k[i] = l[i]
      BY <3>3, ConcatIndex
    <3>5. ASSUME NEW i \in DOMAIN k, i \notin DOMAIN l PROVE k[i].thread = t /\ k[i].result # "done"
      <4>1. i - Len(l) \in DOMAIN cs /\ k[i] = cs[i - Len(l)]
        BY <3>3, <3>5, ConcatIndex
      <4> QED BY <3>2, <4>1
    <3> QED BY <3>4, <3>5, AppendCalls
  <2>3. m = Advance(k, {t})
    BY <1>0, <1>5, <2>1
  <2>4. m \in Logs /\ Ordered(m) /\ Onward(m, k)
    <3>1. m \in Logs
      BY <2>2, <2>3, AdvanceSound
    <3>2. Ordered(m)
      BY <2>2, <2>3, AdvanceOrders
    <3>3. Onward(m, k)
      BY <2>2, <2>3, OnwardAdvance
    <3> QED BY <3>1, <3>2, <3>3
  <2>5. \A x \in Threads \ {t} : Flow(m, x) = Flow(l, x)
    BY <2>2, <2>3, AdvanceOthers
  <2>6. Running(Flow(m, t)) \/ Flow(m, t).pending # {}
    BY <2>2, <2>3, StopsOnAWait
  <2>7. Onward(m, l)
    BY <2>2, <2>4, OnwardTransitive
  <2> QED BY <1>3, <1>5, <2>4, <2>5, <2>6, <2>7 DEF m
<1> QED BY <1>4, <1>5

\* The commit of a reply leaves sound rows, and lets the item go.
LEMMA CommitSound == ASSUME ThreadInv, NEW b \in Brains, CommitTurn(b) PROVE Sound(log', db') /\ Done(b)
<1>1. PICK t : t = job[b].slot
  OBVIOUS
<1>2. PICK r \in Replies :
        /\ Phase(b, "asking") /\ log' = Grown(log, r, t)
        /\ Commits(b, IdleHarvest(db, IF r.ops = <<>> THEN SettleTools(Complete(db, t), log', t)
                                      ELSE Delegated(db, log', t, r.uses = <<>>, r.ops)))
        /\ Done(b)
  BY <1>1 DEF CommitTurn, Grown, Made
<1>3. Holds(b) /\ ~db.archived /\ db.th[t].status = "running"
  BY <1>1, <1>2 DEF Commits, Phase, ThreadInv, AtWork
<1>4. t \in Threads /\ t \in Slots /\ Unsettled(log, t) = {}
  BY <1>1, <1>3, HeldQuiet DEF Slots
<1>5. log \in Logs /\ Ordered(log) /\ Rows(db, db, log, {}) /\ Waited(db)
  BY DEF ThreadInv, SessionInv
<1>6. PICK m : m = log'
  OBVIOUS
<1>7. /\ m \in Logs /\ Ordered(m) /\ Onward(m, log)
      /\ \A x \in Threads \ {t} : Flow(m, x) = Flow(log, x)
      /\ Running(Flow(m, t)) \/ Flow(m, t).pending # {}
      /\ r.uses = <<>> => m = log
  BY <1>2, <1>4, <1>5, <1>6, CommitLog
<1> DEFINE d == IF r.ops = <<>> THEN SettleTools(Complete(db, t), m, t)
                ELSE Delegated(db, m, t, r.uses = <<>>, r.ops)
<1>8. Rows(db, d, m, {}) /\ Waited(d)
  <2>1. CASE r.ops = <<>>
    <3> DEFINE c == Complete(db, t)
    <3>1. Rows(db, db, log, {t})
      BY <1>5, RowsWeaken
    <3>2. Rows(db, c, log, {t}) /\ Kept(c, db) /\ c.own[t] = Null /\ c.item[t] = "none"
      <4>1. t \in {t}
        OBVIOUS
      <4>2. Rows(db, c, log, {t}) /\ Completed(c, db, t)
        BY <1>4, <3>1, <4>1, RowsCompleteTurn
      <4> QED BY <4>2 DEF Completed
    <3> HIDE DEF c
    <3>3. Rows(db, c, m, {t})
      BY <1>7, <3>2, RowsLog
    <3>4. Waited(c) /\ ~c.archived /\ c.th[t].status = "running"
      BY <1>3, <1>5, <3>2, KeptWaited DEF Kept
    <3>5. Rows(db, Settlement(c, m, t), m, {}) /\ Waited(Settlement(c, m, t))
      BY <1>4, <1>7, <3>2, <3>3, <3>4, RowsSettle
    <3>6. SettleTools(c, m, t) = Settlement(c, m, t)
      BY <1>4, <3>4, SettleToolsIs
    <3> QED BY <2>1, <3>5, <3>6 DEF c
  <2>2. CASE r.ops # <<>>
    <3>1. PICK alone \in BOOLEAN : alone = (r.uses = <<>>)
      OBVIOUS
    <3>2. Len(r.ops) \in Nat
      <4>1. r.ops \in Seq([op : {"create", "send", "list", "wait", "submit", "parent"}, to : Threads \cup {Null}])
        BY ReplyAssumption, Zenon
      <4> QED BY <4>1
    <3>3. alone => m = log /\ Unsettled(log, t) = {}
      BY <1>4, <1>7, <3>1
    <3>4. PICK ops : ops = r.ops
      OBVIOUS
    <3>5. Rows(db, Delegated(db, m, t, alone, ops), m, {}) /\ Waited(Delegated(db, m, t, alone, ops))
      BY <1>3, <1>4, <1>5, <1>7, <3>2, <3>3, <3>4, RowsDelegated
    <3> QED BY <2>2, <3>1, <3>4, <3>5
  <2> QED BY <2>1, <2>2
<1>9. Done(b) /\ db' = IdleHarvest(db, d)
  BY <1>2, <1>6 DEF Commits
<1> HIDE DEF d
<1>10. Rows(db, IdleHarvest(db, d), m, {}) /\ Waited(IdleHarvest(db, d))
  BY <1>8, RowsHarvest, KeptWaited DEF Beside
<1> QED BY <1>3, <1>6, <1>7, <1>9, <1>10 DEF Sound
===============================================================================
