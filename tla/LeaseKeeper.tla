--------------------------- MODULE LeaseKeeper ---------------------------
(***************************************************************************)
(* queue.LeaseKeeper: the goroutine that renews a claimed item's lease     *)
(* while its holder works, against a database that may be slow.            *)
(*                                                                         *)
(* Time is discrete.  The database and this process agree on its rate and  *)
(* on nothing else, so every clock of the model is an age or a count-down: *)
(* what is left of the lease in the database, and, on this side, the time  *)
(* since bought, since the last Progress, and to the next tick.            *)
(***************************************************************************)
EXTENDS Naturals

CONSTANTS
    TTL,          \* the lease a renewal buys
    Stall         \* the stall budget, 0 for none (the brain's keepers)

VARIABLES
    lease,        \* what the lease has left in the database
    taken,        \* the item was reclaimed by another, or cancelled
    bought,       \* time since k.bought
    silent,       \* time since the holder's last Progress
    ticker,       \* time to the ticker's next tick
    ticked,       \* a tick waits in the ticker's channel
    call,         \* the statement that holds k.mu, and how far it got
    state,        \* the keeper: running, closing, closed, or why it failed
    unseen,       \* a renewal committed whose answer its caller gave up on
    wedged        \* the holder will make no more progress, nor renew, nor close

vars == <<lease, taken, bought, silent, ticker, ticked, call, state, unseen, wedged>>

-----------------------------------------------------------------------------

\* A third of the lease, or the stall budget if that is shorter.
Interval == LET third == IF TTL \div 3 = 0 THEN TTL ELSE TTL \div 3
            IN  IF Stall > 0 /\ Stall < third THEN Stall ELSE third

\* silent counts to one more than the detection bound.
MaxSilence == Stall + Interval + 1

NoCall == [by |-> "none", left |-> 0, answer |-> "none", age |-> 0]

\* by the keeper's goroutine, within its budget left, or by the holder's Renew,
\* which has none.
Call == [by : {"none", "keeper", "holder"}, left : 0 .. TTL,
         answer : {"none", "renewed", "refused"}, age : 0 .. TTL]

TypeOK == /\ lease \in 0 .. TTL /\ bought \in 0 .. TTL /\ silent \in 0 .. MaxSilence
          /\ ticker \in 1 .. Interval
          /\ call \in Call
          /\ state \in {"running", "closing", "closed", "stalled", "lost", "overdue"}
          /\ {taken, ticked, unseen, wedged} \subseteq BOOLEAN

Init == /\ lease = TTL /\ bought = 0 /\ silent = 0 /\ ticker = Interval
        /\ call = NoCall /\ state = "running"
        /\ taken = FALSE /\ ticked = FALSE /\ unseen = FALSE /\ wedged = FALSE

Stalled == Stall > 0 /\ silent > Stall

Working == state \in {"running", "closing"}

-----------------------------------------------------------------------------
Upto(n, limit) == IF n < limit THEN n + 1 ELSE n

Down(n) == IF n > 0 THEN n - 1 ELSE 0

\* A unit of time passes.  A Ticker buffers one tick and drops the rest; a
\* deadline that is due fires before time goes on.
Tick ==
    /\ Working
    /\ ~(call.by = "keeper" /\ call.left = 0)
    /\ lease' = Down(lease)
    /\ bought' = Upto(bought, TTL)
    /\ silent' = Upto(silent, MaxSilence)
    /\ ticker' = IF ticker = 1 THEN Interval ELSE ticker - 1
    /\ ticked' = (ticked \/ ticker = 1)
    /\ call' = IF call.by = "none" THEN call
               ELSE [call EXCEPT !.left = Down(@), !.age = Upto(@, TTL)]
    /\ UNCHANGED <<taken, state, unseen, wedged>>

\* Once the keeper is done, its lease runs out.
Lapse ==
    /\ ~Working
    /\ lease > 0
    /\ lease' = lease - 1
    /\ UNCHANGED <<taken, bought, silent, ticker, ticked, call, state, unseen, wedged>>

\* Mutant: the stall is noted and its clock restarted.
GiveUpLater ==
    /\ Working /\ ticked /\ call.by # "keeper"
    /\ Stalled
    /\ silent' = 0 /\ ticked' = FALSE
    /\ UNCHANGED <<lease, taken, bought, ticker, call, state, unseen, wedged>>

\* The tick finds a holder that was silent for its whole budget, and does not
\* renew.
GiveUp ==
    /\ Working /\ ticked /\ call.by # "keeper"
    /\ Stalled
    /\ state' = "stalled"
    /\ UNCHANGED <<lease, taken, bought, silent, ticker, ticked, call, unseen, wedged>>

\* The tick starts a renewal bounded by what is left of the lease, measured
\* from bought; nothing left is a lease lost.
Start ==
    /\ Working /\ ticked /\ call.by = "none"
    /\ ~Stalled
    /\ ticked' = FALSE
    /\ IF bought >= TTL THEN state' = "overdue" /\ call' = call
       ELSE /\ state' = state
            /\ call' = [by |-> "keeper", left |-> TTL - bought, answer |-> "none", age |-> 0]
    /\ UNCHANGED <<lease, taken, bought, silent, ticker, unseen, wedged>>

\* The holder's own renewal, right before a model call.
Renew ==
    /\ ~wedged /\ state = "running" /\ call.by = "none"
    /\ call' = [by |-> "holder", left |-> 0, answer |-> "none", age |-> 0]
    /\ UNCHANGED <<lease, taken, bought, silent, ticker, ticked, state, unseen, wedged>>

\* The database runs the UPDATE.  Extend renews an overdue lease nobody
\* reclaimed, renewLive does not.
Commit ==
    /\ call.by # "none" /\ call.answer = "none"
    /\ LET renewed == ~taken /\ (call.by = "holder" => lease > 0) IN
         /\ lease' = IF renewed THEN TTL ELSE lease
         /\ call' = [call EXCEPT !.answer = IF renewed THEN "renewed" ELSE "refused"]
    /\ UNCHANGED <<taken, bought, silent, ticker, ticked, state, unseen, wedged>>

\* The statement returns, and bought is stamped on return.
Return ==
    /\ call.answer = "renewed"
    /\ bought' = 0
    /\ call' = NoCall
    /\ UNCHANGED <<lease, taken, silent, ticker, ticked, state, unseen, wedged>>

\* ErrLeaseLost.  After a failed Renew the holder closes the keeper.
Refuse ==
    /\ call.answer = "refused"
    /\ state' = CASE call.by = "keeper" -> "lost"
                  [] call.by = "holder" /\ state = "running" -> "closing"
                  [] OTHER -> state
    /\ call' = NoCall
    /\ UNCHANGED <<lease, taken, bought, silent, ticker, ticked, unseen, wedged>>

\* The renewal's deadline fires, whatever the database did, or late still does,
\* with the statement.
TimeOut ==
    /\ call.by = "keeper" /\ call.left = 0
    /\ state' = "overdue"
    /\ \E late \in BOOLEAN :
         /\ late => call.answer = "none" /\ ~taken
         /\ lease' = IF late THEN TTL ELSE lease
         /\ unseen' = (late \/ call.answer = "renewed")
    /\ call' = NoCall
    /\ UNCHANGED <<taken, bought, silent, ticker, ticked, wedged>>

Progress ==
    /\ ~wedged /\ state = "running" /\ call.by # "holder"
    /\ silent' = 0
    /\ UNCHANGED <<lease, taken, bought, ticker, ticked, call, state, unseen, wedged>>

Close ==
    /\ ~wedged /\ state = "running" /\ call.by # "holder"
    /\ state' = "closing"
    /\ UNCHANGED <<lease, taken, bought, silent, ticker, ticked, call, unseen, wedged>>

\* The holder hangs while it works.
Wedge ==
    /\ ~wedged /\ state = "running" /\ call.by # "holder"
    /\ wedged' = TRUE
    /\ UNCHANGED <<lease, taken, bought, silent, ticker, ticked, call, state, unseen>>

\* The goroutine takes quit, which it can only between two ticks.
Quit ==
    /\ state = "closing" /\ call.by = "none"
    /\ state' = "closed"
    /\ UNCHANGED <<lease, taken, bought, silent, ticker, ticked, call, unseen, wedged>>

\* Another claimant reclaims the lapsed item.
Reclaimed ==
    /\ lease = 0 /\ ~taken
    /\ taken' = TRUE
    /\ UNCHANGED <<lease, bought, silent, ticker, ticked, call, state, unseen, wedged>>

\* A user.interrupt cancels it.
Cancelled ==
    /\ ~taken
    /\ taken' = TRUE
    /\ UNCHANGED <<lease, bought, silent, ticker, ticked, call, state, unseen, wedged>>

-----------------------------------------------------------------------------
Next == \/ Tick \/ GiveUp \/ Start \/ Renew \/ Commit \/ Return \/ Refuse \/ TimeOut
        \/ Progress \/ Close \/ Wedge \/ Quit \/ Reclaimed \/ Cancelled \/ Lapse

Spec == Init /\ [][Next]_vars

\* The process is scheduled and time passes; the database may never answer.
FairSpec == /\ Spec
            /\ WF_vars(Tick) /\ WF_vars(Lapse) /\ WF_vars(TimeOut)
            /\ WF_vars(GiveUp) /\ WF_vars(Start) /\ WF_vars(Return) /\ WF_vars(Refuse)
            /\ SF_vars(Quit)

-----------------------------------------------------------------------------
\* A keeper that gives an item up because a renewal overran its budget gives up
\* a lease that has run out, never one that still runs (#392), unless that very
\* renewal committed without its answer arriving (#400).
NoFalseAlarm == state = "overdue" /\ ~taken /\ ~unseen => lease = 0

\* A holder that makes no more progress loses its item, though its process
\* lives and every renewal succeeds.  (It stays wedged.)
WedgedItemLapses == []<>(wedged /\ Stall > 0 => lease = 0 \/ taken \/ state = "lost")

\* "Each renewal is bounded by the lease it is racing" (LeaseKeeper).
RenewalIsBounded == [](call.by # "none" => <>(call.by = "none"))

\* A keeper gives up exactly what it should: an item whose lease ran out or
\* whose holder makes no progress, and no other.
KeeperIsHonest == []NoFalseAlarm /\ WedgedItemLapses
==========================================================================
