---------------------------- MODULE ClaimLane ----------------------------
(***************************************************************************)
(* The claim lane of internal/queue: the rows that the brain's and the     *)
(* executor's processes claim under a lease, keep with Extend, and settle  *)
(* with Complete or a Requeue inside the transaction that writes the       *)
(* work's result.                                                          *)
(*                                                                         *)
(* The lease timestamp has two uses, modelled apart: how long it still     *)
(* runs (the field lease), and its exact value, which a claimant presents  *)
(* as its proof of ownership (the field proof).  No two grants of one row  *)
(* carry the same timestamp (a reclaim's is later than the one it          *)
(* replaces), so a grant takes a proof that no row and no claimant has.    *)
(*                                                                         *)
(* Row ids are numbered in the order of created_at.                        *)
(***************************************************************************)
EXTENDS WorkItems

CONSTANTS
    MaxItems,     \* how many rows are ever inserted
    Sessions,     \* the sessions that have work
    Slots,        \* the dedup keys (session, thread, kind)
    SessionOf,    \* the session of each slot
    KindOf,       \* the kind of each slot: "model_turn", "tool_exec", ...
    Claimants,    \* the claim loops of the brain and executor processes
    Serves,       \* the kind each claimant claims
    Proofs,       \* lease timestamps, as proofs of ownership
    TTL,          \* the lease a Claim or an Extend buys
    RetryDelay    \* RequeueAfter's delay

ASSUME ClaimAssumption == /\ MaxItems \in Nat
                          /\ SessionOf \in [Slots -> Sessions]
                          /\ Null \notin Proofs \cup Slots \cup Claimants
                          /\ TTL \in Nat \ {0}
                          /\ RetryDelay \in Nat \ {0}

ASSUME KindAssumption == KindOf \in [Slots -> STRING] /\ Serves \in [Claimants -> STRING]

VARIABLES
    items,        \* the rows
    hand,         \* the queue.Item each claimant holds, or Free
    wrote         \* whose result each slot's session was last given

vars == <<items, hand, wrote>>

-----------------------------------------------------------------------------
Items == 1 .. MaxItems

Row == [slot  : Slots \cup {Null},
        state : {"absent", "queued", "active", "stopped"},
        lease : {Null} \cup (0 .. TTL) \cup (0 .. RetryDelay),
        proof : Proofs \cup {Null}]

\* stale is no part of the code: it records that the item was claimed by
\* another, or cancelled, since this claimant claimed it.
Handle == [item : Items, proof : Proofs, stale : BOOLEAN]

Free == [item |-> Null, proof |-> Null, stale |-> FALSE]

TypeOK == /\ items \in [Items -> Row]
          /\ hand \in [Claimants -> Handle \cup {Free}]
          /\ wrote \in [Slots -> Claimants \cup {Null}]

Holding(c) == hand[c] # Free

\* The lease proof: WHERE id = $1 AND state = 'active' AND lease_expires_at = $2.
Proves(c) == /\ Holding(c)
             /\ items[hand[c].item].state = "active"
             /\ items[hand[c].item].proof = hand[c].proof

FreshProofs == Proofs \ ({items[i].proof : i \in Items} \cup {hand[c].proof : c \in Claimants})

Live(i) == items[i].state \in LiveStates

\* The handles of those who hold one of these items are proofs of the past.
Outdated(taken) == [c \in Claimants |->
                      IF Holding(c) /\ hand[c].item \in taken
                      THEN [hand[c] EXCEPT !.stale = TRUE] ELSE hand[c]]

\* UPDATE work_items SET state, lease_expires_at WHERE id = i.
Updated(i, state, lease, proof) ==
    [slot |-> items[i].slot, state |-> state, lease |-> lease, proof |-> proof]

-----------------------------------------------------------------------------
Init == /\ items = [i \in Items |-> [slot |-> Null, state |-> "absent",
                                     lease |-> Null, proof |-> Null]]
        /\ hand = [c \in Claimants |-> Free]
        /\ wrote = [s \in Slots |-> Null]

\* Mutant: the conflict target covers queued rows only.
EnqueueBesideActive(slot) ==
    /\ \A i \in Items : items[i].state = "queued" => items[i].slot # slot
    /\ \E i \in Items :
         /\ \A j \in Items : items[j].state = "absent" <=> j >= i
         /\ items' = [items EXCEPT ![i] = [slot |-> slot, state |-> "queued",
                                           lease |-> Null, proof |-> Null]]
    /\ UNCHANGED <<hand, wrote>>

\* INSERT ... ON CONFLICT (session, thread, kind) WHERE live DO NOTHING.
EnqueueThread(slot) ==
    /\ \A i \in Items : Live(i) => items[i].slot # slot
    /\ \E i \in Items :
         /\ \A j \in Items : items[j].state = "absent" <=> j >= i
         /\ items' = [items EXCEPT ![i] = [slot |-> slot, state |-> "queued",
                                           lease |-> Null, proof |-> Null]]
    /\ UNCHANGED <<hand, wrote>>

\* Mutant: Claim never takes a dead claimant's item.
ClaimableQueued(i) == items[i].state = "queued" /\ Available(items[i].lease)

\* A row Claim may pick: queued past its retry delay, or active and lapsed.
Claimable(i) == \/ items[i].state = "queued" /\ Available(items[i].lease)
                \/ items[i].state = "active" /\ Lapsed(items[i].lease)

\* Mutant: a reclaim leaves the lease it found.
ClaimKeepingLease(c, i) ==
    /\ ~Holding(c)
    /\ Claimable(i)
    /\ KindOf[items[i].slot] = Serves[c]
    /\ \E p \in IF items[i].state = "active" THEN {items[i].proof} ELSE FreshProofs :
         /\ items' = [items EXCEPT ![i] = Updated(i, "active", TTL, p)]
         /\ hand' = [Outdated({i}) EXCEPT ![c] = [item |-> i, proof |-> p, stale |-> FALSE]]
    /\ UNCHANGED wrote

\* ORDER BY created_at passes over the rows another transaction has locked, so
\* any claimable row may be the one picked.
Claim(c, i) ==
    /\ ~Holding(c)
    /\ Claimable(i)
    /\ KindOf[items[i].slot] = Serves[c]
    /\ \E p \in FreshProofs :
         /\ items' = [items EXCEPT ![i] = Updated(i, "active", TTL, p)]
         /\ hand' = [Outdated({i}) EXCEPT ![c] = [item |-> i, proof |-> p, stale |-> FALSE]]
    /\ UNCHANGED wrote

\* The keeper's renewal: it succeeds on an overdue lease nobody reclaimed.
Extend(c) ==
    /\ Proves(c)
    /\ \E p \in FreshProofs :
         /\ items' = [items EXCEPT ![hand[c].item] = Updated(hand[c].item, "active", TTL, p)]
         /\ hand' = [hand EXCEPT ![c].proof = p]
    /\ UNCHANGED wrote

\* The renewal a claimant makes right before the model call: the lease must
\* also be unexpired.
renewLive(c) == Proves(c) /\ ~Lapsed(items[hand[c].item].lease) /\ Extend(c)

\* A renewal that commits while its client's deadline fires: the row is leased
\* under a timestamp the claimant never sees, and the keeper cancels the work.
ExtendUnseen(c) ==
    /\ Proves(c)
    /\ \E p \in FreshProofs :
         items' = [items EXCEPT ![hand[c].item] = Updated(hand[c].item, "active", TTL, p)]
    /\ hand' = [hand EXCEPT ![c] = Free]
    /\ UNCHANGED wrote

\* Mutant: a settlement names the item by its id alone.
SettleById(c, state, lease) ==
    /\ Holding(c)
    /\ items' = [items EXCEPT ![hand[c].item] = Updated(hand[c].item, state, lease, Null)]
    /\ hand' = [hand EXCEPT ![c] = Free]
    /\ wrote' = [wrote EXCEPT ![items[hand[c].item].slot] = c]

\* A settlement: the result and the item's fate commit together.
Settle(c, state, lease) ==
    /\ Proves(c)
    /\ items' = [items EXCEPT ![hand[c].item] = Updated(hand[c].item, state, lease, Null)]
    /\ hand' = [hand EXCEPT ![c] = Free]
    /\ wrote' = [wrote EXCEPT ![items[hand[c].item].slot] = c]

Complete(c) == Settle(c, "stopped", Null)

Requeue(c) == Settle(c, "queued", Null)

RequeueAfter(c) == Settle(c, "queued", RetryDelay)

\* Any of these against a row that is no longer the claimant's matches nothing:
\* ErrLeaseLost, the transaction rolls back and the work is abandoned.
LoseLease(c) ==
    /\ Holding(c)
    /\ ~Proves(c)
    /\ hand' = [hand EXCEPT ![c] = Free]
    /\ UNCHANGED <<items, wrote>>

\* A claimant dies, stalls past its budget or fails on infrastructure: the
\* lease is left to lapse.
Abandon(c) ==
    /\ Proves(c)
    /\ hand' = [hand EXCEPT ![c] = Free]
    /\ UNCHANGED <<items, wrote>>

\* What a user.interrupt does to the rows of a session, or to one thread's
\* model_turn: stopped, whoever holds them.
Cancel(taken) ==
    /\ taken # {}
    /\ items' = [i \in Items |-> IF i \in taken THEN Updated(i, "stopped", Null, Null) ELSE items[i]]
    /\ hand' = Outdated(taken)
    /\ UNCHANGED wrote

CancelSession(s) == Cancel({i \in Items : Live(i) /\ SessionOf[items[i].slot] = s})

CancelThread(slot) == KindOf[slot] = "model_turn" /\ Cancel({i \in Items : Live(i) /\ items[i].slot = slot})

Tick == /\ \E i \in Items : Aged(items[i].lease) # items[i].lease
        /\ items' = [i \in Items |-> [items[i] EXCEPT !.lease = Aged(@)]]
        /\ UNCHANGED <<hand, wrote>>

-----------------------------------------------------------------------------
\* Every step but a claim.
Step == \/ \E slot \in Slots : EnqueueThread(slot) \/ CancelThread(slot)
        \/ \E s \in Sessions : CancelSession(s)
        \/ \E c \in Claimants : \/ Extend(c) \/ renewLive(c) \/ ExtendUnseen(c)
                                \/ Complete(c) \/ Requeue(c) \/ RequeueAfter(c)
                                \/ LoseLease(c) \/ Abandon(c)
        \/ Tick

Next == Step \/ \E c \in Claimants, i \in Items : Claim(c, i)

Spec == Init /\ [][Next]_vars

\* The oldest claimable row of its kind, which ORDER BY created_at gives to a
\* claimant that finds no row locked.
ClaimOldest(i) == /\ Claimable(i)
                  /\ \A j \in Items : Claimable(j) /\ KindOf[items[j].slot] = KindOf[items[i].slot]
                                          => i <= j
                  /\ \E c \in Claimants : Claim(c, i)

\* What a claimant does in the end with what it holds: a turn or a run finishes
\* (its steps are bounded by timeouts), fails, or finds its lease gone.
Finish(c) == Complete(c) \/ Requeue(c) \/ RequeueAfter(c) \/ LoseLease(c) \/ Abandon(c)

\* Time passes; claimed work ends; and a row that is again and again the oldest
\* claimable one is claimed, since an idle claimant looks every PollInterval.
FairSpec == /\ Spec
            /\ WF_vars(Tick)
            /\ \A c \in Claimants : WF_vars(Finish(c))
            /\ \A i \in Items : SF_vars(ClaimOldest(i))

-----------------------------------------------------------------------------
\* The index on (session, thread, kind) is a promise about every statement, not
\* only about Enqueue: no statement brings a row back beside its successor, so
\* a thread never has two turns and a session never two runs of a kind.
OneLivePerSlot ==
    \A i, j \in Items : Live(i) /\ Live(j) /\ items[i].slot = items[j].slot => i = j

\* Once its item was reclaimed by another or cancelled by an interrupt, a
\* claimant's proof matches no row, however late it wakes up: nothing of its
\* turn can commit.
NoProofOutlivesItsClaim == \A c \in Claimants : Proves(c) => ~hand[c].stale

\* No two claimants could both settle one item.
OneProverPerItem ==
    \A c, d \in Claimants : Proves(c) /\ Proves(d) /\ hand[c].item = hand[d].item => c = d

\* "stopped is terminal: no statement moves a stopped row to another state"
\* (stopWork), however the claimants that still hold it behave.
StoppedIsTerminal ==
    [][\A i \in Items : items[i].state = "stopped" => items'[i].state = "stopped"]_vars

\* The slots that have a live row.
AskedSlots == {s \in Slots : \E i \in Items : Live(i) /\ items[i].slot = s}

\* The claimants whose claim of an item of the slot is the latest and was not
\* cancelled, whether or not their proof still matches.
OwnersOf(s) == {c \in Claimants : /\ Holding(c) /\ ~hand[c].stale
                                  /\ items[hand[c].item].slot = s}

OwnerOf == [s \in Slots |-> OwnersOf(s)]

Owning == INSTANCE SlotOwnership WITH asked <- AskedSlots, owner <- OwnerOf, result <- wrote

\* The lane implements SlotOwnership: rows that lapse, are reclaimed, requeued,
\* cancelled and inserted anew, and renewals whose answer is lost, amount to
\* slots with at most one owner each, and a result is only ever written by the
\* owner (Claim, Extend and the settlements, each by its lease proof).
Ownership == Owning!Spec

\* Live work that no process can prove its own: queued, or active under a lease
\* whose claimant is gone.
Unattended(i) == Live(i) /\ ~\E c \in Claimants : Proves(c) /\ hand[c].item = i

\* What leaves the item at its created_at, and so at the head of the queue: it is
\* handed straight back, or its claimant dies on it or overran its lease.
KeepsTheHead(c) == Requeue(c) \/ Abandon(c) \/ LoseLease(c)

\* Unattended work is not left so: a dead claimant's lease lapses and another
\* claims the item, and a queued item's turn comes, provided that the oldest
\* item is not for ever handed back, died on or overrun.
WorkIsTakenUp ==
    (\A c \in Claimants : <>[][~KeepsTheHead(c)]_vars)
        => \A i \in Items : Unattended(i) ~> ~Unattended(i)

==========================================================================
