-------------------------- MODULE ClaimLaneProofs --------------------------
(***************************************************************************)
(* What ClaimLane promises, for any number of rows, sessions, slots and    *)
(* claimants, and any lease lengths.                                       *)
(***************************************************************************)
EXTENDS ClaimLane, TLAPS

\* A proof that a row carries is held for that row only, by a claimant from
\* whom nothing was taken since.
MatchIsCurrent ==
    \A c \in Claimants, i \in Items :
        Holding(c) /\ items[i].proof = hand[c].proof
            => hand[c].item = i /\ ~hand[c].stale

\* No two claimants hold the same proof.
HandlesDiffer ==
    \A c, d \in Claimants : Holding(c) /\ Holding(d) /\ hand[c].proof = hand[d].proof => c = d

\* The inductive invariant: a claimant's proof is worth something only because
\* each grant's proof differs from all that rows and claimants still have.
IInv == TypeOK /\ MatchIsCurrent /\ HandlesDiffer /\ OneLivePerSlot

-----------------------------------------------------------------------------
\* A claimant that holds something holds a handle of its own shape.
LEMMA HoldingIsHandle ==
    ASSUME TypeOK, NEW c \in Claimants, Holding(c)
    PROVE  hand[c] \in Handle
BY DEF TypeOK, Holding

\* Free is not the handle of any item.
LEMMA FreeIsNoHandle == Free \notin Handle
BY ClaimAssumption, NullAssumption DEF Free, Handle

\* Ageing keeps a row a row.
LEMMA AgedIsLease ==
    ASSUME NEW l \in {Null} \cup (0 .. TTL) \cup (0 .. RetryDelay)
    PROVE  Aged(l) \in {Null} \cup (0 .. TTL) \cup (0 .. RetryDelay)
BY ClaimAssumption, NullAssumption DEF Aged

\* Every statement of the queue and every step of a claimant keeps the types.
LEMMA TypePreserved ==
    ASSUME TypeOK, [Next]_vars
    PROVE  TypeOK'
<1> USE ClaimAssumption
<1>1. ASSUME NEW slot \in Slots, EnqueueThread(slot) PROVE TypeOK'
  BY <1>1 DEF EnqueueThread, TypeOK, Row
<1>2. ASSUME NEW taken \in SUBSET Items, Cancel(taken) PROVE TypeOK'
  <2>1. items' \in [Items -> Row]
    BY <1>2 DEF Cancel, TypeOK, Row, Updated
  <2>2. Outdated(taken) \in [Claimants -> Handle \cup {Free}]
    BY HoldingIsHandle DEF Outdated, TypeOK, Handle
  <2> QED BY <1>2, <2>1, <2>2 DEF Cancel, TypeOK
<1>3. ASSUME NEW c \in Claimants, Extend(c) PROVE TypeOK'
  BY <1>3, HoldingIsHandle DEF Extend, Proves, FreshProofs, Updated, TypeOK, Row, Handle
<1>4. ASSUME NEW c \in Claimants, ExtendUnseen(c) PROVE TypeOK'
  BY <1>4, HoldingIsHandle DEF ExtendUnseen, Proves, FreshProofs, Updated, TypeOK, Row, Handle
<1>5. ASSUME NEW c \in Claimants, NEW state \in {"stopped", "queued"},
             NEW l \in {Null, RetryDelay}, Settle(c, state, l)
      PROVE  TypeOK'
  <2>1. hand[c] \in Handle
    BY <1>5, HoldingIsHandle DEF Settle, Proves
  <2>2. items' \in [Items -> Row]
    BY <1>5, <2>1 DEF Settle, Updated, TypeOK, Row, Handle
  <2>3. hand' \in [Claimants -> Handle \cup {Free}]
    BY <1>5 DEF Settle, TypeOK
  <2>4. wrote' \in [Slots -> Claimants \cup {Null}]
    BY <1>5 DEF Settle, TypeOK
  <2> QED BY <2>2, <2>3, <2>4 DEF TypeOK
<1>8. ASSUME NEW c \in Claimants, LoseLease(c) \/ Abandon(c) PROVE TypeOK'
  BY <1>8 DEF LoseLease, Abandon, TypeOK
<1>9. ASSUME NEW c \in Claimants, NEW i \in Items, Claim(c, i) PROVE TypeOK'
  <2>1. PICK p \in FreshProofs :
          /\ items' = [items EXCEPT ![i] = Updated(i, "active", TTL, p)]
          /\ hand' = [Outdated({i}) EXCEPT ![c] = [item |-> i, proof |-> p, stale |-> FALSE]]
    BY <1>9 DEF Claim
  <2>2. Outdated({i}) \in [Claimants -> Handle \cup {Free}]
    BY HoldingIsHandle DEF Outdated, TypeOK, Handle
  <2>3. p \in Proofs
    BY DEF FreshProofs
  <2>4. items' \in [Items -> Row]
    BY <2>1, <2>3 DEF TypeOK, Row, Updated
  <2>5. hand' \in [Claimants -> Handle \cup {Free}]
    BY <2>1, <2>2, <2>3 DEF Handle
  <2> QED BY <1>9, <2>4, <2>5 DEF Claim, TypeOK
<1>10. ASSUME Tick PROVE TypeOK'
  <2>1. ASSUME NEW i \in Items PROVE [items[i] EXCEPT !.lease = Aged(items[i].lease)] \in Row
    BY AgedIsLease DEF TypeOK, Row
  <2> QED BY <1>10, <2>1 DEF Tick, TypeOK
<1>11. CASE UNCHANGED vars
  BY <1>11 DEF vars, TypeOK
<1>12. CASE Step
  BY <1>1, <1>2, <1>3, <1>4, <1>5, <1>8, <1>10, <1>12
     DEF Step, CancelSession, CancelThread, renewLive, Complete, Requeue, RequeueAfter
<1> QED BY <1>9, <1>11, <1>12 DEF Next

\* The claim lane's state has its type in every reachable state.
THEOREM TypeCorrect == Spec => []TypeOK
<1>1. Init => TypeOK
  BY ClaimAssumption DEF Init, TypeOK, Row, Free, Items
<1>2. TypeOK /\ [Next]_vars => TypeOK'
  BY TypePreserved
<1> QED BY <1>1, <1>2, PTL DEF Spec

-----------------------------------------------------------------------------
\* A grant's proof is one that no row and no claimant has.
LEMMA FreshIsNew ==
    ASSUME TypeOK, NEW p \in FreshProofs
    PROVE  /\ p \in Proofs
           /\ \A i \in Items : items[i].proof # p
           /\ \A c \in Claimants : hand[c].proof # p
BY DEF FreshProofs

\* What MatchIsCurrent and HandlesDiffer rest on, for any step: a row gets a
\* proof that nobody else has, and only from or with the handle it is given to;
\* the other rows keep theirs or lose them; the other handles stay or go.
LEMMA GrantKeepsProofs ==
    ASSUME TypeOK, MatchIsCurrent, HandlesDiffer, NEW p \in FreshProofs,
           NEW c \in Claimants, NEW i \in Items,
           \A j \in Items : items'[j].proof \in {IF j = i THEN p ELSE items[j].proof},
           hand'[c] \in {Free, [item |-> i, proof |-> p, stale |-> FALSE]},
           \A d \in Claimants \ {c} :
               \/ hand'[d] = hand[d]
               \/ hand[d].item = i /\ Holding(d) /\ hand'[d] = [hand[d] EXCEPT !.stale = TRUE]
    PROVE  MatchIsCurrent' /\ HandlesDiffer'
<1> USE ClaimAssumption
<1>1. p \in Proofs /\ (\A j \in Items : items[j].proof # p) /\ (\A d \in Claimants : hand[d].proof # p)
  BY FreshIsNew
<1>2. \A d \in Claimants \ {c} : Holding(d)' =>
        /\ Holding(d)
        /\ hand'[d].proof = hand[d].proof
        /\ hand'[d].item = hand[d].item
        /\ hand[d].item # i => hand'[d].stale = hand[d].stale
  <2> SUFFICES ASSUME NEW d \in Claimants \ {c}, Holding(d)'
               PROVE  /\ Holding(d)
                      /\ hand'[d].proof = hand[d].proof
                      /\ hand'[d].item = hand[d].item
                      /\ hand[d].item # i => hand'[d].stale = hand[d].stale
    OBVIOUS
  <2>1. Holding(d)
    BY DEF Holding
  <2>2. hand[d] \in Handle
    BY <2>1, HoldingIsHandle
  <2> QED BY <2>1, <2>2 DEF Handle
<1>3. Holding(c)' => hand'[c].proof = p /\ hand'[c].item = i /\ ~hand'[c].stale
  BY DEF Holding
<1>4. MatchIsCurrent'
  <2> SUFFICES ASSUME NEW d \in Claimants, NEW j \in Items,
                      Holding(d)', items'[j].proof = hand'[d].proof
               PROVE  hand'[d].item = j /\ ~hand'[d].stale
    BY DEF MatchIsCurrent
  <2>1. CASE d = c
    BY <2>1, <1>1, <1>3
  <2>2. CASE d # c
    <3>1. j # i
      BY <2>2, <1>1, <1>2
    <3> QED BY <2>2, <3>1, <1>2 DEF MatchIsCurrent
  <2> QED BY <2>1, <2>2
<1>5. HandlesDiffer'
  <2> SUFFICES ASSUME NEW d \in Claimants, NEW e \in Claimants,
                      Holding(d)', Holding(e)', hand'[d].proof = hand'[e].proof
               PROVE  d = e
    BY DEF HandlesDiffer
  <2> QED BY <1>1, <1>2, <1>3 DEF HandlesDiffer
<1> QED BY <1>4, <1>5

\* The same for a step that takes proofs away from rows and grants none.
LEMMA LossKeepsProofs ==
    ASSUME TypeOK, MatchIsCurrent, HandlesDiffer,
           \A j \in Items : items'[j].proof \in {items[j].proof, Null},
           \A d \in Claimants :
               \/ hand'[d] = hand[d]
               \/ hand'[d] = Free
               \/ /\ Holding(d) /\ hand'[d] = [hand[d] EXCEPT !.stale = TRUE]
                  /\ items'[hand[d].item].proof = Null
    PROVE  MatchIsCurrent' /\ HandlesDiffer'
<1> USE ClaimAssumption
<1>1. \A d \in Claimants : Holding(d)' =>
        /\ Holding(d) /\ hand[d] \in Handle
        /\ hand'[d].proof = hand[d].proof
        /\ hand'[d].item = hand[d].item
        /\ hand'[d].stale # hand[d].stale => items'[hand[d].item].proof = Null
  <2> SUFFICES ASSUME NEW d \in Claimants, Holding(d)'
               PROVE  /\ Holding(d) /\ hand[d] \in Handle
                      /\ hand'[d].proof = hand[d].proof
                      /\ hand'[d].item = hand[d].item
                      /\ hand'[d].stale # hand[d].stale => items'[hand[d].item].proof = Null
    OBVIOUS
  <2>1. Holding(d)
    BY DEF Holding
  <2>2. hand[d] \in Handle
    BY <2>1, HoldingIsHandle
  <2>3. CASE hand'[d] = hand[d]
    BY <2>1, <2>2, <2>3
  <2>4. CASE hand'[d] = [hand[d] EXCEPT !.stale = TRUE] /\ items'[hand[d].item].proof = Null
    BY <2>1, <2>2, <2>4 DEF Handle
  <2>5. hand'[d] # Free
    BY DEF Holding
  <2> QED BY <2>3, <2>4, <2>5
<1>2. MatchIsCurrent'
  <2> SUFFICES ASSUME NEW d \in Claimants, NEW j \in Items,
                      Holding(d)', items'[j].proof = hand'[d].proof
               PROVE  hand'[d].item = j /\ ~hand'[d].stale
    BY DEF MatchIsCurrent
  <2>1. hand[d].proof # Null
    BY <1>1 DEF Handle
  <2>2. items[j].proof = hand[d].proof
    BY <1>1, <2>1
  <2>3. hand[d].item = j /\ ~hand[d].stale
    BY <1>1, <2>2 DEF MatchIsCurrent
  <2> QED BY <1>1, <2>1, <2>3
<1>3. HandlesDiffer'
  BY <1>1 DEF HandlesDiffer
<1> QED BY <1>2, <1>3

\* Every step keeps the proofs apart and keeps each with its own item.
LEMMA ProofsPreserved ==
    ASSUME TypeOK, MatchIsCurrent, HandlesDiffer, [Next]_vars
    PROVE  MatchIsCurrent' /\ HandlesDiffer'
<1> DEFINE Goal == MatchIsCurrent' /\ HandlesDiffer'
<1> USE ClaimAssumption
<1>1. ASSUME NEW slot \in Slots, EnqueueThread(slot) PROVE Goal
  <2>1. \A j \in Items : items'[j].proof \in {items[j].proof, Null}
    BY <1>1 DEF EnqueueThread, TypeOK
  <2> QED BY <1>1, <2>1, LossKeepsProofs DEF EnqueueThread
<1>2. ASSUME NEW taken \in SUBSET Items, Cancel(taken) PROVE Goal
  <2>1. \A j \in Items : /\ items'[j].proof \in {items[j].proof, Null}
                         /\ j \in taken => items'[j].proof = Null
    BY <1>2 DEF Cancel, Updated
  <2> QED BY <1>2, <2>1, LossKeepsProofs DEF Cancel, Outdated
<1>3. ASSUME NEW c \in Claimants, Extend(c) \/ ExtendUnseen(c) PROVE Goal
  <2>1. hand[c] \in Handle
    BY <1>3, HoldingIsHandle DEF Extend, ExtendUnseen, Proves
  <2>2. ~hand[c].stale
    BY <1>3, <2>1 DEF Extend, ExtendUnseen, Proves, MatchIsCurrent, Handle
  <2>3. PICK p \in FreshProofs :
          /\ items' = [items EXCEPT ![hand[c].item] = Updated(hand[c].item, "active", TTL, p)]
          /\ hand' = [hand EXCEPT ![c].proof = p] \/ hand' = [hand EXCEPT ![c] = Free]
    BY <1>3 DEF Extend, ExtendUnseen
  <2>4. hand'[c] \in {Free, [item |-> hand[c].item, proof |-> p, stale |-> FALSE]}
    BY <2>1, <2>2, <2>3 DEF TypeOK, Handle
  <2>5. \A j \in Items : items'[j].proof \in {IF j = hand[c].item THEN p ELSE items[j].proof}
    BY <2>3 DEF TypeOK, Updated
  <2>6. \A d \in Claimants \ {c} : hand'[d] = hand[d]
    BY <2>3 DEF TypeOK
  <2> QED BY <2>1, <2>4, <2>5, <2>6, GrantKeepsProofs DEF Handle
<1>4. ASSUME NEW c \in Claimants, NEW state \in {"stopped", "queued"},
             NEW l \in {Null, RetryDelay}, Settle(c, state, l)
      PROVE  Goal
  <2>1. \A j \in Items : items'[j].proof \in {items[j].proof, Null}
    BY <1>4 DEF Settle, Updated, TypeOK
  <2>2. \A d \in Claimants : hand'[d] = hand[d] \/ hand'[d] = Free
    BY <1>4 DEF Settle, TypeOK
  <2> QED BY <2>1, <2>2, LossKeepsProofs
<1>5. ASSUME NEW c \in Claimants, LoseLease(c) \/ Abandon(c) PROVE Goal
  <2>1. \A d \in Claimants : hand'[d] = hand[d] \/ hand'[d] = Free
    BY <1>5 DEF LoseLease, Abandon, TypeOK
  <2> QED BY <1>5, <2>1, LossKeepsProofs DEF LoseLease, Abandon
<1>6. ASSUME NEW c \in Claimants, NEW i \in Items, Claim(c, i) PROVE Goal
  <2>1. PICK p \in FreshProofs :
          /\ items' = [items EXCEPT ![i] = Updated(i, "active", TTL, p)]
          /\ hand' = [Outdated({i}) EXCEPT ![c] = [item |-> i, proof |-> p, stale |-> FALSE]]
    BY <1>6 DEF Claim
  <2>2. hand'[c] = [item |-> i, proof |-> p, stale |-> FALSE]
    BY <2>1 DEF Outdated
  <2>3. \A j \in Items : items'[j].proof \in {IF j = i THEN p ELSE items[j].proof}
    BY <2>1 DEF TypeOK, Updated
  <2>4. \A d \in Claimants \ {c} :
          \/ hand'[d] = hand[d]
          \/ hand[d].item = i /\ Holding(d) /\ hand'[d] = [hand[d] EXCEPT !.stale = TRUE]
    BY <2>1 DEF Outdated
  <2> QED BY <2>2, <2>3, <2>4, GrantKeepsProofs
<1>7. ASSUME Tick PROVE Goal
  <2>1. \A j \in Items : items'[j].proof = items[j].proof
    BY <1>7 DEF Tick, TypeOK, Row
  <2> QED BY <1>7, <2>1, LossKeepsProofs DEF Tick
<1>8. CASE UNCHANGED vars
  BY <1>8 DEF vars, MatchIsCurrent, HandlesDiffer, Holding
<1>9. CASE Step
  BY <1>1, <1>2, <1>3, <1>4, <1>5, <1>7, <1>9
     DEF Step, CancelSession, CancelThread, renewLive, Complete, Requeue, RequeueAfter
<1> QED BY <1>6, <1>8, <1>9 DEF Next

\* No step brings a second live row into a slot.
LEMMA SlotsPreserved ==
    ASSUME TypeOK, TypeOK', OneLivePerSlot, [Next]_vars
    PROVE  OneLivePerSlot'
<1> USE ClaimAssumption DEF OneLivePerSlot, Live, LiveStates, TypeOK, Row
<1>1. ASSUME NEW slot \in Slots, EnqueueThread(slot) PROVE OneLivePerSlot'
  BY <1>1 DEF EnqueueThread
<1>2. ASSUME NEW taken \in SUBSET Items, Cancel(taken) PROVE OneLivePerSlot'
  BY <1>2 DEF Cancel, Updated
<1>3. ASSUME NEW c \in Claimants, Extend(c) \/ ExtendUnseen(c) PROVE OneLivePerSlot'
  <2>1. hand[c] \in Handle /\ items[hand[c].item].state = "active"
    BY <1>3, HoldingIsHandle DEF Extend, ExtendUnseen, Proves
  <2>2. \A j \in Items : Live(j)' => Live(j) /\ items'[j].slot = items[j].slot
    BY <1>3, <2>1 DEF Extend, ExtendUnseen, Updated, Handle
  <2> QED BY <2>2
<1>4. ASSUME NEW c \in Claimants, NEW state \in {"stopped", "queued"},
             NEW l \in {Null, RetryDelay}, Settle(c, state, l)
      PROVE  OneLivePerSlot'
  <2>1. hand[c] \in Handle /\ items[hand[c].item].state = "active"
    BY <1>4, HoldingIsHandle DEF Settle, Proves
  <2>2. \A j \in Items : Live(j)' => Live(j) /\ items'[j].slot = items[j].slot
    BY <1>4, <2>1 DEF Settle, Updated, Handle
  <2> QED BY <2>2
<1>5. ASSUME NEW c \in Claimants, LoseLease(c) \/ Abandon(c) PROVE OneLivePerSlot'
  BY <1>5 DEF LoseLease, Abandon
<1>6. ASSUME NEW c \in Claimants, NEW i \in Items, Claim(c, i) PROVE OneLivePerSlot'
  BY <1>6 DEF Claim, Claimable, Updated
<1>7. ASSUME Tick PROVE OneLivePerSlot'
  BY <1>7 DEF Tick
<1>8. CASE UNCHANGED vars
  BY <1>8 DEF vars
<1>9. CASE Step
  BY <1>1, <1>2, <1>3, <1>4, <1>5, <1>7, <1>9
     DEF Step, CancelSession, CancelThread, renewLive, Complete, Requeue, RequeueAfter
<1> QED BY <1>6, <1>8, <1>9 DEF Next

-----------------------------------------------------------------------------
\* The inductive invariant holds throughout.
LEMMA Invariant == Spec => []IInv
<1>1. Init => IInv
  <2> SUFFICES ASSUME Init PROVE IInv
    OBVIOUS
  <2>1. TypeOK
    BY ClaimAssumption DEF Init, TypeOK, Row, Free, Items
  <2>2. \A c \in Claimants : ~Holding(c)
    BY DEF Init, Holding
  <2>3. \A i \in Items : ~Live(i)
    BY DEF Init, Live, LiveStates
  <2> QED BY <2>1, <2>2, <2>3 DEF IInv, MatchIsCurrent, HandlesDiffer, OneLivePerSlot
<1>2. IInv /\ [Next]_vars => IInv'
  BY TypePreserved, ProofsPreserved, SlotsPreserved DEF IInv
<1> QED BY <1>1, <1>2, PTL DEF Spec

\* A thread never has two live turns and a session never two live runs of one
\* kind, whatever claims, reclaims, requeues and interrupts do to its items.
THEOREM SlotsExclusive == Spec => []OneLivePerSlot
<1>1. IInv => OneLivePerSlot
  BY DEF IInv
<1> QED BY <1>1, Invariant, PTL

\* A claimant whose item was reclaimed or cancelled can settle nothing, for any
\* number of claimants, however long it slept on its lease.
THEOREM StaleClaimsCommitNothing == Spec => []NoProofOutlivesItsClaim
<1>1. IInv => NoProofOutlivesItsClaim
  <2> SUFFICES ASSUME IInv, NEW c \in Claimants, Proves(c) PROVE ~hand[c].stale
    BY DEF NoProofOutlivesItsClaim
  <2>1. hand[c].item \in Items
    BY HoldingIsHandle DEF IInv, Proves, Handle
  <2> QED BY <2>1 DEF IInv, MatchIsCurrent, Proves
<1> QED BY <1>1, Invariant, PTL

\* One item is never two claimants' to settle.
THEOREM ProversExclusive == Spec => []OneProverPerItem
<1>1. IInv => OneProverPerItem
  BY DEF IInv, OneProverPerItem, HandlesDiffer, Proves
<1> QED BY <1>1, Invariant, PTL

\* No statement moves a stopped row: what an interrupt or a settlement ended
\* stays ended.
THEOREM StoppedStays == Spec => StoppedIsTerminal
<1> DEFINE Stays == \A i \in Items : items[i].state = "stopped" => items'[i].state = "stopped"
<1>1. TypeOK /\ [Next]_vars => [Stays]_vars
  <2> SUFFICES ASSUME TypeOK, [Next]_vars PROVE Stays
    OBVIOUS
  <2> USE DEF TypeOK, Row
  <2>1. ASSUME NEW slot \in Slots, EnqueueThread(slot) PROVE Stays
    BY <2>1, ClaimAssumption DEF EnqueueThread, Items
  <2>2. ASSUME NEW taken \in SUBSET Items, Cancel(taken) PROVE Stays
    BY <2>2 DEF Cancel, Updated
  <2>3. ASSUME NEW c \in Claimants, Extend(c) \/ ExtendUnseen(c) PROVE Stays
    <3>1. items[hand[c].item].state = "active"
      BY <2>3 DEF Extend, ExtendUnseen, Proves
    <3> QED BY <2>3, <3>1 DEF Extend, ExtendUnseen
  <2>4. ASSUME NEW c \in Claimants, NEW state \in {"stopped", "queued"},
               NEW l \in {Null, RetryDelay}, Settle(c, state, l)
        PROVE  Stays
    <3>1. items[hand[c].item].state = "active"
      BY <2>4 DEF Settle, Proves
    <3> QED BY <2>4, <3>1 DEF Settle
  <2>5. ASSUME NEW c \in Claimants, LoseLease(c) \/ Abandon(c) PROVE Stays
    BY <2>5 DEF LoseLease, Abandon
  <2>6. ASSUME NEW c \in Claimants, NEW i \in Items, Claim(c, i) PROVE Stays
    BY <2>6 DEF Claim, Claimable
  <2>7. ASSUME Tick PROVE Stays
    <3>1. \A i \in Items : items'[i].state = items[i].state
      BY <2>7 DEF Tick
    <3> QED BY <3>1
  <2>8. CASE UNCHANGED vars
    BY <2>8 DEF vars
  <2>9. CASE Step
    BY <2>1, <2>2, <2>3, <2>4, <2>5, <2>7, <2>9
       DEF Step, CancelSession, CancelThread, renewLive, Complete, Requeue, RequeueAfter
  <2> QED BY <2>6, <2>8, <2>9 DEF Next
<1>2. TypeOK /\ [Next]_vars => [\A i \in Items : items[i].state = "stopped" => items'[i].state = "stopped"]_vars
  BY <1>1
<1> QED BY <1>2, TypeCorrect, PTL DEF Spec, StoppedIsTerminal

-----------------------------------------------------------------------------
(* ClaimLane implements SlotOwnership. *)

\* Whoever made the latest claim of an item that was not cancelled can prove it.
LatestProves == \A c \in Claimants : Holding(c) /\ ~hand[c].stale => Proves(c)

\* A row that was inserted has a slot.
RowsHaveSlots == \A i \in Items : items[i].state # "absent" => items[i].slot \in Slots

\* The inductive invariant of the refinement.
OInv == IInv /\ LatestProves /\ RowsHaveSlots

-----------------------------------------------------------------------------
\* Every inserted row keeps its slot, and a new one is given one.
LEMMA RowsPreserved ==
    ASSUME TypeOK, RowsHaveSlots, [Next]_vars
    PROVE  RowsHaveSlots'
<1> USE ClaimAssumption DEF RowsHaveSlots, TypeOK, Row
<1>1. ASSUME NEW slot \in Slots, EnqueueThread(slot) PROVE RowsHaveSlots'
  BY <1>1 DEF EnqueueThread
<1>2. ASSUME NEW taken \in SUBSET Items, Cancel(taken), \A i \in taken : Live(i) PROVE RowsHaveSlots'
  BY <1>2 DEF Cancel, Updated, Live, LiveStates
<1>3. ASSUME NEW c \in Claimants, Extend(c) \/ ExtendUnseen(c) PROVE RowsHaveSlots'
  <2>1. hand[c] \in Handle /\ items[hand[c].item].state = "active"
    BY <1>3, HoldingIsHandle DEF Extend, ExtendUnseen, Proves
  <2> QED BY <1>3, <2>1 DEF Extend, ExtendUnseen, Updated, Handle
<1>4. ASSUME NEW c \in Claimants, NEW state \in {"stopped", "queued"},
             NEW l \in {Null, RetryDelay}, Settle(c, state, l)
      PROVE  RowsHaveSlots'
  <2>1. hand[c] \in Handle /\ items[hand[c].item].state = "active"
    BY <1>4, HoldingIsHandle DEF Settle, Proves
  <2> QED BY <1>4, <2>1 DEF Settle, Updated, Handle
<1>5. ASSUME NEW c \in Claimants, LoseLease(c) \/ Abandon(c) PROVE RowsHaveSlots'
  BY <1>5 DEF LoseLease, Abandon
<1>6. ASSUME NEW c \in Claimants, NEW i \in Items, Claim(c, i) PROVE RowsHaveSlots'
  BY <1>6 DEF Claim, Claimable, Updated
<1>7. ASSUME Tick PROVE RowsHaveSlots'
  BY <1>7 DEF Tick
<1>8. CASE UNCHANGED vars
  BY <1>8 DEF vars
<1>9. CASE Step
  BY <1>1, <1>2, <1>3, <1>4, <1>5, <1>7, <1>9
     DEF Step, CancelSession, CancelThread, renewLive, Complete, Requeue, RequeueAfter
<1> QED BY <1>6, <1>8, <1>9 DEF Next

\* A claimant that can prove its item made the latest claim of it.
LEMMA ProverIsLatest ==
    ASSUME IInv, NEW c \in Claimants, Proves(c)
    PROVE  /\ hand[c] \in Handle /\ ~hand[c].stale
           /\ items[hand[c].item].state = "active"
<1>1. hand[c] \in Handle
  BY HoldingIsHandle DEF IInv, Proves
<1> QED BY <1>1 DEF IInv, MatchIsCurrent, Proves, Handle

\* Two who both made the latest claim of one slot's live row are one.
LEMMA OneLatest ==
    ASSUME OInv, NEW c \in Claimants, NEW d \in Claimants,
           Holding(c), ~hand[c].stale, Holding(d), ~hand[d].stale,
           items[hand[c].item].slot = items[hand[d].item].slot
    PROVE  c = d
<1>1. Proves(c) /\ Proves(d)
  BY DEF OInv, LatestProves
<1>2. hand[c] \in Handle /\ hand[d] \in Handle
  BY HoldingIsHandle DEF OInv, IInv
<1>3. Live(hand[c].item) /\ Live(hand[d].item)
  BY <1>1 DEF Proves, Live, LiveStates
<1>4. hand[c].item = hand[d].item
  BY <1>2, <1>3 DEF OInv, IInv, OneLivePerSlot, Handle
<1> QED BY <1>1, <1>4 DEF OInv, IInv, HandlesDiffer, Proves

\* A step that leaves a claimant's handle, and the proof and state of its row,
\* as they were leaves it provable.
LEMMA StillProves ==
    ASSUME NEW c \in Claimants, Proves(c), hand'[c] = hand[c],
           items'[hand[c].item].state = "active",
           items'[hand[c].item].proof = items[hand[c].item].proof
    PROVE  Proves(c)'
BY DEF Proves, Holding

\* The claimant of the latest claim goes on to prove it.
LEMMA LatestPreserved ==
    ASSUME OInv, [Next]_vars
    PROVE  LatestProves'
<1> USE ClaimAssumption
<1>0. TypeOK /\ LatestProves
  BY DEF OInv, IInv
<1>1. ASSUME NEW slot \in Slots, EnqueueThread(slot) PROVE LatestProves'
  <2> SUFFICES ASSUME NEW c \in Claimants, Holding(c)', ~hand'[c].stale PROVE Proves(c)'
    BY DEF LatestProves
  <2>1. hand' = hand
    BY <1>1 DEF EnqueueThread
  <2>2. Proves(c)
    BY <1>0, <2>1 DEF LatestProves, Holding
  <2>3. items'[hand[c].item] = items[hand[c].item]
    BY <1>0, <1>1, <2>2 DEF EnqueueThread, Proves, TypeOK, Items
  <2> QED BY <2>1, <2>2, <2>3, StillProves DEF Proves
<1>2. ASSUME NEW taken \in SUBSET Items, Cancel(taken) PROVE LatestProves'
  <2> SUFFICES ASSUME NEW c \in Claimants, Holding(c)', ~hand'[c].stale PROVE Proves(c)'
    BY DEF LatestProves
  <2>1. hand'[c] = Outdated(taken)[c]
    BY <1>2 DEF Cancel
  <2>2. hand'[c] = hand[c] /\ Holding(c) /\ hand[c].item \notin taken
    <3>1. CASE Holding(c) /\ hand[c].item \in taken
      <4>1. hand[c] \in Handle
        BY <3>1, <1>0, HoldingIsHandle
      <4> QED BY <2>1, <3>1, <4>1 DEF Outdated, Handle
    <3>2. CASE ~(Holding(c) /\ hand[c].item \in taken)
      BY <2>1, <3>2 DEF Outdated, Holding
    <3> QED BY <3>1, <3>2
  <2>3. Proves(c) /\ hand[c] \in Handle
    BY <1>0, <2>2, HoldingIsHandle DEF LatestProves
  <2>4. items'[hand[c].item] = items[hand[c].item]
    BY <1>2, <2>2, <2>3 DEF Cancel, Handle
  <2> QED BY <2>2, <2>3, <2>4, StillProves DEF Proves
<1>3. ASSUME NEW c \in Claimants, Extend(c) \/ ExtendUnseen(c) PROVE LatestProves'
  <2> SUFFICES ASSUME NEW d \in Claimants, Holding(d)', ~hand'[d].stale PROVE Proves(d)'
    BY DEF LatestProves
  <2>1. Proves(c) /\ hand[c] \in Handle
    BY <1>3, ProverIsLatest DEF Extend, ExtendUnseen, OInv
  <2>2. PICK p \in FreshProofs :
          /\ items' = [items EXCEPT ![hand[c].item] = Updated(hand[c].item, "active", TTL, p)]
          /\ hand' = [hand EXCEPT ![c].proof = p] \/ hand' = [hand EXCEPT ![c] = Free]
    BY <1>3 DEF Extend, ExtendUnseen
  <2>3. CASE d = c
    <3>1. hand'[c] = [hand[c] EXCEPT !.proof = p]
      BY <1>0, <2>2, <2>3 DEF TypeOK, Holding
    <3>2. hand'[c].item = hand[c].item /\ hand'[c].proof = p
      BY <2>1, <3>1 DEF Handle
    <3>3. items'[hand[c].item].state = "active" /\ items'[hand[c].item].proof = p
      BY <1>0, <2>1, <2>2 DEF TypeOK, Updated, Handle
    <3> QED BY <2>3, <3>2, <3>3 DEF Proves
  <2>4. CASE d # c
    <3>1. hand'[d] = hand[d]
      BY <1>0, <2>2, <2>4 DEF TypeOK
    <3>2. Proves(d) /\ hand[d] \in Handle
      BY <1>0, <3>1, HoldingIsHandle DEF LatestProves, Holding
    <3>3. hand[d].item # hand[c].item
      BY <2>1, <2>4, <3>2 DEF Proves, OInv, IInv, HandlesDiffer
    <3>4. items'[hand[d].item] = items[hand[d].item]
      BY <1>0, <2>2, <3>2, <3>3 DEF TypeOK, Handle
    <3> QED BY <3>1, <3>2, <3>4, StillProves DEF Proves
  <2> QED BY <2>3, <2>4
<1>4. ASSUME NEW c \in Claimants, NEW state \in {"stopped", "queued"},
             NEW l \in {Null, RetryDelay}, Settle(c, state, l)
      PROVE  LatestProves'
  <2> SUFFICES ASSUME NEW d \in Claimants, Holding(d)', ~hand'[d].stale PROVE Proves(d)'
    BY DEF LatestProves
  <2>1. d # c /\ hand'[d] = hand[d]
    BY <1>0, <1>4 DEF Settle, TypeOK, Holding
  <2>2. Proves(c) /\ Proves(d) /\ hand[d] \in Handle
    BY <1>0, <1>4, <2>1, HoldingIsHandle DEF Settle, LatestProves, Holding
  <2>3. hand[d].item # hand[c].item
    BY <2>1, <2>2 DEF Proves, OInv, IInv, HandlesDiffer
  <2>4. items'[hand[d].item] = items[hand[d].item]
    BY <1>0, <1>4, <2>2, <2>3 DEF Settle, TypeOK, Handle
  <2> QED BY <2>1, <2>2, <2>4, StillProves DEF Proves
<1>5. ASSUME NEW c \in Claimants, LoseLease(c) \/ Abandon(c) PROVE LatestProves'
  <2> SUFFICES ASSUME NEW d \in Claimants, Holding(d)', ~hand'[d].stale PROVE Proves(d)'
    BY DEF LatestProves
  <2>1. hand'[d] = hand[d] /\ items' = items
    BY <1>0, <1>5 DEF LoseLease, Abandon, TypeOK, Holding
  <2>2. Proves(d)
    BY <1>0, <2>1 DEF LatestProves, Holding
  <2> QED BY <2>1, <2>2, StillProves DEF Proves
<1>6. ASSUME NEW c \in Claimants, NEW i \in Items, Claim(c, i) PROVE LatestProves'
  <2> SUFFICES ASSUME NEW d \in Claimants, Holding(d)', ~hand'[d].stale PROVE Proves(d)'
    BY DEF LatestProves
  <2>1. PICK p \in FreshProofs :
          /\ items' = [items EXCEPT ![i] = Updated(i, "active", TTL, p)]
          /\ hand' = [Outdated({i}) EXCEPT ![c] = [item |-> i, proof |-> p, stale |-> FALSE]]
    BY <1>6 DEF Claim
  <2>2. CASE d = c
    <3>1. hand'[c] = [item |-> i, proof |-> p, stale |-> FALSE]
      BY <2>1 DEF Outdated
    <3>2. items'[i].state = "active" /\ items'[i].proof = p
      BY <1>0, <2>1 DEF TypeOK, Updated
    <3> QED BY <2>2, <3>1, <3>2 DEF Proves
  <2>3. CASE d # c
    <3>1. hand'[d] = Outdated({i})[d]
      BY <2>1, <2>3 DEF Outdated
    <3>2. hand'[d] = hand[d] /\ Holding(d) /\ hand[d].item # i
      <4>1. CASE Holding(d) /\ hand[d].item = i
        <5>1. hand[d] \in Handle
          BY <4>1, <1>0, HoldingIsHandle
        <5> QED BY <3>1, <4>1, <5>1 DEF Outdated, Handle
      <4>2. CASE ~(Holding(d) /\ hand[d].item = i)
        BY <3>1, <4>2 DEF Outdated, Holding
      <4> QED BY <4>1, <4>2
    <3>3. Proves(d) /\ hand[d] \in Handle
      BY <1>0, <3>2, HoldingIsHandle DEF LatestProves
    <3>4. items'[hand[d].item] = items[hand[d].item]
      BY <1>0, <2>1, <3>2, <3>3 DEF TypeOK, Handle
    <3> QED BY <3>2, <3>3, <3>4, StillProves DEF Proves
  <2> QED BY <2>2, <2>3
<1>7. ASSUME Tick PROVE LatestProves'
  <2> SUFFICES ASSUME NEW d \in Claimants, Holding(d)', ~hand'[d].stale PROVE Proves(d)'
    BY DEF LatestProves
  <2>1. hand' = hand
    BY <1>7 DEF Tick
  <2>2. Proves(d) /\ hand[d] \in Handle
    BY <1>0, <2>1, HoldingIsHandle DEF LatestProves, Holding
  <2>3. /\ items'[hand[d].item].state = items[hand[d].item].state
        /\ items'[hand[d].item].proof = items[hand[d].item].proof
    BY <1>0, <1>7, <2>2 DEF Tick, TypeOK, Row, Handle
  <2> QED BY <2>1, <2>2, <2>3, StillProves DEF Proves
<1>8. CASE UNCHANGED vars
  BY <1>0, <1>8 DEF vars, LatestProves, Proves, Holding
<1>9. CASE Step
  BY <1>1, <1>2, <1>3, <1>4, <1>5, <1>7, <1>9
     DEF Step, CancelSession, CancelThread, renewLive, Complete, Requeue, RequeueAfter
<1> QED BY <1>6, <1>8, <1>9 DEF Next

\* The refinement's invariant holds throughout.
LEMMA OwnershipInvariant == Spec => []OInv
<1>1. Init => LatestProves /\ RowsHaveSlots
  BY DEF Init, LatestProves, RowsHaveSlots, Holding
<1>2. IInv /\ (LatestProves /\ RowsHaveSlots) /\ [Next]_vars => (LatestProves /\ RowsHaveSlots)'
  <2> SUFFICES ASSUME IInv, LatestProves, RowsHaveSlots, [Next]_vars
               PROVE  LatestProves' /\ RowsHaveSlots'
    OBVIOUS
  <2>1. OInv /\ TypeOK
    BY DEF OInv, IInv
  <2> QED BY <2>1, LatestPreserved, RowsPreserved
<1>3. IInv /\ (LatestProves /\ RowsHaveSlots) => OInv
  BY DEF OInv
<1> QED BY <1>1, <1>2, <1>3, Invariant, PTL DEF Spec

-----------------------------------------------------------------------------
\* Rows that keep their slot and stay live or dead leave the asked slots alone.
LEMMA AskedKept ==
    ASSUME \A i \in Items : /\ Live(i)' = Live(i)
                            /\ Live(i) => items'[i].slot = items[i].slot
    PROVE  AskedSlots' = AskedSlots
BY DEF AskedSlots

\* Latest claims that stay, each with its row's slot, leave the owners alone.
LEMMA OwnersKept ==
    ASSUME \A c \in Claimants :
               /\ (Holding(c) /\ ~hand[c].stale)' = (Holding(c) /\ ~hand[c].stale)
               /\ Holding(c) /\ ~hand[c].stale
                      => items'[hand'[c].item].slot = items[hand[c].item].slot
    PROVE  OwnerOf' = OwnerOf
BY DEF OwnerOf, OwnersOf

\* The row of a latest claim is an active one, of a slot.
LEMMA LatestHasSlot ==
    ASSUME OInv, NEW c \in Claimants, Holding(c), ~hand[c].stale
    PROVE  /\ hand[c] \in Handle /\ hand[c].item \in Items
           /\ items[hand[c].item].state = "active"
           /\ items[hand[c].item].slot \in Slots
<1>1. hand[c] \in Handle
  BY HoldingIsHandle DEF OInv, IInv
<1>2. items[hand[c].item].state = "active"
  BY DEF OInv, LatestProves, Proves
<1> QED BY <1>1, <1>2 DEF OInv, RowsHaveSlots, Handle

\* When the one owner of a slot lets go of it, the slot has none.
LEMMA OwnerGone ==
    ASSUME OInv, NEW c \in Claimants, Holding(c), ~hand[c].stale, ~Holding(c)',
           NEW s \in Slots, items[hand[c].item].slot = s,
           \A d \in Claimants \ {c} : hand'[d] = hand[d],
           \A i \in Items : items'[i].slot = items[i].slot
    PROVE  OwnerOf[s] = {c} /\ OwnerOf' = [OwnerOf EXCEPT ![s] = {}]
<1>1. \A d \in Claimants : Holding(d) => hand[d] \in Handle
  BY HoldingIsHandle DEF OInv, IInv
<1>3. \A d \in Claimants : Holding(d) /\ ~hand[d].stale /\ items[hand[d].item].slot = s => d = c
  BY OneLatest
<1>4. OwnersOf(s) = {c}
  BY <1>3 DEF OwnersOf
<1>5. OwnersOf(s)' = {}
  <2> SUFFICES ASSUME NEW d \in Claimants, Holding(d)', ~hand'[d].stale, items'[hand'[d].item].slot = s
               PROVE  FALSE
    BY DEF OwnersOf
  <2>1. d # c /\ hand'[d] = hand[d]
    OBVIOUS
  <2>2. Holding(d) /\ hand[d] \in Handle
    BY <1>1, <2>1 DEF Holding
  <2>3. items[hand[d].item].slot = s
    BY <2>1, <2>2 DEF Handle
  <2> QED BY <1>3, <2>1, <2>2, <2>3
<1>6. ASSUME NEW t \in Slots, t # s PROVE OwnersOf(t)' = OwnersOf(t)
  <2>1. ASSUME NEW d \in Claimants PROVE d \in OwnersOf(t)' <=> d \in OwnersOf(t)
    <3>1. CASE d = c
      BY <1>6, <3>1 DEF OwnersOf
    <3>2. CASE d # c
      <4>1. hand'[d] = hand[d] /\ Holding(d)' = Holding(d)
        BY <3>2 DEF Holding
      <4>2. Holding(d) => items'[hand[d].item].slot = items[hand[d].item].slot
        BY <1>1 DEF Handle
      <4> QED BY <4>1, <4>2 DEF OwnersOf
    <3> QED BY <3>1, <3>2
  <2> QED BY <2>1 DEF OwnersOf
<1>7. OwnerOf[s] = {c}
  BY <1>4 DEF OwnerOf
<1>8. OwnerOf' = [OwnerOf EXCEPT ![s] = {}]
  BY <1>5, <1>6 DEF OwnerOf
<1> QED BY <1>7, <1>8

-----------------------------------------------------------------------------
\* An insertion asks for a slot.
LEMMA EnqueueAsks ==
    ASSUME OInv, NEW slot \in Slots, EnqueueThread(slot)
    PROVE  Owning!Ask(slot)
<1>0. TypeOK
  BY DEF OInv, IInv
<1>1. PICK i \in Items :
        /\ \A j \in Items : items[j].state = "absent" <=> j >= i
        /\ items' = [items EXCEPT ![i] = [slot |-> slot, state |-> "queued",
                                          lease |-> Null, proof |-> Null]]
  BY DEF EnqueueThread
<1>9. items[i].state = "absent"
  BY <1>1, ClaimAssumption DEF Items
<1>2. items'[i].state = "queued" /\ items'[i].slot = slot
  BY <1>0, <1>1 DEF TypeOK
<1>3. \A j \in Items \ {i} : items'[j] = items[j]
  BY <1>0, <1>1 DEF TypeOK
<1>4. slot \notin AskedSlots
  BY DEF EnqueueThread, AskedSlots
<1>5. AskedSlots' = AskedSlots \cup {slot}
  BY <1>9, <1>2, <1>3 DEF AskedSlots, Live, LiveStates
<1>6. hand' = hand
  BY DEF EnqueueThread
<1>7. \A c \in Claimants : Holding(c) /\ ~hand[c].stale => hand[c].item \in Items \ {i}
  BY <1>9, LatestHasSlot
<1>8. OwnerOf' = OwnerOf
  BY <1>3, <1>6, <1>7, OwnersKept DEF Holding
<1> QED BY <1>4, <1>5, <1>8 DEF Owning!Ask, EnqueueThread

\* A renewal, seen by its claimant, and the passage of time change nothing.
LEMMA ExtendStutters ==
    ASSUME OInv, NEW c \in Claimants, Extend(c)
    PROVE  UNCHANGED Owning!vars
<1>0. TypeOK
  BY DEF OInv, IInv
<1>1. hand[c] \in Handle /\ ~hand[c].stale /\ items[hand[c].item].state = "active"
  BY ProverIsLatest DEF Extend, OInv
<1>2. PICK p \in FreshProofs :
        /\ items' = [items EXCEPT ![hand[c].item] = Updated(hand[c].item, "active", TTL, p)]
        /\ hand' = [hand EXCEPT ![c].proof = p]
  BY DEF Extend
<1>3. \A i \in Items : items'[i].slot = items[i].slot /\ items'[i].state = items[i].state
  BY <1>0, <1>1, <1>2 DEF TypeOK, Updated, Handle
<1>4. AskedSlots' = AskedSlots
  BY <1>3, AskedKept DEF Live
<1>5. hand'[c] = [hand[c] EXCEPT !.proof = p] /\ \A d \in Claimants \ {c} : hand'[d] = hand[d]
  BY <1>0, <1>2 DEF TypeOK
<1>6. p \in Proofs
  BY DEF FreshProofs
<1>7. hand'[c] \in Handle /\ hand'[c].item = hand[c].item /\ ~hand'[c].stale
  BY <1>1, <1>5, <1>6 DEF Handle
<1>8. Holding(c)' /\ Holding(c)
  BY <1>7, FreeIsNoHandle DEF Holding, Extend, Proves
<1>9. \A d \in Claimants : Holding(d) => hand[d].item \in Items
  BY <1>0, HoldingIsHandle DEF Handle
<1>10. OwnerOf' = OwnerOf
  BY <1>1, <1>3, <1>5, <1>7, <1>8, <1>9, OwnersKept DEF Holding
<1> QED BY <1>4, <1>10 DEF Owning!vars, Extend

\* A claimant that dies, and one whose renewal went unseen, lets go.
LEMMA DepartureLetsGo ==
    ASSUME OInv, NEW c \in Claimants, ExtendUnseen(c) \/ Abandon(c)
    PROVE  \E s \in Slots : Owning!LetGo(s)
<1>0. TypeOK
  BY DEF OInv, IInv
<1>1. Holding(c) /\ ~hand[c].stale /\ items[hand[c].item].state = "active"
  BY ProverIsLatest DEF ExtendUnseen, Abandon, Proves, OInv
<1>2. hand[c].item \in Items /\ items[hand[c].item].slot \in Slots
  BY <1>1, LatestHasSlot
<1>3. \A i \in Items : items'[i].slot = items[i].slot /\ items'[i].state = items[i].state
  <2>1. CASE Abandon(c)
    BY <2>1 DEF Abandon
  <2>2. CASE ExtendUnseen(c)
    <3>1. PICK p \in FreshProofs :
            items' = [items EXCEPT ![hand[c].item] = Updated(hand[c].item, "active", TTL, p)]
      BY <2>2 DEF ExtendUnseen
    <3> QED BY <3>1, <1>0, <1>1, <1>2 DEF TypeOK, Updated
  <2> QED BY <2>1, <2>2
<1>4. ~Holding(c)' /\ \A d \in Claimants \ {c} : hand'[d] = hand[d]
  BY <1>0 DEF TypeOK, Holding, ExtendUnseen, Abandon
<1>5. PICK s \in Slots : s = items[hand[c].item].slot
  BY <1>2
<1>6. OwnerOf[s] = {c} /\ OwnerOf' = [OwnerOf EXCEPT ![s] = {}]
  BY <1>1, <1>3, <1>4, <1>5, OwnerGone
<1>7. AskedSlots' = AskedSlots
  BY <1>3, AskedKept DEF Live
<1>8. wrote' = wrote
  BY DEF ExtendUnseen, Abandon
<1> QED BY <1>6, <1>7, <1>8 DEF Owning!LetGo

\* A settlement is the owner's answer.
LEMMA SettleAnswers ==
    ASSUME OInv, NEW c \in Claimants, NEW state \in {"stopped", "queued"},
           NEW l \in {Null, RetryDelay}, Settle(c, state, l)
    PROVE  \E s \in Slots : Owning!Answer(s, c)
<1>0. TypeOK /\ OneLivePerSlot
  BY DEF OInv, IInv
<1>1. Holding(c) /\ ~hand[c].stale /\ items[hand[c].item].state = "active"
  BY ProverIsLatest DEF Settle, Proves, OInv
<1>2. hand[c].item \in Items /\ items[hand[c].item].slot \in Slots
  BY <1>1, LatestHasSlot
<1>3. /\ \A i \in Items : items'[i].slot = items[i].slot
      /\ \A i \in Items : i # hand[c].item => items'[i] = items[i]
      /\ items'[hand[c].item].state = state
  BY <1>0, <1>2 DEF TypeOK, Updated, Settle
<1>4. ~Holding(c)' /\ \A d \in Claimants \ {c} : hand'[d] = hand[d]
  BY <1>0 DEF TypeOK, Holding, Settle
<1>5. PICK s \in Slots : s = items[hand[c].item].slot
  BY <1>2
<1>6. OwnerOf[s] = {c} /\ OwnerOf' = [OwnerOf EXCEPT ![s] = {}]
  BY <1>1, <1>3, <1>4, <1>5, OwnerGone
<1>7. AskedSlots' \in {AskedSlots, AskedSlots \ {s}}
  <2>1. CASE state = "queued"
    <3>1. \A i \in Items : Live(i)' = Live(i)
      BY <1>1, <1>3, <2>1 DEF Live, LiveStates
    <3> QED BY <1>3, <3>1, AskedKept
  <2>2. CASE state = "stopped"
    <3>1. \A i \in Items : Live(i)' <=> Live(i) /\ i # hand[c].item
      BY <1>1, <1>3, <2>2 DEF Live, LiveStates
    <3>2. Live(hand[c].item)
      BY <1>1 DEF Live, LiveStates
    <3>3. \A i \in Items : Live(i) /\ items[i].slot = s => i = hand[c].item
      BY <1>0, <1>2, <1>5, <3>2 DEF OneLivePerSlot
    <3> QED BY <1>2, <1>3, <1>5, <3>1, <3>3 DEF AskedSlots
  <2> QED BY <2>1, <2>2
<1>8. wrote' = [wrote EXCEPT ![s] = c]
  BY <1>5 DEF Settle
<1> QED BY <1>6, <1>7, <1>8 DEF Owning!Answer

\* Giving up a lost lease changes nothing: the slot was another's already.
LEMMA LossStutters ==
    ASSUME OInv, NEW c \in Claimants, LoseLease(c)
    PROVE  UNCHANGED Owning!vars
<1>0. TypeOK /\ LatestProves
  BY DEF OInv, IInv
<1>1. Holding(c) /\ hand[c].stale = TRUE
  <2>1. hand[c] \in Handle
    BY <1>0, HoldingIsHandle DEF LoseLease
  <2> QED BY <1>0, <2>1 DEF LoseLease, LatestProves, Handle
<1>2. ~Holding(c)' /\ items' = items /\ wrote' = wrote
  BY <1>0 DEF LoseLease, TypeOK, Holding
<1>3. \A d \in Claimants \ {c} : hand'[d] = hand[d]
  BY <1>0 DEF LoseLease, TypeOK
<1>4. OwnerOf' = OwnerOf
  BY <1>1, <1>2, <1>3, OwnersKept DEF Holding
<1>5. AskedSlots' = AskedSlots
  BY <1>2, AskedKept DEF Live
<1> QED BY <1>2, <1>4, <1>5 DEF Owning!vars

\* A cancellation withdraws the work of the slots it names.
LEMMA CancelWithdraws ==
    ASSUME OInv, NEW taken \in SUBSET Items, Cancel(taken),
           \A i \in taken : Live(i),
           \A i \in taken, j \in Items : Live(j) /\ items[j].slot = items[i].slot => j \in taken
    PROVE  \E S \in SUBSET Slots : Owning!Withdraw(S)
<1>0. TypeOK /\ RowsHaveSlots
  BY DEF OInv, IInv
<1>1. PICK S \in SUBSET Slots : S = {s \in Slots : \E i \in taken : items[i].slot = s}
  OBVIOUS
<1>2. \A i \in taken : items[i].slot \in S
  BY <1>0, <1>1 DEF RowsHaveSlots, Live, LiveStates
<1>3. S # {} /\ S \subseteq AskedSlots
  BY <1>1, <1>2 DEF Cancel, AskedSlots
<1>4. \A j \in Items : Live(j) /\ items[j].slot \in S => j \in taken
  BY <1>1
<1>5. /\ \A i \in taken : items'[i].state = "stopped"
      /\ \A i \in Items \ taken : items'[i] = items[i]
      /\ \A i \in Items : items'[i].slot = items[i].slot
  BY DEF Cancel, Updated
<1>6. \A i \in Items : Live(i)' <=> Live(i) /\ i \notin taken
  BY <1>5 DEF Live, LiveStates
<1>7. AskedSlots' = AskedSlots \ S
  BY <1>2, <1>4, <1>5, <1>6 DEF AskedSlots
<1>8. \A c \in Claimants :
        /\ Holding(c)' /\ ~hand'[c].stale <=> Holding(c) /\ ~hand[c].stale /\ hand[c].item \notin taken
        /\ Holding(c) /\ hand[c].item \notin taken => hand'[c] = hand[c]
  <2> SUFFICES ASSUME NEW c \in Claimants
               PROVE  /\ Holding(c)' /\ ~hand'[c].stale
                           <=> Holding(c) /\ ~hand[c].stale /\ hand[c].item \notin taken
                      /\ Holding(c) /\ hand[c].item \notin taken => hand'[c] = hand[c]
    OBVIOUS
  <2>1. hand'[c] = Outdated(taken)[c]
    BY DEF Cancel
  <2>2. CASE Holding(c) /\ hand[c].item \in taken
    <3>1. hand[c] \in Handle
      BY <1>0, <2>2, HoldingIsHandle
    <3>2. hand'[c].stale = TRUE
      BY <2>1, <2>2, <3>1 DEF Outdated, Handle
    <3> QED BY <2>2, <3>2
  <2>3. CASE ~(Holding(c) /\ hand[c].item \in taken)
    BY <2>1, <2>3 DEF Outdated, Holding
  <2> QED BY <2>2, <2>3
<1>9. \A c \in Claimants : Holding(c) /\ ~hand[c].stale =>
        /\ hand[c].item \in Items
        /\ hand[c].item \in taken <=> items[hand[c].item].slot \in S
  <2> SUFFICES ASSUME NEW c \in Claimants, Holding(c), ~hand[c].stale
               PROVE  /\ hand[c].item \in Items
                      /\ hand[c].item \in taken <=> items[hand[c].item].slot \in S
    OBVIOUS
  <2>1. hand[c].item \in Items /\ items[hand[c].item].state = "active"
    BY LatestHasSlot
  <2>2. Live(hand[c].item)
    BY <2>1 DEF Live, LiveStates
  <2> QED BY <1>2, <1>4, <2>1, <2>2
<1>10. \A s \in Slots : OwnersOf(s)' = IF s \in S THEN {} ELSE OwnersOf(s)
  <2> SUFFICES ASSUME NEW s \in Slots, NEW c \in Claimants
               PROVE  c \in OwnersOf(s)' <=> s \notin S /\ c \in OwnersOf(s)
    BY DEF OwnersOf
  <2>1. CASE Holding(c) /\ ~hand[c].stale /\ hand[c].item \notin taken
    BY <1>5, <1>8, <1>9, <2>1 DEF OwnersOf
  <2>2. CASE ~(Holding(c) /\ ~hand[c].stale /\ hand[c].item \notin taken)
    BY <1>8, <1>9, <2>2 DEF OwnersOf
  <2> QED BY <2>1, <2>2
<1>11. OwnerOf' = [s \in Slots |-> IF s \in S THEN {} ELSE OwnerOf[s]]
  BY <1>10 DEF OwnerOf
<1> QED BY <1>3, <1>7, <1>11 DEF Owning!Withdraw, Cancel

\* A claim takes a slot over.
LEMMA ClaimTakes ==
    ASSUME OInv, NEW c \in Claimants, NEW i \in Items, Claim(c, i)
    PROVE  \E s \in Slots : Owning!Take(s, c)
<1>0. TypeOK /\ OneLivePerSlot /\ RowsHaveSlots
  BY DEF OInv, IInv
<1>1. PICK p \in FreshProofs :
        /\ items' = [items EXCEPT ![i] = Updated(i, "active", TTL, p)]
        /\ hand' = [Outdated({i}) EXCEPT ![c] = [item |-> i, proof |-> p, stale |-> FALSE]]
  BY DEF Claim
<1>2. Live(i) /\ items[i].slot \in Slots
  BY <1>0 DEF Claim, Claimable, Live, LiveStates, RowsHaveSlots
<1>3. /\ items'[i].state = "active"
      /\ \A j \in Items \ {i} : items'[j] = items[j]
      /\ \A j \in Items : items'[j].slot = items[j].slot
  BY <1>0, <1>1 DEF TypeOK, Updated
<1>4. AskedSlots' = AskedSlots
  BY <1>2, <1>3, AskedKept DEF Live, LiveStates
<1>5. PICK s \in Slots : s = items[i].slot
  BY <1>2
<1>6. ~Holding(c)
  BY DEF Claim
<1>7. \A t \in Slots : c \notin OwnerOf[t]
  BY <1>6 DEF OwnerOf, OwnersOf
<1>8. hand'[c] = [item |-> i, proof |-> p, stale |-> FALSE]
  BY <1>1 DEF Outdated
<1>9. Holding(c)' /\ ~hand'[c].stale /\ hand'[c].item = i
  <2>1. p \in Proofs
    BY DEF FreshProofs
  <2>2. hand'[c] \in Handle
    BY <1>8, <2>1 DEF Handle
  <2>3. Holding(c)'
    BY <2>2, FreeIsNoHandle DEF Holding
  <2> QED BY <1>8, <2>3
<1>10. \A d \in Claimants \ {c} :
        /\ Holding(d)' /\ ~hand'[d].stale <=> Holding(d) /\ ~hand[d].stale /\ hand[d].item # i
        /\ Holding(d) /\ hand[d].item # i => hand'[d] = hand[d]
  <2> SUFFICES ASSUME NEW d \in Claimants \ {c}
               PROVE  /\ Holding(d)' /\ ~hand'[d].stale
                           <=> Holding(d) /\ ~hand[d].stale /\ hand[d].item # i
                      /\ Holding(d) /\ hand[d].item # i => hand'[d] = hand[d]
    OBVIOUS
  <2>1. hand'[d] = Outdated({i})[d]
    BY <1>1 DEF Outdated
  <2>2. CASE Holding(d) /\ hand[d].item = i
    <3>1. hand[d] \in Handle
      BY <1>0, <2>2, HoldingIsHandle
    <3>2. hand'[d].stale = TRUE
      BY <2>1, <2>2, <3>1 DEF Outdated, Handle
    <3> QED BY <2>2, <3>2
  <2>3. CASE ~(Holding(d) /\ hand[d].item = i)
    BY <2>1, <2>3 DEF Outdated, Holding
  <2> QED BY <2>2, <2>3
<1>11. \A d \in Claimants : Holding(d) /\ ~hand[d].stale =>
        /\ hand[d].item \in Items
        /\ hand[d].item = i <=> items[hand[d].item].slot = s
  <2> SUFFICES ASSUME NEW d \in Claimants, Holding(d), ~hand[d].stale
               PROVE  /\ hand[d].item \in Items
                      /\ hand[d].item = i <=> items[hand[d].item].slot = s
    OBVIOUS
  <2>1. hand[d].item \in Items /\ items[hand[d].item].state = "active"
    BY LatestHasSlot
  <2>2. Live(hand[d].item)
    BY <2>1 DEF Live, LiveStates
  <2> QED BY <1>0, <1>2, <1>5, <2>1, <2>2 DEF OneLivePerSlot
<1>12. OwnersOf(s)' = {c}
  <2>1. c \in OwnersOf(s)'
    BY <1>3, <1>5, <1>9 DEF OwnersOf
  <2>2. ASSUME NEW d \in Claimants \ {c} PROVE d \notin OwnersOf(s)'
    BY <1>3, <1>10, <1>11 DEF OwnersOf
  <2> QED BY <2>1, <2>2 DEF OwnersOf
<1>13. \A t \in Slots \ {s} : OwnersOf(t)' = OwnersOf(t)
  <2> SUFFICES ASSUME NEW t \in Slots \ {s}, NEW d \in Claimants
               PROVE  d \in OwnersOf(t)' <=> d \in OwnersOf(t)
    BY DEF OwnersOf
  <2>1. CASE d = c
    BY <1>3, <1>5, <1>6, <1>9, <2>1 DEF OwnersOf
  <2>2. CASE d # c
    BY <1>3, <1>10, <1>11, <2>2 DEF OwnersOf
  <2> QED BY <2>1, <2>2
<1>14. OwnerOf' = [OwnerOf EXCEPT ![s] = {c}]
  BY <1>12, <1>13 DEF OwnerOf
<1>15. s \in AskedSlots
  BY <1>2, <1>5 DEF AskedSlots
<1> QED BY <1>4, <1>7, <1>14, <1>15 DEF Owning!Take, Claim

\* The passage of time changes nothing.
LEMMA TickStutters ==
    ASSUME OInv, Tick
    PROVE  UNCHANGED Owning!vars
<1>0. TypeOK
  BY DEF OInv, IInv
<1>1. \A i \in Items : items'[i].slot = items[i].slot /\ items'[i].state = items[i].state
  BY <1>0 DEF Tick, TypeOK, Row
<1>2. hand' = hand /\ wrote' = wrote
  BY DEF Tick
<1>3. \A c \in Claimants : Holding(c) => hand[c].item \in Items
  BY <1>0, HoldingIsHandle DEF Handle
<1>4. AskedSlots' = AskedSlots
  BY <1>1, AskedKept DEF Live
<1>5. OwnerOf' = OwnerOf
  BY <1>1, <1>2, <1>3, OwnersKept DEF Holding
<1> QED BY <1>2, <1>4, <1>5 DEF Owning!vars

\* A step of SlotOwnership, or one that changes nothing of it.
Refined == [Owning!Next]_(Owning!vars)

\* Every step of the lane is one of SlotOwnership or changes nothing of it.
LEMMA StepsRefine ==
    ASSUME OInv, [Next]_vars
    PROVE  [Owning!Next]_(Owning!vars)
<1> SUFFICES Refined
  BY DEF Refined
<1>1. ASSUME NEW slot \in Slots, EnqueueThread(slot) PROVE Refined
  BY <1>1, EnqueueAsks DEF Refined, Owning!Next
<1>2. ASSUME NEW taken \in SUBSET Items, Cancel(taken),
             \A i \in taken : Live(i),
             \A i \in taken, j \in Items : Live(j) /\ items[j].slot = items[i].slot => j \in taken
      PROVE  Refined
  <2>1. \E S \in SUBSET Slots : Owning!Withdraw(S)
    BY <1>2, CancelWithdraws
  <2> QED BY <2>1 DEF Refined, Owning!Next
<1>3. ASSUME NEW s \in Sessions, CancelSession(s) PROVE Refined
  BY <1>2, <1>3 DEF CancelSession
<1>4. ASSUME NEW slot \in Slots, CancelThread(slot) PROVE Refined
  BY <1>2, <1>4 DEF CancelThread
<1>5. ASSUME NEW c \in Claimants, Extend(c) PROVE Refined
  BY <1>5, ExtendStutters DEF Refined
<1>6. ASSUME NEW c \in Claimants, ExtendUnseen(c) \/ Abandon(c) PROVE Refined
  <2>1. \E s \in Slots : Owning!LetGo(s)
    BY <1>6, DepartureLetsGo
  <2> QED BY <2>1 DEF Refined, Owning!Next
<1>7. ASSUME NEW c \in Claimants, NEW state \in {"stopped", "queued"},
             NEW l \in {Null, RetryDelay}, Settle(c, state, l)
      PROVE  Refined
  <2>1. \E s \in Slots : Owning!Answer(s, c)
    BY <1>7, SettleAnswers
  <2> QED BY <2>1 DEF Refined, Owning!Next
<1>8. ASSUME NEW c \in Claimants, LoseLease(c) PROVE Refined
  BY <1>8, LossStutters DEF Refined
<1>9. ASSUME NEW c \in Claimants, NEW i \in Items, Claim(c, i) PROVE Refined
  <2>1. \E s \in Slots : Owning!Take(s, c)
    BY <1>9, ClaimTakes
  <2> QED BY <2>1 DEF Refined, Owning!Next
<1>10. ASSUME Tick PROVE Refined
  BY <1>10, TickStutters DEF Refined
<1>11. CASE UNCHANGED vars
  <2>1. AskedSlots' = AskedSlots
    BY <1>11 DEF vars, AskedSlots, Live
  <2>2. OwnerOf' = OwnerOf
    BY <1>11 DEF vars, OwnerOf, OwnersOf, Holding
  <2> QED BY <1>11, <2>1, <2>2 DEF Refined, vars, Owning!vars
<1>12. CASE Step
  <2>1. CASE \E slot \in Slots : EnqueueThread(slot) \/ CancelThread(slot)
    BY <2>1, <1>1, <1>4
  <2>2. CASE \E s \in Sessions : CancelSession(s)
    BY <2>2, <1>3
  <2>3. CASE Tick
    BY <2>3, <1>10
  <2>4. ASSUME NEW c \in Claimants,
               \/ Extend(c) \/ renewLive(c) \/ ExtendUnseen(c)
               \/ Complete(c) \/ Requeue(c) \/ RequeueAfter(c)
               \/ LoseLease(c) \/ Abandon(c)
        PROVE  Refined
    BY <2>4, <1>5, <1>6, <1>7, <1>8 DEF renewLive, Complete, Requeue, RequeueAfter
  <2> QED BY <1>12, <2>1, <2>2, <2>3, <2>4 DEF Step
<1> QED BY <1>9, <1>11, <1>12 DEF Next

\* The claim lane implements SlotOwnership, whatever the number of claimants and
\* the order of claims, renewals, settlements, losses, cancellations and lapses:
\* a slot has at most one owner at any time, and a result is written only by the
\* claimant that owns the slot when it is written.
THEOREM LaneImplementsOwnership == Spec => Ownership
<1>1. Init => Owning!Init
  <2> SUFFICES ASSUME Init PROVE Owning!Init
    OBVIOUS
  <2>1. AskedSlots = {}
    BY DEF Init, AskedSlots, Live, LiveStates
  <2>2. OwnerOf = [s \in Slots |-> {}]
    BY DEF Init, OwnerOf, OwnersOf, Holding
  <2> QED BY <2>1, <2>2 DEF Init, Owning!Init
<1>2. OInv /\ [Next]_vars => [Owning!Next]_(Owning!vars)
  BY StepsRefine
<1> QED BY <1>1, <1>2, OwnershipInvariant, PTL DEF Spec, Ownership, Owning!Spec
=============================================================================
