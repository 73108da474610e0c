-------------------------- MODULE SlotOwnership --------------------------
(***************************************************************************)
(* What internal/queue promises to those who put work into a slot and to   *)
(* those who do it, with nothing of rows, states, leases and timestamps:   *)
(* a slot is asked for once however often it is enqueued; an asked slot    *)
(* has at most one owner, whom it may be taken from at any time and whom   *)
(* nobody need tell; and a slot's session is given a result only by the    *)
(* one who owns the slot when the result is written.                       *)
(*                                                                         *)
(* ClaimLane implements it (ClaimLane!Ownership).                          *)
(***************************************************************************)
CONSTANTS Slots, Claimants, Null

VARIABLES
    asked,        \* the slots that have work
    owner,        \* {c} when c owns the slot, {} when nobody does
    result        \* whose result each slot's session was last given

vars == <<asked, owner, result>>

Init == /\ asked = {}
        /\ owner = [s \in Slots |-> {}]
        /\ result = [s \in Slots |-> Null]

\* Work is put into a slot that has none.
Ask(s) == /\ s \notin asked
          /\ asked' = asked \cup {s}
          /\ UNCHANGED <<owner, result>>

\* Someone who owns nothing takes a slot over, from nobody or from its owner.
Take(s, c) == /\ s \in asked
              /\ \A t \in Slots : c \notin owner[t]
              /\ owner' = [owner EXCEPT ![s] = {c}]
              /\ UNCHANGED <<asked, result>>

\* An owner lets go of its slot and leaves the work for another.
LetGo(s) == /\ owner[s] # {}
            /\ owner' = [owner EXCEPT ![s] = {}]
            /\ UNCHANGED <<asked, result>>

\* The owner's result is written, and with it the work is done or is asked for
\* once more.
Answer(s, c) == /\ owner[s] = {c}
                /\ result' = [result EXCEPT ![s] = c]
                /\ owner' = [owner EXCEPT ![s] = {}]
                /\ asked' \in {asked, asked \ {s}}

\* Work is withdrawn, whoever owns it.
Withdraw(S) == /\ S # {} /\ S \subseteq asked
               /\ asked' = asked \ S
               /\ owner' = [s \in Slots |-> IF s \in S THEN {} ELSE owner[s]]
               /\ UNCHANGED result

Next == \/ \E s \in Slots : Ask(s) \/ LetGo(s)
        \/ \E s \in Slots, c \in Claimants : Take(s, c) \/ Answer(s, c)
        \/ \E S \in SUBSET Slots : Withdraw(S)

Spec == Init /\ [][Next]_vars

==========================================================================
