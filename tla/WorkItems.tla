---------------------------- MODULE WorkItems ----------------------------
(***************************************************************************)
(* The work_items table of internal/queue, as both of its lanes use it:    *)
(* the dedup slots, the states, and the leases as the time they have left. *)
(*                                                                         *)
(* A row's lane is fixed when it is inserted: a tool_exec row of a         *)
(* self_hosted environment is served by Poll (module WireLane), every      *)
(* other row by Claim (module ClaimLane).                                  *)
(***************************************************************************)
EXTENDS Integers

CONSTANT Null     \* SQL NULL

ASSUME NullAssumption == Null \notin Nat

\* The states of a row; "absent" is an id no row was inserted under.
States == {"absent", "queued", "starting", "active", "stopping", "stopped"}

\* The states the partial unique index covers: an Enqueue whose slot has such
\* a row does nothing.
LiveStates == {"queued", "starting", "active"}

\* lease_expires_at < now().  A lease is the time it has left, so now() itself
\* is no part of the state; a lease of 0 has lapsed.
Lapsed(lease) == lease = 0

\* lease_expires_at IS NULL OR lease_expires_at < now().
Available(lease) == lease = Null \/ Lapsed(lease)

\* One unit of time passes for a lease, or for any other count-down.
Aged(lease) == IF lease \in Nat /\ lease > 0 THEN lease - 1 ELSE lease

==========================================================================
