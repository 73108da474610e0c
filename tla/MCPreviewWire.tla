--------------------------- MODULE MCPreviewWire ----------------------------
(***************************************************************************)
(* Two instances that share no state, in one run: a stream that previews a *)
(* turn, and the work items of a self-hosted environment.  part says which *)
(* of the two a behaviour is of.                                           *)
(***************************************************************************)
EXTENDS MCEventStream, TLC

CONSTANTS Null, Workers, Calls, WireRows, Reclaim, StartupTTL, WireTTL, WindDown

VARIABLES part, rows, calls, crew

Wire == INSTANCE WireLane WITH MaxRows <- WireRows, TTL <- WireTTL

wireVars == <<rows, calls, crew>>

EitherInit == part \in {"preview", "wire"} /\ Init /\ Wire!Init

EitherNext ==
    \/ part = "preview" /\ Next /\ UNCHANGED <<part, wireVars>>
    \/ part = "wire" /\ Wire!Next /\ UNCHANGED <<part, vars>>

EitherSpec == EitherInit /\ [][EitherNext]_<<part, wireVars, vars>>

\* The workers are interchangeable.
Symm == Permutations(Workers)

\* WireLane: one worker at a time holds a work id, an open call has an item
\* that will run it, and an abandoned item is finalized only once its token is
\* dead.
WireServesCalls ==
    /\ [](part = "wire" => Wire!OneWorkerPerId /\ Wire!NoCallStranded)
    /\ Wire!FinalizerOutwaitsToken
=============================================================================
