------------------------- MODULE MCEventStream --------------------------
(* Small instances of EventStream, for TLC. *)
EXTENDS EventStream

OneSurface == [s \in Streams |-> Primary]
BothPreviews == [s \in Streams |-> {"message", "thinking"}]

\* A row of either thread, and a child's tool call, which the session's surface
\* shows where the environment is self_hosted.
SomeRows == {[thread |-> t, crossPosted |-> FALSE, tool |-> "none", preview |-> 0] : t \in Threads}
            \cup [thread : Threads \ {Primary}, crossPosted : {FALSE}, tool : {"call"}, preview : {0}]
==========================================================================
