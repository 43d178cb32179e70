------------------------------ MODULE Checkpoint ------------------------------
(* What the manifest promises to the rest of the store: one durable register  *)
(* that a commit replaces atomically.  A power loss in the middle of a commit  *)
(* leaves the previous content or the new one; so does a commit that fails     *)
(* with an I/O error, but from then until a commit succeeds nothing is         *)
(* promised: the next failure may bring back any content, or lose it for good. *)

CONSTANTS Values, Lost

VARIABLES
    durable,   \* what the next init() will find
    working,   \* the content in memory
    open,      \* is the store running?
    reliable   \* did the last commit succeed?

vars == <<durable, working, open, reliable>>

Init == open = FALSE /\ durable \in Values /\ working = durable /\ reliable = TRUE

Load ==
    /\ ~open /\ open' = TRUE
    /\ durable # Lost
    /\ reliable' = TRUE
    /\ UNCHANGED <<durable, working>>

Change == open /\ working' \in Values /\ UNCHANGED <<durable, open, reliable>>

Save == open /\ durable' = working /\ reliable' = TRUE /\ UNCHANGED <<working, open>>

\* What an unfinished commit leaves.
Unfinished ==
    durable' \in IF reliable THEN {durable, working} ELSE Values \cup {Lost}

SaveFails == open /\ Unfinished /\ reliable' = FALSE /\ UNCHANGED <<working, open>>

PowerLoss ==
    /\ open
    /\ open' = FALSE
    /\ Unfinished
    /\ working' = durable'
    /\ UNCHANGED reliable

Next == Load \/ Change \/ Save \/ SaveFails \/ PowerLoss

Spec == Init /\ [][Next]_vars
=============================================================================
