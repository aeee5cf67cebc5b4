------------------------- MODULE LatestRequestWins -------------------------
(***************************************************************************)
(* What the background diagnostics worker promises its caller, without     *)
(* threads, tokens or states: a request box with one slot.  A new request  *)
(* replaces one that nobody serves yet, requests are served one at a time  *)
(* and in order, and closing the box empties the slot for good.            *)
(***************************************************************************)
EXTENDS Naturals

VARIABLES latest,   \* number of the last request (closing takes a number too)
          slot,     \* the request waiting to be served, if any
          serving,  \* the request being served, if any
          closed

vars == <<latest, slot, serving, closed>>

Init == latest = 0 /\ slot = {} /\ serving = {} /\ closed = FALSE

Request ==
  /\ ~closed
  /\ latest' = latest + 1
  /\ slot' = {latest + 1}
  /\ UNCHANGED <<serving, closed>>

Serve ==
  /\ slot # {}
  /\ serving = {}
  /\ serving' = slot
  /\ slot' = {}
  /\ UNCHANGED <<latest, closed>>

Finish ==
  /\ serving # {}
  /\ serving' = {}
  /\ UNCHANGED <<latest, slot, closed>>

Close ==
  /\ closed' = TRUE
  /\ latest' = latest + 1
  /\ slot' = {}
  /\ UNCHANGED serving

Next == Request \/ Serve \/ Finish \/ Close

SafeSpec == Init /\ [][Next]_vars

\* What is in the slot is served or replaced, and what is served ends.
Fairness == WF_vars(Serve) /\ WF_vars(Finish)

Spec == SafeSpec /\ Fairness
============================================================================
