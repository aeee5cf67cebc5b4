------------------------- MODULE LeastRecentlyUsed -------------------------
(***************************************************************************)
(* What a bounded store of documents promises: it keeps the Capacity       *)
(* documents that were used last.                                          *)
(***************************************************************************)
EXTENDS FiniteSets, Naturals

CONSTANTS Document, Capacity

VARIABLE recency  \* <<d, e>>: both are kept, and d was used no earlier than e

Kept == {d \in Document : <<d, d>> \in recency}

Without(d) == {p \in recency : p[1] # d /\ p[2] # d}
Foremost(d) == Without(d) \cup ({d} \X (Kept \cup {d}))

\* The documents of an order that fewer than Capacity others are ahead of.
Ahead(order, e) == {d \in Document \ {e} : <<d, e>> \in order}
First(order) == {e \in Document : Cardinality(Ahead(order, e)) < Capacity}

Init == recency = {}

\* A use moves the document to the front and may push out the last one.
Use(d) == recency' = Foremost(d) \cap (First(Foremost(d)) \X First(Foremost(d)))

Drop(d) == recency' = Without(d)

DropAll == recency' = {}

Next == DropAll \/ \E d \in Document : Use(d) \/ Drop(d)

Spec == Init /\ [][Next]_recency
============================================================================
