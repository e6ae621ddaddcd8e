------------------------------- MODULE MCFeed -------------------------------
(***************************************************************************)
(* An instance of the complete feed: nodes of two items, paths of three    *)
(* binary slots, keys a and e with the same path.                          *)
(***************************************************************************)
EXTENDS FeedInv

MCPath == [a |-> <<0, 0, 0>>, b |-> <<0, 0, 1>>, c |-> <<0, 1, 0>>,
           d |-> <<1, 0, 0>>, e |-> <<0, 0, 0>>, f |-> <<1, 0, 1>>]

MCKey == DOMAIN MCPath

MCSize == [k \in MCKey |-> IF k = "b" THEN 2 ELSE 1]

Small      == [events |-> 3, bytes |-> 1]
Two        == [events |-> 2, bytes |-> 9]
MCFullPage == [events |-> 9, bytes |-> 2]
MCLimit    == {Small, Two, MCFullPage}
=============================================================================
