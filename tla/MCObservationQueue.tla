------------------------- MODULE MCObservationQueue -------------------------
(* Two senders, two payloads and two rows: the rows hold one payload twice *)
(* or one each, and each can be fetched twice, retried and swept.          *)
EXTENDS ObservationQueue, TLC

CONSTANTS p1, p2, s1, s2

MCPayloads == {p1, p2}
MCSenders == {s1, s2}

Symmetry == Permutations(MCPayloads) \cup Permutations(MCSenders)
=============================================================================
