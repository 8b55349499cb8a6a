------------------------- MODULE MCGraphProjection -------------------------
(* A Source with a full feed and one with a delta feed, observing the same  *)
(* host, which the first places on a host that nobody lists yet.            *)
EXTENDS GraphProjection

CONSTANTS full, delta, h1, h2

MCEdges == {<<h1, h2>>}
MCFirst == [s \in Sources |->
              [hosts |-> {h1}, edges |-> IF s = full THEN MCEdges ELSE {}]]
=============================================================================
