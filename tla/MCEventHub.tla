----------------------------- MODULE MCEventHub -----------------------------
(* A finite instance of EventHub: two watchers, which is what it takes for *)
(* one to hold up, overtake or join beside another.                        *)
EXTENDS EventHub

CONSTANTS s1, s2

TwoSubscribers == {s1, s2}
=============================================================================
