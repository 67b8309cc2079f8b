--------------------------- MODULE MCEventSession ---------------------------
(* EventSession on small instances for TLC. *)
EXTENDS EventSession, TLC

CONSTANTS A, B

\* No action names a particular map.
Symmetry == Permutations(Maps)

\* Bound of the safety run: the runs its properties except, in which the reader's
\* transfer has overlapped an event or an interaction was dropped, are followed
\* up to the last entry into a map, and not when they are both.
Excepted == /\ raced \/ dropped => mapGen < MaxGen
            /\ ~(raced /\ dropped)

\* Bounds of the run with liveness properties: the same symmetry, for only
\* behaviours that enter A first are explored, the others being their images;
\* and no interaction is dropped, which only leaves the client locked.
EntersAFirst == mapGen = 0 => dest[Reader] # B
NoneDropped == ~dropped
=============================================================================
