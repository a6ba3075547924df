----------------------------- MODULE ZRingReset ------------------------------
(***************************************************************************)
(* z_ring::reset(), called as its comment (ring_buffer_v3.hpp:105) allows: *)
(* while neither thread is inside an operation.  It stores the two indices *)
(* and leaves cached_tail_ and cached_head_ as they are.                   *)
(***************************************************************************)
EXTENDS ZRing

Reset ==
  /\ prodPc = "idle" /\ consPc = "idle"
  /\ head' = 0 /\ tail' = 0
  /\ emptyRet' = "none"
  /\ UNCHANGED <<buffer, cached_tail, prodPc, pushArg, pushRet,
                 cached_head, consPc, value, popRet, seenHead>>

ResetSpec == Init /\ [][Next \/ Reset]_vars

\* pop() copies a tick out of the ring only if the ring holds one; otherwise
\* it takes the `return false' of ring_buffer_v3.hpp:95, marked `empty'.
PopFindsTick == consPc = "read" => Depth \in 1 .. Capacity
=============================================================================
