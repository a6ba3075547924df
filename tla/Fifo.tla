-------------------------------- MODULE Fifo --------------------------------
(***************************************************************************)
(* What zerok::z_ring promises to its two clients: a bounded FIFO queue    *)
(* with one producer calling push() and one consumer calling pop().  Each  *)
(* operation is a call that stays pending for a while and takes effect in  *)
(* one atomic step, its return.  push() returns false only if the queue    *)
(* held Capacity ticks at that step, pop() only if it held none.           *)
(***************************************************************************)
EXTENDS Integers, Sequences

CONSTANTS Capacity,   \* the template parameter Capacity
          Values,     \* the ticks a producer may push
          NoTick      \* what the consumer holds before a pop has succeeded

VARIABLES q,          \* the ticks in the ring, oldest first
          pushStatus, \* "none", "pending", or what the last push returned
          pushArg,    \* the argument of the last push
          popStatus,  \* "none", "pending", or what the last pop returned
          out         \* the tick delivered by the last pop, if it succeeded

vars == <<q, pushStatus, pushArg, popStatus, out>>

Status == {"none", "pending", "true", "false"}

TypeOK ==
  /\ q \in Seq(Values)
  /\ Len(q) <= Capacity
  /\ pushStatus \in Status
  /\ popStatus \in Status
  /\ pushArg \in Values \cup {NoTick}
  /\ out \in Values \cup {NoTick}

Init ==
  /\ q = <<>>
  /\ pushStatus = "none" /\ pushArg = NoTick
  /\ popStatus = "none"  /\ out = NoTick

PushCall(v) ==
  /\ pushStatus # "pending"
  /\ pushStatus' = "pending"
  /\ pushArg' = v
  /\ UNCHANGED <<q, popStatus, out>>

PushOk ==
  /\ pushStatus = "pending"
  /\ Len(q) < Capacity
  /\ q' = Append(q, pushArg)
  /\ pushStatus' = "true"
  /\ UNCHANGED <<pushArg, popStatus, out>>

PushFull ==
  /\ pushStatus = "pending"
  /\ Len(q) = Capacity
  /\ pushStatus' = "false"
  /\ UNCHANGED <<q, pushArg, popStatus, out>>

PopCall ==
  /\ popStatus # "pending"
  /\ popStatus' = "pending"
  /\ out' = NoTick
  /\ UNCHANGED <<q, pushStatus, pushArg>>

PopOk ==
  /\ popStatus = "pending"
  /\ q # <<>>
  /\ out' = Head(q)
  /\ q' = Tail(q)
  /\ popStatus' = "true"
  /\ UNCHANGED <<pushStatus, pushArg>>

PopEmpty ==
  /\ popStatus = "pending"
  /\ q = <<>>
  /\ popStatus' = "false"
  /\ UNCHANGED <<q, pushStatus, pushArg, out>>

Next ==
  \/ \E v \in Values : PushCall(v)
  \/ PushOk \/ PushFull
  \/ PopCall \/ PopOk \/ PopEmpty

Spec == Init /\ [][Next]_vars

\* A queue that may be emptied while no operation is pending.
Clear ==
  /\ pushStatus # "pending" /\ popStatus # "pending"
  /\ q' = <<>>
  /\ UNCHANGED <<pushStatus, pushArg, popStatus, out>>

ResettableSpec == Init /\ [][Next \/ Clear]_vars
=============================================================================
