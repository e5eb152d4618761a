----------------------------- MODULE Algorithms -----------------------------
(***************************************************************************)
(* Algorithms of the driver which are functions of their arguments.  A     *)
(* behaviour is one call, and what it returns is to agree with a           *)
(* definition of what the algorithm computes.                              *)
(***************************************************************************)
CONSTANTS
  Jobs,             \* the calls: <<kind, arguments>>
  Call(_),          \* what the driver returns
  Agrees(_, _)      \* whether that is what the call is to return

VARIABLES job, result

Idle == job = <<"none">> /\ result = <<>>

Init ==
  /\ job \in Jobs
  /\ result = <<>>

Compute ==
  /\ result = <<>>
  /\ result' = <<Call(job)>>
  /\ UNCHANGED job

\* The call has returned.
Done == result # <<>> /\ UNCHANGED <<job, result>>

Next == Compute \/ Done

-----------------------------------------------------------------------------
\* What a call of this kind returns is what it is to return.
CallsRight(kind) == job[1] = kind /\ result # <<>> => Agrees(job, result[1])
=============================================================================
