---------------------------- MODULE CallOutSpec ----------------------------
(***************************************************************************)
(* What the call-out subsystem of DGD promises to the rest of the driver,  *)
(* without the table it keeps (call_out.cpp): a started call-out waits for *)
(* its due time, becomes ready when an expiry pass sees that time on the   *)
(* clock, and is then run once, unless it is removed first.                *)
(*                                                                         *)
(* CallOut.tla (heap, cyclic buffer and free list) implements this module. *)
(* The proof at the end is for any call-outs and any clock.                *)
(***************************************************************************)
EXTENDS Integers, TLAPS

CONSTANTS
  Id,               \* call-outs: an (object, handle) pair each
  Time              \* the times a clock can show, in clock units: natural
                    \* numbers, and 0 among them

VARIABLES
  status,           \* status[id]: "free", "waiting" or "ready"
  due,              \* due[id]: the time a waiting call-out is due, 0 if none
  clock,            \* the adjusted time, in clock units
  seen              \* the latest clock value an expiry pass has acted on

vars == <<status, due, clock, seen>>

TypeOK ==
  /\ status \in [Id -> {"free", "waiting", "ready"}]
  /\ due \in [Id -> Time]
  /\ clock \in Time
  /\ seen \in Time

Init ==
  /\ status = [id \in Id |-> "free"]
  /\ due = [id \in Id |-> 0]
  /\ clock \in Time
  /\ seen = 0

\* call_out() with a delay: the call-out waits for time d.
Schedule(id, d) ==
  /\ status[id] = "free"
  /\ status' = [status EXCEPT ![id] = "waiting"]
  /\ due' = [due EXCEPT ![id] = d]
  /\ UNCHANGED <<clock, seen>>

\* call_out() with delay 0: ready at once.
ScheduleNow(id) ==
  /\ status[id] = "free"
  /\ status' = [status EXCEPT ![id] = "ready"]
  /\ due' = [due EXCEPT ![id] = 0]
  /\ UNCHANGED <<clock, seen>>

\* remove_call_out(), or a ready call-out that the main loop runs.
Release(id) ==
  /\ status[id] # "free"
  /\ status' = [status EXCEPT ![id] = "free"]
  /\ due' = [due EXCEPT ![id] = 0]
  /\ UNCHANGED <<clock, seen>>

Run(id) == status[id] = "ready" /\ Release(id)

Remove(id) == Release(id)

\* An expiry pass makes every due call-out ready, and no other.
Expire ==
  /\ status' = [id \in Id |->
       IF status[id] = "waiting" /\ due[id] <= clock THEN "ready"
                                                     ELSE status[id]]
  /\ seen' = IF clock > seen THEN clock ELSE seen
  /\ UNCHANGED <<due, clock>>

\* The wall clock is not the driver's: it may be set either way.
SetClock ==
  /\ clock' \in Time
  /\ UNCHANGED <<status, due, seen>>

Next ==
  \/ \E id \in Id : (\E d \in Time : Schedule(id, d))
                    \/ ScheduleNow(id) \/ Run(id) \/ Remove(id)
  \/ Expire
  \/ SetClock

Spec == Init /\ [][Next]_vars

-----------------------------------------------------------------------------
\* A call-out is never made ready before its time: what is ready was due on
\* a clock value that an expiry pass really saw (call_out.cpp, expire()).
ReadyWasDue == \A id \in Id : status[id] = "ready" => due[id] <= seen

-----------------------------------------------------------------------------
\* What a proof needs to know of the clock: it shows natural numbers.
TimeRight == Time \subseteq Nat /\ 0 \in Time

\* The inductive invariant.
IInv == TypeOK /\ ReadyWasDue

\* At the start no call-out is ready (call_out.cpp, init()).
LEMMA InitKeeps ==
  ASSUME TimeRight
  PROVE  Init => IInv
BY DEF TimeRight, Init, IInv, TypeOK, ReadyWasDue

\* Only a pass of expire() that sees the time of a call-out makes it ready,
\* unless it is started without delay.
LEMMA StepKeeps ==
  ASSUME TimeRight
  PROVE  IInv /\ [Next]_vars => IInv'
<1> USE DEF TimeRight
<1> SUFFICES ASSUME TypeOK, ReadyWasDue, [Next]_vars
             PROVE  TypeOK' /\ ReadyWasDue'
  BY DEF IInv
<1>1. ASSUME NEW id \in Id, NEW d \in Time, Schedule(id, d)
      PROVE  TypeOK' /\ ReadyWasDue'
  BY <1>1 DEF Schedule, TypeOK, ReadyWasDue
<1>2. ASSUME NEW id \in Id, ScheduleNow(id)
      PROVE  TypeOK' /\ ReadyWasDue'
  BY <1>2 DEF ScheduleNow, TypeOK, ReadyWasDue
<1>3. ASSUME NEW id \in Id, Run(id) \/ Remove(id)
      PROVE  TypeOK' /\ ReadyWasDue'
  BY <1>3 DEF Run, Remove, Release, TypeOK, ReadyWasDue
<1>4. CASE Expire
  <2>1. TypeOK'
    BY <1>4 DEF Expire, TypeOK
  <2>2. ASSUME NEW id \in Id, status'[id] = "ready"
        PROVE  due'[id] <= seen'
    <3>1. due' = due /\ due[id] \in Nat /\ clock \in Nat /\ seen \in Nat
      BY <1>4 DEF Expire, TypeOK
    <3>2. seen <= seen' /\ clock <= seen' /\ seen' \in Nat
      BY <1>4, <3>1 DEF Expire
    <3>3. due[id] <= clock \/ due[id] <= seen
      BY <1>4, <2>2 DEF Expire, TypeOK, ReadyWasDue
    <3> QED
      BY <3>1, <3>2, <3>3
  <2> QED
    BY <2>1, <2>2 DEF ReadyWasDue
<1>5. CASE SetClock
  BY <1>5 DEF SetClock, TypeOK, ReadyWasDue
<1>6. CASE UNCHANGED vars
  BY <1>6 DEF vars, TypeOK, ReadyWasDue
<1> QED
  BY <1>1, <1>2, <1>3, <1>4, <1>5, <1>6 DEF Next

\* No call-out is ever ready before its time, whatever the clock does.
THEOREM NeverEarly ==
  ASSUME TimeRight
  PROVE  Spec => []ReadyWasDue
<1>1. Init => IInv
  BY InitKeeps
<1>2. IInv /\ [Next]_vars => IInv'
  BY StepKeeps
<1> QED
  BY <1>1, <1>2, PTL DEF Spec, IInv
=============================================================================
