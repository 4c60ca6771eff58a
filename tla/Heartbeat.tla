-------------------------------- MODULE Heartbeat --------------------------------
(***************************************************************************)
(* The heartbeat of WiseAccess_Handler: one call in heartBeatRate sends    *)
(*                                                                         *)
(*     if(count%heartBeatRate == 0) core_heartbeat_send();                 *)
(*     count = (count+1%heartBeatRate);                                    *)
(*                                                                         *)
(* `%` binds tighter than `+`, so count never starts again at the rate: it *)
(* grows until the int overflows.  The MQTT thread changes heartBeatRate   *)
(* (SetHeartBeatRate) at any time, between the two statements too.         *)
(*                                                                         *)
(* SetHeartBeatRate checks nothing: the rate is any int that atoi makes of *)
(* the server's text, negative or 0, too.                                  *)
(***************************************************************************)
EXTENDS Integers

CONSTANTS Rates,     \* the rates the server sends
          InitRate,  \* heartBeatRate before it sends any
          IntMax     \* INT_MAX

IntMin == -IntMax - 1
ASSUME IntMaxAssumption == IntMax \in Nat
ASSUME RatesAssumption == Rates \cup {InitRate} \subseteq IntMin .. IntMax

VARIABLES
    heartBeatRate,
    count,
    hpc,       \* the Handler: "test" or "step", between the two statements
    since,     \* ghost: calls without a heartbeat since the last one or a new rate
    wrapped,   \* ghost: count overflowed meanwhile
    stopped    \* a division has ended the process

heartbeat == <<heartBeatRate, count, hpc, since, wrapped, stopped>>

InitHeartbeat ==
    /\ heartBeatRate = InitRate
    /\ count = 0
    /\ hpc = "test"
    /\ since = 0
    /\ wrapped = FALSE
    /\ stopped = FALSE

WrapNone(n) == n                              \* faulty: as if an int had no limit
\* Two's complement: the successor of IntMax is IntMin.
Wrap(n) == IF n > IntMax THEN n - 2 * (IntMax + 1) ELSE n

SetHeartBeatRate(r) ==
    /\ ~stopped
    /\ heartBeatRate' = r
    /\ since' = 0
    /\ wrapped' = FALSE
    /\ UNCHANGED <<count, hpc, stopped>>

\* C gives a remainder the sign of the dividend; whether it is 0 does not depend on signs.
Period == IF heartBeatRate < 0 THEN -heartBeatRate ELSE heartBeatRate

\* n % heartBeatRate, up to its sign.  Where C leaves it undefined the processor ends the
\* process (x86), or the result is the one of n - (n/0)*0 (ARM divides without a trap).
Undefined(n) == heartBeatRate = 0 \/ (heartBeatRate = -1 /\ n = IntMin)
Remainder(n) == IF heartBeatRate = 0 THEN n ELSE n % Period

DueAtRate == count = heartBeatRate            \* faulty: as if count started again
Due == Remainder(count) = 0

TestRate ==
    /\ hpc = "test" /\ ~stopped
    /\ hpc' = "step"
    /\ stopped' \in {FALSE, Undefined(count)}
    /\ since' = IF Due THEN 0 ELSE since + 1
    /\ wrapped' = (wrapped /\ ~Due)
    /\ UNCHANGED <<heartBeatRate, count>>

Advance ==
    /\ hpc = "step" /\ ~stopped
    /\ hpc' = "test"
    /\ stopped' \in {FALSE, Undefined(1)}
    /\ count' = Wrap(count + Remainder(1))
    /\ wrapped' = (wrapped \/ count' < count)
    /\ UNCHANGED <<heartBeatRate, since>>

Handler == TestRate \/ Advance
NextHeartbeat == Handler \/ \E r \in Rates : SetHeartBeatRate(r)

\* The application calls WiseSnail_MainLoop for ever.
HeartbeatSpec == InitHeartbeat /\ [][NextHeartbeat]_heartbeat /\ WF_heartbeat(Handler)
--------------------------------------------------------------------------------
\* Every variable keeps its type; the counter stays an int, also when it overflows.
HeartbeatTypeOK ==
    /\ heartBeatRate \in Rates \cup {InitRate}
    /\ count \in IntMin .. IntMax
    /\ hpc \in {"test", "step"}
    /\ since \in Nat
    /\ wrapped \in BOOLEAN
    /\ stopped \in BOOLEAN

\* At every rate but 0, which promises nothing, the server waits at most heartBeatRate
\* calls of the Handler for a heartbeat, whenever it changed the rate; only the call on
\* which the int overflows shifts the phase, and then the wait is still shorter than two
\* periods.  That holds for a negative rate, and for one over half of IntMax, too.
HeartbeatInTime ==
    heartBeatRate # 0 => since < (IF wrapped THEN 2 * Period ELSE Period)
================================================================================
