--------------------------------- MODULE LogItem -------------------------------
(***************************************************************************)
(* The conversion of log items to JSON objects and back. The time stamp, a *)
(* number of ticks of the system clock, becomes a double that counts       *)
(* seconds, and the receiver multiplies that by the ticks in a second. At  *)
(* the time of the messages neighbouring doubles are 1 / StepsPerSecond    *)
(* seconds apart, and neighbouring products Coarse ticks: today, with      *)
(* nanoseconds, 2^-22 s (238 ticks) and 256 ticks. The double itself is    *)
(* given as the number of steps.                                           *)
(***************************************************************************)
EXTENDS Jopp, Integers

CONSTANTS TicksPerSecond, StepsPerSecond, Coarse,
          MaxTime,    \* bound on the time stamps
          Texts

ASSUME ClockAssumption == {TicksPerSecond, StepsPerSecond, Coarse} \subseteq Nat \ {0}

Severities == {"info", "warning", "error"}
Items == [when : 0 .. MaxTime, severity : Severities, message : Texts]

\* The integer next to n / d, the even one of two.
Nearest(n, d) == LET q == n \div d
                     r == 2 * (n % d)
                 IN  IF r > d \/ (r = d /\ q % 2 = 1) THEN q + 1 ELSE q

ToSeconds(when) == Nearest(when * StepsPerSecond, TicksPerSecond)

\* Mutated form of FromSeconds: the ticks are kept in an integer that is too small.
FromSeconds_Narrow(number) ==
    (Coarse * Nearest(number * TicksPerSecond, StepsPerSecond * Coarse)) % 16

FromSeconds(number) == Coarse * Nearest(number * TicksPerSecond, StepsPerSecond * Coarse)

item_to_object(item) == [when |-> Number(ToSeconds(item.when)),
                         message |-> String(item.message),
                         severity |-> String(item.severity)]

\* Mutated form of make_severity_with_fallback: only errors are known.
make_severity_with_fallback_Errors(str, fallback) == IF str = "error" THEN str ELSE fallback

make_severity_with_fallback(str, fallback) == IF str \in Severities THEN str ELSE fallback

make_log_item(obj) ==
    {[when |-> FromSeconds(n), severity |-> make_severity_with_fallback(s, "info"), message |-> m] :
        n \in GetField(obj, "when", "number"),
        s \in GetField(obj, "severity", "string"),
        m \in GetField(obj, "message", "string")}
================================================================================
