---------------------------------- MODULE Cron ----------------------------------
(***************************************************************************)
(* The cron matcher of the scheduler package, for the schedules of a       *)
(* quota's time windows: what ValidateSchedule lets pass, and when         *)
(* IsTimeToRun says yes.  A schedule is the sequence of its fields, each   *)
(* as the code takes it apart; the empty sequence is the empty string.     *)
(***************************************************************************)
EXTENDS Integers, Sequences

CONSTANT Moments  \* times at which the scheduler is asked, by the same five fields

\* minute, hour, day, month, weekday.
Lows == <<0, 0, 1, 1, 0>>
Highs == <<59, 23, 31, 12, 6>>

ASSUME MomentsAssumption ==
    \A now \in Moments : Len(now) = 5 /\ \A i \in 1..5 : now[i] \in Lows[i]..Highs[i]

\* A field is looked at as a range if it holds a "-", else as a step if it holds a
\* "/", else as a list of values, a single value being a list of one.  clean is
\* whether every part of a list is a number; a range or a step that does not
\* parse is malformed.  No number has a sign: "-" would make it a range.
Field ==
    [kind : {"any", "malformed"}]
        \cup [kind : {"range"}, from : Nat, to : Nat]
        \cup [kind : {"step"}, by : Nat]
        \cup {f \in [kind : {"list"}, of : SUBSET Nat, clean : BOOLEAN] : f.clean => f.of # {}}

\* Mutant: the end of a range is not part of it.
MatchesHalfOpen(f, value) ==
    \/ f.kind = "any"
    \/ f.kind = "range" /\ f.from <= value /\ value < f.to
    \/ f.kind = "step" /\ f.by > 0 /\ value % f.by = 0
    \/ f.kind = "list" /\ value \in f.of

\* matchesField, which does not look at the bounds of the field.
Matches(f, value) ==
    \/ f.kind = "any"
    \/ f.kind = "range" /\ f.from <= value /\ value <= f.to
    \/ f.kind = "step" /\ f.by > 0 /\ value % f.by = 0
    \/ f.kind = "list" /\ value \in f.of

\* validateField.
ValidField(f, low, high) ==
    \/ f.kind = "any"
    \/ f.kind = "range" /\ low <= f.from /\ f.from <= f.to /\ f.to <= high
    \/ f.kind = "step" /\ f.by > 0
    \/ f.kind = "list" /\ f.clean /\ \A v \in f.of : low <= v /\ v <= high

\* ValidateSchedule, and ParseSchedule.
ValidSchedule(s) ==
    Len(s) = 5 /\ \A i \in 1..5 : ValidField(s[i], Lows[i], Highs[i])

\* IsTimeToRun, at a time given as the values of the five fields.
IsTimeToRun(s, now) == Len(s) = 5 /\ \A i \in 1..5 : Matches(s[i], now[i])

\* The values of the i-th field at which a schedule is due.
Due(s, i) == {v \in Lows[i]..Highs[i] : Matches(s[i], v)}

\* What cron format means by a field.
Meaning(f, low, high) ==
    CASE f.kind = "any"   -> low..high
      [] f.kind = "range" -> f.from..f.to
      [] f.kind = "step"  -> {v \in low..high : (v - low) % f.by = 0}
      [] f.kind = "list"  -> f.of

\* The moments that cron format names: where both the day and the weekday are
\* restricted, it is enough that one of them is met.
BothDays(s) == s[3].kind # "any" /\ s[5].kind # "any"
Names(s, now) ==
    LET Met(i) == now[i] \in Meaning(s[i], Lows[i], Highs[i])
    IN  /\ Met(1) /\ Met(2) /\ Met(4)
        /\ IF BothDays(s) THEN Met(3) \/ Met(5) ELSE Met(3) /\ Met(5)

\* The code differs from cron format in two ways: a step counts from zero also in the
\* fields that begin with one, which is left out here, and with BothDays a schedule is
\* due only when both are met.
CountsFromLow(s) == \A i \in 1..5 : Lows[i] = 0 \/ s[i].kind # "step"

\* A schedule that ValidateSchedule accepts is due only at moments that cron format
\* names, at all of them unless BothDays, and no field of it rules every moment out.
MeansWhatItSays(s) ==
    ValidSchedule(s) /\ CountsFromLow(s) =>
        /\ \A now \in Moments :
              /\ IsTimeToRun(s, now) => Names(s, now)
              /\ Names(s, now) /\ ~BothDays(s) => IsTimeToRun(s, now)
        /\ \A i \in 1..5 : Due(s, i) # {}
==============================================================================
