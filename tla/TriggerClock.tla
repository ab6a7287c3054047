----------------------------- MODULE TriggerClock -----------------------------
(***************************************************************************)
(* When a time trigger fires: cron-parser.ts on a small calendar, and the  *)
(* scheduler's timers, late timers and restarts.  SessionCore has what a   *)
(* firing does to its session; there it comes at any time.                 *)
(*                                                                         *)
(* A unit of time is a minute.  Months have the same length, and there is  *)
(* no daylight saving time.                                                *)
(***************************************************************************)
EXTENDS Naturals, Sequences, SequencesExt

CONSTANTS Calendar,      \* the size of an hour, a day, a month, a year and a week
          Schedules,     \* what users write
          MaxIterations, \* the minutes parseCronSchedule() looks at
          MaxDelay,      \* the longest delay of setTimeout()
          MaxLate,       \* bound on how late a timer runs
          MaxTime,       \* bound on the clock
          MaxRestarts    \* bound on restarts

VARIABLES
    now,     \* the clock
    trigger, \* the trigger, as triggers.json has it
    timer,   \* when its timer is due, or Never
    up,      \* whether the process is there
    from,    \* when its next firing was last set: created, fired, or missed and loaded
    fired,   \* its latest firing: when it was due, and when it was
    starts   \* how many restarts there were

clockVars == <<now, trigger, timer, up, from, fired, starts>>

Never == 0 \* the clock is past it

-----------------------------------------------------------------------------
(* cron-parser.ts                                                          *)

Fields == 1..5 \* minute, hour, day of the month, month, day of the week
Lowest == <<0, 0, 1, 1, 0>>
Highest == <<Calendar.hour - 1, Calendar.day - 1, Calendar.month, Calendar.year, Calendar.week - 1>>

Between(lo, hi, step) == [k \in 1..((hi - lo) \div step) + 1 |-> lo + (k - 1) * step]

\* What is no list; <<>> is the null of a field that cannot be read.  Also the other
\* name of Sunday.
Simple(raw, f) ==
    CASE raw.form = "any"   -> Between(Lowest[f], Highest[f], 1)
      [] raw.form = "step"  -> Between(Lowest[f], Highest[f], raw.n)
      [] raw.form = "range" -> IF raw.lo >= Lowest[f] /\ raw.hi <= Highest[f] /\ raw.lo <= raw.hi
                               THEN Between(raw.lo, raw.hi, 1) ELSE <<>>
      [] raw.form = "exact" -> IF f = 5 /\ raw.n = Calendar.week THEN <<0>>
                               ELSE IF raw.n \in Lowest[f]..Highest[f] THEN <<raw.n>> ELSE <<>>

parseField(raw, f) ==
    IF raw.form # "list" THEN Simple(raw, f)
    ELSE LET parts == [i \in DOMAIN raw.parts |-> Simple(raw.parts[i], f)]
         IN  IF \E i \in DOMAIN parts : parts[i] = <<>> THEN <<>> ELSE FlattenSeq(parts)

\* Minute, hour, day of the month, month and day of the week of a time.
DateOf(t) ==
    LET hours == t \div Calendar.hour
        days == hours \div Calendar.day
    IN  <<t % Calendar.hour, hours % Calendar.day, (days % Calendar.month) + 1,
          ((days \div Calendar.month) % Calendar.year) + 1, days % Calendar.week>>

\* Mutant: a day has to match in both ways.
DayMatchesBoth(date, fields) == \A f \in {3, 5} : Contains(fields[f], date[f])

\* A field of days is restricted unless it has as many values as there are days and
\* begins with the first; if both are, one has to match.
DayMatches(date, fields) ==
    LET restricted(f) == Len(fields[f]) < Highest[f] - Lowest[f] + 1 \/ fields[f][1] # Lowest[f]
        limits == {f \in {3, 5} : restricted(f)}
    IN  limits = {} \/ \E f \in limits : Contains(fields[f], date[f])

matchesCron(date, fields) ==
    /\ \A f \in {1, 2, 4} : Contains(fields[f], date[f])
    /\ DayMatches(date, fields)

\* Mutant: the search begins with the minute there is.
FirstCandidateNow(t) == t

\* Seconds are cut off, and a minute added.
FirstCandidate(t) == t + 1

\* parseCronSchedule() at time t.
parseCronSchedule(s, t) ==
    IF s.form = "ms" THEN t + s.n
    ELSE LET fields == [f \in Fields |-> parseField(s.fields[f], f)]
             last == FirstCandidate(t) + MaxIterations
             search[c \in Nat] == IF c = last THEN Never
                                  ELSE IF matchesCron(DateOf(c), fields) THEN c ELSE search[c + 1]
         IN  IF \E f \in Fields : fields[f] = <<>> THEN Never ELSE search[FirstCandidate(t)]

\* validateSchedule() has no error.  An interval is a positive number.
Valid(s) == parseCronSchedule(s, now) # Never

\* parseInt() of the whole schedule, in ms; 0 also if it is NaN.
ParseInt(s) ==
    LET number(raw) == CASE raw.form = "exact" -> raw.n
                         [] raw.form = "range" -> raw.lo
                         [] OTHER -> 0
        first == s.fields[1]
    IN  IF first.form = "list" THEN number(first.parts[1]) ELSE number(first)

-----------------------------------------------------------------------------
(* The scheduler.                                                          *)

NotYet == [due |-> Never, at |-> Never]
NoTrigger == [enabled |-> FALSE, schedule |-> [form |-> "none"], recurring |-> FALSE, next |-> Never]

Init ==
    /\ now \in 1..Calendar.hour * Calendar.day
    /\ trigger = NoTrigger /\ timer = Never /\ up = TRUE /\ from = now /\ starts = 0
    /\ fired = NotYet

\* #armTimer(): a delay that is too long for setTimeout() counts as 1 ms.
Armed(next) == IF next > now + MaxDelay THEN now ELSE IF next < now THEN now ELSE next

\* cron_create, the HTTP gateway and the REPL: schedule(); one trigger at a time.
Schedule(s, again) ==
    /\ up /\ ~trigger.enabled /\ Valid(s)
    /\ LET next == parseCronSchedule(s, now)
       IN  /\ trigger' = [enabled |-> TRUE, schedule |-> s, recurring |-> again, next |-> next]
           /\ timer' = Armed(next)
    /\ from' = now /\ fired' = NotYet
    /\ UNCHANGED <<now, up, starts>>

\* cancel(); the trigger stays, disabled.
Cancel ==
    /\ up /\ trigger.enabled
    /\ trigger' = [trigger EXCEPT !.enabled = FALSE] /\ timer' = Never
    /\ UNCHANGED <<now, up, from, fired, starts>>

\* Mutant: the next firing is set from the one that was due.
FromThen == trigger.next
FromNow == now

\* The timer runs: fire().  An interval adds up from the time that was due; what
\* parseInt() makes of a cron expression is taken for an interval, too, of some ms,
\* which is less than a minute here.
Fire ==
    /\ up /\ timer # Never /\ timer <= now
    /\ fired' = [due |-> trigger.next, at |-> now]
    /\ LET s == trigger.schedule
           next == IF s.form = "ms" THEN trigger.next + s.n
                   ELSE IF ParseInt(s) > 0 THEN trigger.next
                   ELSE parseCronSchedule(s, FromNow)
           again == trigger.recurring /\ next # Never
       IN  /\ timer' = IF again THEN Armed(next) ELSE Never
           /\ trigger' = IF again THEN [trigger EXCEPT !.next = next]
                         ELSE [trigger EXCEPT !.enabled = trigger.recurring]
           /\ from' = IF again THEN now ELSE from
    /\ UNCHANGED <<now, up, starts>>

\* A minute goes by; timers may be late.
Tick ==
    /\ now < MaxTime /\ now' = now + 1
    /\ up /\ timer # Never => now < timer + MaxLate
    /\ UNCHANGED <<trigger, timer, up, from, fired, starts>>

\* The process ends; every change is on disk.
Stop ==
    /\ up /\ starts < MaxRestarts /\ starts' = starts + 1
    /\ up' = FALSE /\ timer' = Never
    /\ UNCHANGED <<now, trigger, from, fired>>

\* loadTriggers(): disabled triggers are dropped, a firing that was missed is set anew.
Load ==
    /\ ~up /\ up' = TRUE
    /\ LET missed == trigger.next < now
           parsed == parseCronSchedule(trigger.schedule, now)
           next == IF ~missed THEN trigger.next ELSE IF parsed = Never THEN now ELSE parsed
       IN  IF ~trigger.enabled
           THEN trigger' = NoTrigger /\ UNCHANGED <<timer, from>>
           ELSE /\ trigger' = [trigger EXCEPT !.next = next] /\ timer' = Armed(next)
                /\ from' = IF missed THEN now ELSE from
    /\ UNCHANGED <<now, fired, starts>>

Next ==
    \/ \E s \in Schedules, again \in BOOLEAN : Schedule(s, again)
    \/ Cancel
    \/ Fire
    \/ Tick
    \/ Stop
    \/ Load

Spec == Init /\ [][Next]_clockVars

-----------------------------------------------------------------------------
(* Properties.                                                             *)

\* What a field means, whatever the order of its parts.
Means(raw, f) ==
    LET one(r) == CASE r.form = "any"   -> Lowest[f]..Highest[f]
                    [] r.form = "step"  -> {v \in Lowest[f]..Highest[f] : (v - Lowest[f]) % r.n = 0}
                    [] r.form = "range" -> r.lo..r.hi
                    [] r.form = "exact" -> {IF f = 5 THEN r.n % Calendar.week ELSE r.n}
    IN  IF raw.form = "list" THEN UNION {one(raw.parts[i]) : i \in DOMAIN raw.parts} ELSE one(raw)

\* The cron rule: of two restricted kinds of days either will do.
Due(s, t) ==
    LET has(f) == DateOf(t)[f] \in Means(s.fields[f], f)
        limits == {f \in {3, 5} : Means(s.fields[f], f) # Lowest[f]..Highest[f]}
    IN  /\ \A f \in {1, 2, 4} : has(f)
        /\ limits = {} \/ \E f \in limits : has(f)

IsCron == trigger.enabled /\ trigger.schedule.form = "cron"

\* fire() takes an expression that begins with a number for an interval.
FiresByInterval(s) == ParseInt(s) > 0

\* matchesCron() takes a list with repetitions for all days, such as 0,0,1,1,2,2,3 of the
\* days of the week.
LooksFull(s) ==
    \E f \in {3, 5} : /\ Len(parseField(s.fields[f], f)) >= Highest[f] - Lowest[f] + 1
                      /\ parseField(s.fields[f], f)[1] = Lowest[f]
                      /\ Means(s.fields[f], f) # Lowest[f]..Highest[f]

\* When a cron trigger is created, has fired or was missed while the process was away, its
\* next firing is set to the first time after that which its expression means, and none
\* is passed over, however late the timer ran and however long the process was away.
\* Except for the two readings above: of the one, from its first firing on.
NextIsFirstDue ==
    IsCron /\ ~(FiresByInterval(trigger.schedule) /\ fired # NotYet) /\ ~LooksFull(trigger.schedule) =>
        /\ trigger.next > from /\ Due(trigger.schedule, trigger.next)
        /\ \A t \in from + 1..trigger.next - 1 : ~Due(trigger.schedule, t)

\* cron-create.ts:10-13: a trigger with a cron expression fires when the expression
\* says, and is then set to a later time.  The code does not satisfy it: what is more
\* than 24.8 days away fires at once, and an expression that begins with a number is
\* an interval of some ms once it has fired.
FiresWhenDue ==
    IsCron /\ fired # NotYet => fired.due <= fired.at /\ fired.due < trigger.next
=============================================================================
