---------------------------- MODULE ScheduleTime ----------------------------
(***************************************************************************)
(* The moment an owner's reply names, in the zone of the client            *)
(* (telegram/schedule-time.ts).  The text has been read: a moment from     *)
(* now, a date with a time, or a time of a day.  A zone moves its clocks   *)
(* once.  Instants and wall clocks are ticks of one line, as Date.UTC      *)
(* makes them; a wall clock is its instant plus the offset.                *)
(***************************************************************************)
EXTENDS Integers

CONSTANTS
    None,
    Zones,      \* zones: offsets before and after they move their clocks, and when
    Minute,     \* ticks of a minute
    Day,        \* ticks of a day
    Furthest,   \* MAX_SCHEDULE_DAYS, in ticks
    Nows,       \* the instants a reply may arrive at
    Requests    \* what a reply may ask for

\* What is typed goes down to the minute; no zone moves by more than a day.
ScheduleTimeAssumption ==
    /\ Minute \in Nat \ {0} /\ Day \in Nat /\ Day % Minute = 0 /\ Day > Minute
    /\ \A z \in Zones : /\ z.at \in Nat /\ {z.before, z.after} \subseteq Int
                        /\ z.before % Minute = 0 /\ z.after % Minute = 0
                        /\ z.after - z.before \in (-Day)..Day
    /\ \A r \in Requests : /\ r.kind = "absolute" => r.wall \in Int /\ r.wall % Minute = 0
                           /\ r.kind = "clock" => r.time \in 0..(Day - 1) /\ r.time % Minute = 0
    /\ Nows \subseteq Int /\ None \notin {"ok", "unreadable", "soon", "far"}

VARIABLES
    zone, now, request,
    wall,       \* the wall clock the code settled on
    verdict,    \* None, "ok", "unreadable", "soon", "far"
    publishAt

asked == <<zone, now, request>>
vars == <<zone, now, request, wall, verdict, publishAt>>

Offset(t) == IF t < zone.at THEN zone.before ELSE zone.after
Local(t) == t + Offset(t)

\* The mutant: the offset at the guess is taken for that of the instant.
BugToUtc(w) == w - Offset(w)

\* zonedToUtc: the guess reads the wall clock as UTC, and is corrected once.
ToUtc(w) ==
    LET first == Offset(w)
        second == Offset(w - first)
    IN  IF second # first THEN w - second ELSE w - first

\* Up to the minute: never earlier.
Ceil(t) == ((t + Minute - 1) \div Minute) * Minute

Today(time) == (Local(now) \div Day) * Day + time

\* A time without a day is today's, or tomorrow's once it has passed.
ClockWall(r) ==
    IF r.day = "tomorrow" \/ (r.day = "any" /\ ToUtc(Today(r.time)) =< now)
    THEN Today(r.time) + Day
    ELSE Today(r.time)

\* roundTrips: the instant shows the wall clock that was typed.
RoundTrips(w) == Local(ToUtc(w)) = w

Init ==
    /\ zone \in Zones /\ now \in Nows /\ request \in Requests
    /\ wall = 0 /\ verdict = None /\ publishAt = 0

\* The bounds, for an instant that was read.
Settle(t) ==
    /\ publishAt' = Ceil(t)
    /\ verdict' = CASE publishAt' < now + Minute -> "soon"
                    [] publishAt' > now + Furthest -> "far"
                    [] OTHER -> "ok"

Relative ==
    /\ request.kind = "relative"
    /\ wall' = Local(now + request.amount)
    /\ Settle(now + request.amount)

Absolute ==
    /\ request.kind = "absolute"
    /\ wall' = request.wall
    /\ IF RoundTrips(wall') THEN Settle(ToUtc(wall')) ELSE verdict' = "unreadable" /\ UNCHANGED publishAt

Clock ==
    /\ request.kind = "clock"
    /\ wall' = ClockWall(request)
    /\ Settle(ToUtc(wall'))

Next ==
    /\ verdict = None
    /\ Relative \/ Absolute \/ Clock
    /\ UNCHANGED asked

Spec == Init /\ [][Next]_vars
-----------------------------------------------------------------------------
\* The instants that show a wall clock: two when clocks go back, none when
\* they go forward over it.
Showing(w) == {t \in {w - zone.before, w - zone.after} : Local(t) = w}

\* A time is published when the clock of the client shows what was asked for,
\* and later on the day the clocks skip it; never earlier
\* (schedule-time.ts:203).
NeverEarly ==
    verdict = "ok" /\ request.kind # "relative" =>
        \/ publishAt \in Showing(wall)
        \/ request.kind = "clock" /\ Showing(wall) = {} /\ Local(publishAt) > wall

\* A date is refused as unreadable only when no instant shows it: one
\* correction of the guess finds every other (schedule-time.ts:72).
OneCorrectionIsEnough == verdict = "unreadable" => Showing(wall) = {}

\* A time without a day is the next one the clock shows, unless it shows it
\* twice that day (schedule-time.ts:193).
NextSuchTime ==
    verdict = "ok" /\ request.kind = "clock" /\ request.day = "any" =>
        \A t \in (now + 1)..(publishAt - 1) :
            Local(t) % Day = request.time => \E u \in Showing(Local(t)) : u # t

-----------------------------------------------------------------------------
(* What the proofs need beside the properties: the inductive invariant.    *)

ScheduleTimeInv ==
    /\ zone \in Zones /\ now \in Nows /\ request \in Requests
    /\ verdict = "unreadable" => wall \in Int /\ ~RoundTrips(wall)
    /\ verdict = "ok" =>
        /\ request.kind = "absolute" => wall = request.wall /\ RoundTrips(wall)
        /\ request.kind = "clock" => wall = ClockWall(request)
        /\ request.kind # "relative" =>
              request.kind \in {"absolute", "clock"} /\ publishAt = Ceil(ToUtc(wall))

=============================================================================
