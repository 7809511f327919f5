---------------------------- MODULE LimitPeriods ----------------------------
(***************************************************************************)
(* Which usage counter a transaction is counted in, and for how long the   *)
(* counter lives: the period key of the limit's type, the reset time the   *)
(* limit announces, the expiry a validation writes for the cleanup worker, *)
(* the custom period, and the key of the first scope of the limit that     *)
(* matches.  Validation and Reservation take the counter of a limit as     *)
(* given; this module checks how it is chosen.  That a reservation writes  *)
(* its own TTL into the same expires_at is Reservation's to show.          *)
(*                                                                         *)
(* Time is counted in hours since 1970-01-01 00:00 UTC, a Thursday.        *)
(***************************************************************************)
EXTENDS Integers, FiniteSets, Functions, SequencesExt, Evaluation

CONSTANTS
    Instants,          \* server times at which limits are checked
    CustomPeriods,     \* <<customStartDate, customEndDate>>
    RetentionDays,     \* CounterRetentionDays
    ScopeSets,         \* the scopes of limits, in their stored order
    TransactionScopes  \* what transactions carry

Unset == "unset"
ScopeFields == {"account", "segment", "portfolio", "merchant", "type", "subType"}

ASSUME PeriodsAssumption ==
    /\ Instants \subseteq Nat /\ RetentionDays \in Nat
    /\ \A p \in CustomPeriods : p[1] \in Nat /\ p[2] \in Nat /\ p[1] < p[2]
    /\ \A t \in TransactionScopes : DOMAIN t = ScopeFields /\ t["account"] # Unset
    /\ \A ss \in ScopeSets : \A s \in Range(ss) : DOMAIN s = ScopeFields /\ Range(s) # {Unset}

\* The civil calendar of the time package.
Leap(y) == y % 4 = 0 /\ (y % 100 # 0 \/ y % 400 = 0)
MonthDays(y, m) == IF m = 2 THEN IF Leap(y) THEN 29 ELSE 28
                   ELSE IF m \in {4, 6, 9, 11} THEN 30 ELSE 31
LeapYears(y) == y \div 4 - y \div 100 + y \div 400
FirstOfYear(y) == 365 * (y - 1970) + LeapYears(y - 1) - LeapYears(1969)
FirstOfMonth(y, m) ==
    FirstOfYear(y) + FoldLeft(LAMBDA days, n : days + MonthDays(y, n), 0, [n \in 1..(m - 1) |-> n])
Date(day) ==
    LET y == CHOOSE x \in (1970 + day \div 366)..(1970 + day \div 365) : FirstOfYear(x) <= day /\ day < FirstOfYear(x + 1)
        m == CHOOSE n \in 1..12 : /\ FirstOfMonth(y, n) <= day
                                  /\ day < FirstOfMonth(y, n) + MonthDays(y, n)
    IN  <<y, m, 1 + day - FirstOfMonth(y, m)>>
Weekday(day) == (day + 4) % 7  \* Sunday is 0

\* The week of a day belongs to the year of its Thursday.
ISOWeek(day) ==
    LET thursday == day - ((Weekday(day) + 6) % 7) + 3
        year == Date(thursday)[1]
    IN  <<year, 1 + (thursday - FirstOfYear(year)) \div 7>>

Day(t) == t \div 24
-----------------------------------------------------------------------------
\* A seeded fault for TLC: the week number is put beside the calendar year.
CalculatePeriodKey_Year(limitType, t) ==
    CASE limitType = "DAILY" -> Date(Day(t))
      [] limitType = "MONTHLY" -> SubSeq(Date(Day(t)), 1, 2)
      [] limitType = "WEEKLY" -> <<Date(Day(t))[1], ISOWeek(Day(t))[2]>>
      [] limitType = "CUSTOM" -> <<"custom">>

\* PER_TRANSACTION limits have no counter.
CalculatePeriodKey(limitType, t) ==
    CASE limitType = "DAILY" -> Date(Day(t))
      [] limitType = "MONTHLY" -> SubSeq(Date(Day(t)), 1, 2)
      [] limitType = "WEEKLY" -> ISOWeek(Day(t))
      [] limitType = "CUSTOM" -> <<"custom">>

\* The next UTC midnight, first of a month or Monday.
CalculateResetAt(limitType, t) ==
    LET date == Date(Day(t))
        untilMonday == (8 - Weekday(Day(t))) % 7
    IN  CASE limitType = "DAILY" -> 24 * (Day(t) + 1)
          [] limitType = "MONTHLY" -> 24 * (FirstOfMonth(date[1], date[2]) + MonthDays(date[1], date[2]))
          [] limitType = "WEEKLY" -> 24 * (Day(t) + (IF untilMonday = 0 THEN 7 ELSE untilMonday))

\* The expires_at a validation gives a counter it increments at t.
calculateCounterExpiresAt(limitType, t, customEndDate) ==
    24 * RetentionDays + (IF limitType = "CUSTOM" THEN customEndDate ELSE CalculateResetAt(limitType, t))

IsWithinCustomPeriod(t, period) == t >= period[1] /\ t < period[2]

-----------------------------------------------------------------------------
\* A nil field of a limit's scope matches any value.
ScopeMatches(s, other) == \A f \in ScopeFields : s[f] = Unset \/ s[f] = other[f]

scopeMatchesLimit(scopes, t) == scopes = <<>> \/ \E i \in DOMAIN scopes : ScopeMatches(scopes[i], t)

GlobalScopeKey == {<<"global">>}

\* The four ids of the scope; transaction type and sub-type are not part of the key,
\* and a scope with nothing else has the empty key.
CalculateScopeKey(s) ==
    IF Range(s) = {Unset} THEN GlobalScopeKey
    ELSE {<<f, s[f]>> : f \in {g \in ScopeFields \ {"type", "subType"} : s[g] # Unset}}

FirstMatch(scopes, t) ==
    CHOOSE i \in DOMAIN scopes : /\ ScopeMatches(scopes[i], t)
                                 /\ \A j \in 1..(i - 1) : ~ScopeMatches(scopes[j], t)

calculateScopeKeyFromScopes(scopes, t) ==
    IF scopes = <<>> THEN GlobalScopeKey ELSE CalculateScopeKey(scopes[FirstMatch(scopes, t)])

-----------------------------------------------------------------------------
(* Properties *)

ChooseScopes ==
    \E scopes \in ScopeSets \ {<<>>} : input' = [of |-> "scopes", scopes |-> scopes]
ChooseInstant == \E t \in Instants : input' = [of |-> "instant", time |-> t]

\* Usage that belongs together is counted together: of transactions that match a
\* limit through one scope, whatever else they carry, and exactly until the reset
\* time announced when it was counted, also in a week that two years share.  The
\* expiry calculateCounterExpiresAt writes with a validation lies past that period.
\* It does not bind the cleanup worker when the counter is reserved as well: Reserve
\* overwrites expires_at with the reservation's TTL.
CountersSpanTheirPeriod ==
    /\ input.of = "scopes" =>
         LET scopes == input.scopes IN
         \A t, u \in {x \in TransactionScopes : scopeMatchesLimit(scopes, x)} :
           FirstMatch(scopes, t) = FirstMatch(scopes, u)
           => calculateScopeKeyFromScopes(scopes, t) = calculateScopeKeyFromScopes(scopes, u)
    /\ input.of = "instant" =>
         LET t == input.time IN
         /\ \A k \in {"DAILY", "WEEKLY", "MONTHLY"}, u \in {x \in Instants : t <= x} :
              LET same == CalculatePeriodKey(k, t) = CalculatePeriodKey(k, u) IN
              /\ same <=> u < CalculateResetAt(k, t)
              /\ same => u < calculateCounterExpiresAt(k, t, 0)
         /\ \A p \in CustomPeriods, u \in Instants :
              /\ IsWithinCustomPeriod(t, p) /\ IsWithinCustomPeriod(u, p)
              /\ CalculatePeriodKey("CUSTOM", t) = CalculatePeriodKey("CUSTOM", u)
              => u < calculateCounterExpiresAt("CUSTOM", t, p[2])
=============================================================================
