-------------------------------- MODULE Times --------------------------------
(***************************************************************************)
(* JSONTime and its conversions to JSON, to text for the database and to a *)
(* driver value (g2util/time.go).                                          *)
(*                                                                         *)
(* External: time.  An instant is a number of seconds since year 1, the    *)
(* zero time, and of parts of a second.  Local time is LMT, an offset with *)
(* seconds, before StandardTime, as in Asia/Shanghai (8:05:43 before       *)
(* 1901).  RFC3339 has no parts of a second and writes the zone in         *)
(* minutes; a year of five digits is written but no layout reads it.       *)
(* UnixNano is an integer of 64 bits that wraps.                           *)
(***************************************************************************)
EXTENDS Integers

CONSTANTS StandardTime,   \* the instant at which the offset changes
          EndOfYears,     \* the first second of year 10000 on a local clock
          Parts,          \* parts (nanoseconds) per second
          NanoRange       \* the values of UnixNano (2^64)

Tick == 60              \* seconds per minute
LMT == 29143
Standard == 28800

ASSUME TimesAssumption ==
  /\ StandardTime \in Nat \ {0} /\ EndOfYears \in Nat /\ StandardTime + LMT <= EndOfYears
  /\ Parts \in Nat \ {0} /\ NanoRange \in Nat \ {0}

Moments == [sec : Nat, part : 0..Parts - 1]
Zero == [sec |-> 0, part |-> 0]
Nil == [sec |-> -1, part |-> 0]

ZoneOffset(t) == IF t.sec < StandardTime THEN LMT ELSE Standard

(* Format with RFC3339 in local time.                                      *)
Format(t) ==
  [wall |-> t.sec + ZoneOffset(t), zone |-> (ZoneOffset(t) \div Tick) * Tick]

NoText == [wall |-> -1, zone |-> 0]

(* A layout reads the text.                                                *)
Reads(s) == s # NoText /\ s.wall < EndOfYears

(* The first layout that is tried keeps the zone.                          *)
Parse(s) == [sec |-> s.wall - s.zone, part |-> 0]

(* Nothing, null and what no layout reads is the zero time.                *)
parseInlocation2jsonTime(s) == IF Reads(s) THEN Parse(s) ELSE Zero

(* Nanoseconds since the zero time, as far as 64 bits tell them.           *)
UnixNano(t) == (t.sec * Parts + t.part) % NanoRange

(* Mutant: the zero time is written like any other.                        *)
MarshalJSON_Zero(t) == IF t = Nil THEN NoText ELSE Format(t)

MarshalJSON(t) == IF t \in {Nil, Zero} THEN NoText ELSE Format(t)

UnmarshalJSON(s) == parseInlocation2jsonTime(s)

(* ToDB and FromDB: nil is no text, but the zero time is written.          *)
ToDB(t) == IF t = Nil THEN NoText ELSE Format(t)

(* Mutant: no data gives the zero time.                                    *)
FromDB_Zero(old, s) == parseInlocation2jsonTime(s)

FromDB(old, s) == IF s = NoText THEN old ELSE parseInlocation2jsonTime(s)

(* Value and Scan: what has the zero time's nanoseconds is NULL, and NULL  *)
(* leaves what was there.                                                  *)
Value(t) == IF t = Nil \/ UnixNano(t) = UnixNano(Zero) THEN Nil ELSE t
Scan(old, v) == IF v = Nil THEN old ELSE v

Modern(t) == t.sec >= StandardTime
WholeSecond(t) == [t EXCEPT !.part = 0]

-----------------------------------------------------------------------------
(* The year has four digits.                                               *)
FourDigits(t) == t.sec + Standard < EndOfYears

(* A whole number of times the range of UnixNano after the zero time.      *)
Wraps(t) ==
  LET elapsed == t.sec * Parts + t.part
  IN \E k \in 0..elapsed \div NanoRange : elapsed = k * NanoRange

(* The round trips of t, read over the value old.                          *)
TimeSurvives(t, old) ==
  LET u == UnmarshalJSON(MarshalJSON(t))
      d == FromDB(old, ToDB(t))
      v == Scan(old, Value(t))
  IN CASE t = Nil -> u = Zero /\ d = old /\ v = old
       [] t = Zero -> u = Zero /\ d # Zero /\ v = old
       [] OTHER ->
            /\ u = CASE ~Modern(t) -> [sec |-> t.sec + (LMT % Tick), part |-> 0]
                     [] Modern(t) /\ FourDigits(t) -> WholeSecond(t)
                     [] OTHER -> Zero
            /\ d = u
            /\ v = IF Wraps(t) THEN old ELSE t
=============================================================================
