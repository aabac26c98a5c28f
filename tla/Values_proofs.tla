---------------------------- MODULE Values_proofs ----------------------------
(***************************************************************************)
(* The parts without state for every value of their input, where Values    *)
(* takes samples: times of any year, any number of rows and any page,      *)
(* integers and floats of any width, names of any length and any number of *)
(* methods.                                                                *)
(***************************************************************************)
EXTENDS Values, Recursion, FiniteSetTheorems, SequenceTheorems

LEMMA Multiples ==
  ASSUME NEW c \in Nat \ {0}, NEW i \in Nat, NEW k \in Nat
  PROVE  /\ c * i \in Nat
         /\ i < k => c * i + c <= c * k
         /\ i <= k => c * i <= c * k
OBVIOUS

-----------------------------------------------------------------------------
(* Times.                                                                  *)

(* What the remainder of a division says.                                  *)
LEMMA WholeRanges ==
  ASSUME NEW x \in Nat, NEW n \in Nat \ {0}
  PROVE  x % n = 0 <=> \E k \in 0..x \div n : x = k * n
<1> DEFINE q == x \div n
<1>1. q \in Nat /\ x % n \in 0..n - 1 /\ x = n * q + (x % n)
  OBVIOUS
<1> HIDE DEF q
<1>2. ASSUME x % n = 0 PROVE \E k \in 0..q : x = k * n
  <2>1. q \in 0..q /\ x = q * n
    BY <1>1, <1>2
  <2> QED
    BY <2>1
<1>3. ASSUME NEW k \in 0..q, x = k * n PROVE x % n = 0
  <2>1. k \in Nat /\ k <= q /\ n * k = k * n
    BY <1>1
  <2>2. CASE k < q
    <3>1. n * k + n <= n * q
      BY <1>1, <2>1, <2>2, Multiples
    <3> QED
      BY <1>1, <1>3, <2>1, <3>1
  <2>3. CASE k = q
    <3>1. x = n * q /\ n * q \in Nat
      BY <1>1, <1>3, <2>1, <2>3, Zenon
    <3> DEFINE r == x % n
               m == n * q
    <3>2. x = m /\ m \in Nat /\ x = m + r /\ r \in Nat
      BY <1>1, <3>1
    <3> HIDE DEF r, m
    <3>3. r = 0
      BY <3>2
    <3> QED
      BY <3>3 DEF r
  <2> QED
    BY <1>1, <2>1, <2>2, <2>3
<1> QED
  BY <1>2, <1>3 DEF q

(* UnixNano tells a time from the zero time unless it wraps.               *)
LEMMA NanosWrap ==
  ASSUME NEW t \in Moments
  PROVE  UnixNano(t) = UnixNano(Zero) <=> Wraps(t)
<1> DEFINE elapsed == t.sec * Parts + t.part
<1>1. Parts \in Nat \ {0} /\ NanoRange \in Nat \ {0} /\ t.sec \in Nat /\ t.part \in Nat
  BY TimesAssumption DEF Moments
<1>2. t.sec * Parts \in Nat
  BY <1>1
<1>3. elapsed \in Nat
  BY <1>1, <1>2
<1>4. 0 * Parts + 0 = 0 /\ 0 % NanoRange = 0
  BY <1>1
<1>5. UnixNano(Zero) = 0
  BY <1>4 DEF UnixNano, Zero
<1> HIDE DEF elapsed
<1>6. elapsed % NanoRange = 0 <=> \E k \in 0..elapsed \div NanoRange : elapsed = k * NanoRange
  BY <1>1, <1>3, WholeRanges
<1> QED
  BY <1>5, <1>6 DEF UnixNano, Wraps, elapsed

(* The round trips of time.go, for nil and any time since year 1 and       *)
(* whatever the row had before: which times come back, to what precision,  *)
(* and which are lost, of the years from 10000 on and by the wrapping of   *)
(* UnixNano, wherever the offset changes and whatever a part of a second.  *)
THEOREM TimesAreKept ==
  /\ \A t \in Moments \cup {Nil} : \A old \in Moments : TimeSurvives(t, old)
  /\ Sampled => TimesSurvive
<1> USE DEF Nil, Zero, NoText, Tick, LMT, Standard
<1>1. (29143 \div 60) * 60 = 29100 /\ (28800 \div 60) * 60 = 28800 /\ 29143 % 60 = 43
  OBVIOUS
<1>2. ASSUME NEW t \in Moments \cup {Nil}, NEW old \in Moments
      PROVE  TimeSurvives(t, old)
  <2> DEFINE u == UnmarshalJSON(MarshalJSON(t))
             d == FromDB(old, ToDB(t))
             v == Scan(old, Value(t))
             kept == CASE ~Modern(t) -> [sec |-> t.sec + (LMT % Tick), part |-> 0]
                       [] Modern(t) /\ FourDigits(t) -> WholeSecond(t)
                       [] OTHER -> Zero
  <2>1. CASE t = Nil
    <3>1. ~Reads(NoText)
      BY DEF Reads
    <3> QED
      BY <2>1, <3>1 DEF TimeSurvives, UnmarshalJSON, MarshalJSON, FromDB, ToDB, Scan, Value,
                        parseInlocation2jsonTime
  <2>2. ASSUME t # Nil
        PROVE  /\ t \in Moments /\ t.sec \in Nat
               /\ Format(t) # NoText /\ parseInlocation2jsonTime(Format(t)) = kept
    <3>1. t \in Moments /\ t.sec \in Nat /\ t = [sec |-> t.sec, part |-> t.part]
      BY <2>2 DEF Moments
    <3>2. StandardTime \in Nat /\ EndOfYears \in Nat /\ StandardTime + 29143 <= EndOfYears
      BY TimesAssumption
    <3>3. CASE Modern(t)
      <4>1. Format(t) = [wall |-> t.sec + 28800, zone |-> 28800] /\ t.sec + 28800 # -1
        BY <1>1, <3>1, <3>2, <3>3 DEF Format, ZoneOffset, Modern
      <4>2. Reads(Format(t)) <=> FourDigits(t)
        BY <4>1 DEF Reads, FourDigits
      <4>3. Parse(Format(t)) = [sec |-> t.sec, part |-> 0]
        BY <3>1, <4>1 DEF Parse
      <4>4. WholeSecond(t) = [sec |-> t.sec, part |-> 0]
        BY <3>1 DEF WholeSecond
      <4> QED
        BY <3>1, <3>3, <4>1, <4>2, <4>3, <4>4 DEF parseInlocation2jsonTime
    <3>4. CASE ~Modern(t)
      <4>1. Format(t) = [wall |-> t.sec + 29143, zone |-> 29100] /\ t.sec + 29143 # -1
        BY <1>1, <3>1, <3>2, <3>4 DEF Format, ZoneOffset, Modern
      <4>2. t.sec + 29143 < EndOfYears
        BY <3>1, <3>2, <3>4 DEF Modern
      <4>3. Reads(Format(t))
        BY <4>1, <4>2 DEF Reads
      <4>4. Parse(Format(t)) = [sec |-> t.sec + 43, part |-> 0]
        BY <3>1, <4>1 DEF Parse
      <4> QED
        BY <1>1, <3>1, <3>4, <4>1, <4>3, <4>4 DEF parseInlocation2jsonTime
    <3> QED
      BY <3>3, <3>4
  <2>3. t # Nil => v = IF Wraps(t) THEN old ELSE t
    BY <2>2, NanosWrap DEF Scan, Value
  <2>4. t # Nil => d = kept
    BY <2>2 DEF FromDB, ToDB
  <2>5. CASE t = Zero
    <3>1. ~Modern(t) /\ t.sec = 0 /\ t # Nil
      BY <2>5, TimesAssumption DEF Modern
    <3>2. u = Zero
      BY <2>5 DEF UnmarshalJSON, MarshalJSON, parseInlocation2jsonTime, Reads
    <3>3. d # Zero
      BY <1>1, <2>4, <3>1
    <3>4. v = old
      BY <2>5 DEF Scan, Value
    <3> QED
      BY <2>5, <3>1, <3>2, <3>3, <3>4 DEF TimeSurvives
  <2>6. CASE t # Nil /\ t # Zero
    <3>1. u = kept
      BY <2>2, <2>6 DEF UnmarshalJSON, MarshalJSON
    <3>2. u = kept /\ d = u /\ v = IF Wraps(t) THEN old ELSE t
      BY <2>3, <2>4, <2>6, <3>1
    <3> QED
      BY <2>6, <3>2 DEF TimeSurvives
  <2> QED
    BY <2>1, <2>5, <2>6
<1>3. Sampled => TimesSurvive
  <2> SUFFICES ASSUME Sampled, sample[1] = "time" PROVE TimeSurvives(sample[2], sample[3])
    BY DEF TimesSurvive
  <2>1. PICK t \in Instants \cup {Nil}, old \in {Zero, [sec |-> StandardTime, part |-> 0]} :
          sample = <<"time", t, old>>
    BY DEF Sampled
  <2>2. t \in Moments \cup {Nil} /\ old \in Moments
    BY TimesAssumption DEF Instants, Moments
  <2> QED
    BY <1>2, <2>1, <2>2
<1> QED
  BY <1>2, <1>3
-----------------------------------------------------------------------------
(* Pages.                                                                  *)

(* What comes before page i + 1 is less than the n rows as long as there   *)
(* are more than i pages.                                                  *)
LEMMA PagesReach ==
  ASSUME NEW n \in Nat, NEW c \in Nat \ {0}
  PROVE  /\ Pages(n, c) \in Nat
         /\ \A i \in Nat : c * i < n <=> i < Pages(n, c)
<1> DEFINE q == n \div c
<1>1. q \in Nat /\ c * q <= n /\ n < c * q + c
  OBVIOUS
<1>2. n % c \in Nat /\ (n % c > 0 <=> c * q < n)
  OBVIOUS
<1>3. Pages(n, c) = IF c * q < n THEN q + 1 ELSE q
  BY <1>1, <1>2 DEF Pages
<1> HIDE DEF q
<1>4. ASSUME NEW i \in Nat PROVE c * i < n <=> i < Pages(n, c)
  <2>1. c * i \in Nat /\ c * q \in Nat
    BY <1>1, Multiples
  <2>2. CASE i < q
    BY <1>1, <1>3, <2>1, <2>2, Multiples
  <2>3. CASE i = q
    BY <1>1, <1>3, <2>1, <2>3
  <2>4. CASE q < i
    BY <1>1, <1>3, <2>1, <2>4, Multiples
  <2> QED
    BY <1>1, <2>2, <2>3, <2>4
<1> QED
  BY <1>1, <1>3, <1>4

(* The rows of a page of the rows 1..n.                                    *)
LEMMA RowsOfAPage ==
  ASSUME NEW n \in Nat, NEW c \in 1..maxCount, NEW i \in Nat
  PROVE  LET data == Find(n, c * i, c) IN
         /\ Cardinality(data) <= maxCount
         /\ data = {} <=> ~(i < Pages(n, c))
         /\ \A r \in data : i = (r - 1) \div c
<1> DEFINE data == Find(n, c * i, c)
<1>1. c * i \in Nat /\ c \in Nat \ {0} /\ c <= maxCount
  BY PagingAssumption, Multiples
<1>2. data \in SUBSET ((c * i + 1)..(c * i + c))
  BY <1>1 DEF Find
<1>3. IsFiniteSet((c * i + 1)..(c * i + c)) /\ Cardinality((c * i + 1)..(c * i + c)) = c
  BY <1>1, FS_Interval
<1>4. Cardinality(data) <= maxCount
  <2>1. IsFiniteSet(data) /\ Cardinality(data) <= c
    BY <1>2, <1>3, FS_Subset
  <2> QED
    BY <1>1, <2>1, PagingAssumption, FS_CardinalityType
<1>5. data = {} <=> ~(c * i < n)
  <2>1. c * i < n => c * i + 1 \in data
    BY <1>1 DEF Find
  <2>2. \A r \in data : c * i < n
    BY <1>1 DEF Find
  <2> QED
    BY <2>1, <2>2
<1>6. ASSUME NEW r \in data PROVE i = (r - 1) \div c
  <2>1. r \in Nat /\ c * i <= r - 1 /\ r - 1 < c * i + c
    BY <1>1, <1>6 DEF Find
  <2>2. (r - 1) \div c \in Nat /\ c * ((r - 1) \div c) <= r - 1 /\ r - 1 < c * ((r - 1) \div c) + c
    BY <1>1, <2>1
  <2> QED
    BY <1>1, <2>1, <2>2, Multiples
<1> QED
  BY <1>1, <1>4, <1>5, <1>6, PagesReach

(* QueryRows: for any number of rows, any page size and any limit, the     *)
(* pages are a partition of the rows, none is larger than the limit, and   *)
(* what is asked for beyond them is empty.                                 *)
THEOREM PagesPartition ==
  /\ \A n \in Nat : \A c \in Int : PagesCover(n, c)
  /\ Sampled => PagesCoverRows
<1>1. ASSUME NEW n \in Nat, NEW c \in Int PROVE PagesCover(n, c)
  <2> DEFINE At(i) == QueryRows(n, [page |-> i, count |-> c])
             k == PageCount([page |-> 1, count |-> c])
             last == Pages(n, k)
             Rows(i) == Find(n, k * (i - 1), k)
  <2>1. \A i \in Int : PageCount([page |-> i, count |-> c]) = k
    BY DEF PageCount
  <2>2. CASE c < 0
    <3>1. k < 0
      BY <2>2, PagingAssumption DEF PageCount
    <3>2. At(1).error
      BY <2>1, <3>1 DEF QueryRows, QueryError
    <3> QED
      BY <2>2, <3>2 DEF PagesCover
  <2>3. CASE ~(c < 0)
    <3>1. k \in 1..maxCount /\ k \in Nat \ {0}
      BY <2>3, PagingAssumption DEF PageCount, Default
    <3> HIDE DEF k
    <3>2. last \in Nat /\ \A i \in Nat : k * i < n <=> i < last
      BY <3>1, PagesReach
    <3>3. \A i \in Nat : k * i \in Nat /\ ~(k < 0)
      BY <3>1, Multiples
    <3> HIDE DEF At, last, Rows
    <3>4. ASSUME NEW i \in Nat \ {0}
          PROVE  /\ ~At(i).error /\ At(i).data = Rows(i)
                 /\ At(i).count = IF Rows(i) = {} THEN 0 ELSE n
                 /\ At(i).pages = IF Rows(i) = {} THEN 0 ELSE last
                 /\ Rows(i) \subseteq 1..n
                 /\ Cardinality(Rows(i)) <= maxCount
                 /\ Rows(i) = {} <=> i > last
                 /\ \A r \in Rows(i) : i - 1 = (r - 1) \div k
      <4>1. i - 1 \in Nat /\ (i - 1 < last <=> ~(i > last))
        BY <3>2
      <4>2. Offset([page |-> i, count |-> c]) = k * (i - 1) /\ k * (i - 1) \in Nat
        BY <2>1, <3>3, <4>1 DEF Offset, Page
      <4>3. At(i) = [error |-> FALSE, data |-> Rows(i),
                     count |-> IF Rows(i) = {} THEN 0 ELSE n,
                     pages |-> IF Rows(i) = {} THEN 0 ELSE last]
        <5> DEFINE p == [page |-> i, count |-> c]
        <5>1. PageCount(p) = k /\ Offset(p) = k * (i - 1)
          BY <2>1, <4>2
        <5> HIDE DEF p
        <5>2. ~(Offset(p) < 0 \/ PageCount(p) < 0)
          BY <3>3, <4>2, <5>1
        <5>3. QueryRows(n, p) = [error |-> FALSE, data |-> Rows(i),
                                 count |-> IF Rows(i) = {} THEN 0 ELSE n,
                                 pages |-> IF Rows(i) = {} THEN 0 ELSE last]
          BY <5>1, <5>2, Zenon DEF QueryRows, Rows, last
        <5> QED
          BY <5>3 DEF At, p
      <4>4. /\ Cardinality(Rows(i)) <= maxCount
            /\ Rows(i) = {} <=> ~(i - 1 < last)
            /\ \A r \in Rows(i) : i - 1 = (r - 1) \div k
        BY <3>1, <4>1, RowsOfAPage DEF Rows, last
      <4>5. Rows(i) \subseteq 1..n
        BY DEF Rows, Find
      <4> QED
        BY <4>1, <4>3, <4>4, <4>5
    <3>5. At(0) = At(1)
      <4>1. Offset([page |-> 0, count |-> c]) = Offset([page |-> 1, count |-> c])
        BY <2>1 DEF Offset, Page
      <4>2. PageCount([page |-> 0, count |-> c]) = PageCount([page |-> 1, count |-> c])
        BY DEF PageCount
      <4> QED
        BY <4>1, <4>2, Zenon DEF QueryRows, At
    <3>6. At(-1).error
      <4>1. Offset([page |-> -1, count |-> c]) < 0
        <5>1. Offset([page |-> -1, count |-> c]) = k * (-2)
          BY <2>1 DEF Offset, Page
        <5> QED
          BY <3>1, <5>1
      <4> QED
        BY <4>1 DEF QueryRows, QueryError, At
    <3>7. At(1).pages = last
      BY <3>2, <3>4
    <3>8. UNION {At(i).data : i \in 1..last} = 1..n
      <4>1. ASSUME NEW i \in 1..last PROVE At(i).data \subseteq 1..n
        BY <3>2, <3>4
      <4>2. ASSUME NEW r \in 1..n PROVE \E i \in 1..last : r \in At(i).data
        <5> DEFINE q == (r - 1) \div k
        <5>1. q \in Nat /\ k * q <= r - 1 /\ r - 1 < k * q + k
          BY <3>1
        <5> HIDE DEF q
        <5>2. k * q \in Nat /\ k * q < n
          BY <3>3, <5>1
        <5>3. q + 1 \in 1..last /\ (q + 1) - 1 = q
          BY <3>2, <5>1, <5>2
        <5>4. r \in Rows(q + 1)
          BY <3>1, <5>1, <5>2, <5>3 DEF Find, Rows
        <5>5. r \in At(q + 1).data
          BY <3>4, <5>1, <5>4
        <5> QED
          BY <5>3, <5>5
      <4> QED
        BY <4>1, <4>2
    <3>9. ASSUME NEW i \in 1..last, NEW j \in 1..last, i # j
          PROVE  At(i).data \cap At(j).data = {}
      <4>1. \A r \in At(i).data : i - 1 = (r - 1) \div k
        BY <3>2, <3>4
      <4>2. \A r \in At(j).data : j - 1 = (r - 1) \div k
        BY <3>2, <3>4
      <4> QED
        BY <3>2, <3>9, <4>1, <4>2
    <3>10. ASSUME NEW i \in 1..MaxPage
           PROVE  /\ Cardinality(At(i).data) <= maxCount
                  /\ i > last <=> At(i).data = {}
                  /\ At(i).count = IF i > last THEN 0 ELSE n
      BY <3>2, <3>4, PagingAssumption
    <3>11. ~At(1).error
      BY <3>4
    <3> QED
      BY <2>3, <3>5, <3>6, <3>7, <3>8, <3>9, <3>10, <3>11 DEF PagesCover, At
  <2> QED
    BY <2>2, <2>3
<1>2. Sampled => PagesCoverRows
  <2> SUFFICES ASSUME Sampled, sample[1] = "rows" PROVE PagesCover(sample[2], sample[3])
    BY DEF PagesCoverRows
  <2>1. PICK n \in 0..MaxRows, c \in -1..MaxPageCount : sample = <<"rows", n, c>>
    BY DEF Sampled
  <2> QED
    BY <1>1, <2>1, PagingAssumption
<1> QED
  BY <1>1, <1>2
-----------------------------------------------------------------------------
(* Numbers.                                                                *)

(* What the recursive function of the powers computes.                     *)
LEMMA Powers ==
  /\ Power2[0] = 1
  /\ \A n \in Nat : Power2[n] \in Nat \ {0} /\ Power2[n + 1] = 2 * Power2[n]
<1> DEFINE S == Nat \ {0}
           twice == [k \in Nat \ {0} |-> [p \in S |-> 2 * p]]
           Ok(f) == f = [n \in Nat |-> IF n = 0 THEN 1 ELSE 2 * f[n - 1]]
<1>1. 1 \in S /\ twice \in [Nat \ {0} -> [S -> S]]
  OBVIOUS
<1>2. \A k \in Nat \ {0} : \A p \in S : twice[k][p] = 2 * p
  OBVIOUS
<1> HIDE DEF twice
<1>3. PICK f : RecursiveOnNat(f, S, 1, twice)
  <2> HIDE DEF S
  <2> QED
    BY <1>1, RecursionOnNat
<1>4. f \in [Nat -> S] /\ f[0] = 1 /\ \A k \in Nat \ {0} : f[k] = twice[k][f[k - 1]]
  BY <1>3 DEF RecursiveOnNat, Goes
<1>5. ASSUME NEW k \in Nat \ {0} PROVE f[k] = 2 * f[k - 1]
  <2>1. f[k - 1] \in S
    BY <1>4
  <2> QED
    BY <1>2, <1>4, <2>1
<1>6. Ok(f)
  BY <1>4, <1>5
<1>7. Ok(Power2)
  <2>1. Power2 = CHOOSE g : Ok(g)
    BY DEF Power2
  <2> HIDE DEF Ok
  <2> QED
    BY <1>6, <2>1
<1> DEFINE T == {n \in Nat : Power2[n] \in S}
<1>8. Power2[0] = 1 /\ 0 \in T
  BY <1>7
<1>9. ASSUME NEW n \in Nat PROVE Power2[n + 1] = 2 * Power2[n]
  BY <1>7
<1>10. \A n \in Nat : n \in T => n + 1 \in T
  BY <1>9
<1>11. Nat \subseteq T
  <2> HIDE DEF T
  <2> QED
    BY <1>8, <1>10, Induction
<1> QED
  BY <1>8, <1>9, <1>11

LEMMA PowersGrow ==
  ASSUME NEW m \in Nat, NEW n \in Nat, m < n
  PROVE  Power2[m] < Power2[n]
<1> DEFINE T == {k \in Nat : Power2[m] < Power2[m + 1 + k]}
<1>1. 0 \in T
  BY Powers
<1>2. ASSUME NEW k \in Nat, k \in T PROVE k + 1 \in T
  <2>1. Power2[(m + 1 + k) + 1] = 2 * Power2[m + 1 + k] /\ Power2[m + 1 + k] \in Nat \ {0}
    BY Powers
  <2>2. m + 1 + (k + 1) = (m + 1 + k) + 1 /\ Power2[m] \in Nat
    BY Powers
  <2> QED
    BY <1>2, <2>1, <2>2
<1>3. Nat \subseteq T
  <2> HIDE DEF T
  <2> QED
    BY <1>1, <1>2, Induction
<1>4. n - (m + 1) \in Nat /\ m + 1 + (n - (m + 1)) = n
  OBVIOUS
<1>5. \A k \in T : Power2[m] < Power2[m + 1 + k]
  OBVIOUS
<1> HIDE DEF T
<1> QED
  BY <1>3, <1>4, <1>5

LEMMA ExactFits == Exact \subseteq Ints /\ 0 \in Exact
<1>1. Mantissa \in Nat /\ Width - 1 \in Nat /\ Mantissa < Width - 1
  BY BeanAssumption
<1>2. Power2[Mantissa] < Power2[Width - 1] /\ Power2[Mantissa] \in Nat /\ Power2[Width - 1] \in Nat
  BY <1>1, Powers, PowersGrow
<1> QED
  BY <1>2 DEF Exact, Ints

(* A float has room for every number of Mantissa bits, and for the next.   *)
LEMMA ExactStays ==
  ASSUME NEW n \in Exact
  PROVE  ToFloat(n) = n
<1> DEFINE M == Mantissa
           a == IF n < 0 THEN -n ELSE n
           Fits(i) == a < Power2[M + i] /\ (i = 0 \/ a >= Power2[M + i - 1])
           e == CHOOSE i \in 0..Width : Fits(i)
           unit == Power2[e]
           q == a \div unit
           up == 2 * (a % unit) > unit \/ (2 * (a % unit) = unit /\ q % 2 = 1)
           f == unit * (IF up THEN q + 1 ELSE q)
<1>1. M \in Nat \ {0} /\ M - 1 \in Nat /\ 0 \in 0..Width /\ 1 \in 0..Width
  BY BeanAssumption
<1>2. n \in Int /\ a \in Nat /\ a <= Power2[M] /\ Power2[M] \in Nat
  BY <1>1, Powers DEF Exact
<1>3. ToFloat(n) = IF n < 0 THEN -f ELSE f
  BY DEF ToFloat
<1> HIDE DEF a
<1>4. CASE a < Power2[M]
  <2>1. Fits(0)
    BY <1>1, <1>4
  <2>2. ASSUME NEW i \in 0..Width, Fits(i) PROVE i = 0
    <3> SUFFICES ASSUME i # 0 PROVE FALSE
      OBVIOUS
    <3>1. M + i - 1 \in Nat /\ M <= M + i - 1
      BY <1>1
    <3>2. Power2[M] <= Power2[M + i - 1] /\ Power2[M + i - 1] \in Nat
      BY <1>1, <1>2, <3>1, Powers, PowersGrow
    <3> QED
      BY <1>2, <1>4, <2>2, <3>2
  <2>3. e = 0
    <3> HIDE DEF Fits
    <3> QED
      BY <1>1, <2>1, <2>2
  <2>4. unit = 1
    BY <2>3, Powers
  <2>5. q = a /\ a % unit = 0
    BY <1>2, <2>4
  <2>6. f = a
    <3> HIDE DEF unit, q
    <3> QED
      BY <1>2, <2>4, <2>5
  <2> HIDE DEF f
  <2> QED
    BY <1>2, <1>3, <2>6 DEF a
<1>5. CASE a = Power2[M]
  <2>1. Power2[M] = 2 * Power2[M - 1] /\ Power2[M + 1] = 2 * Power2[M] /\ Power2[M - 1] \in Nat \ {0}
    BY <1>1, Powers
  <2>2. Fits(1)
    BY <1>1, <1>2, <1>5, <2>1
  <2>3. ASSUME NEW i \in 0..Width, Fits(i) PROVE i = 1
    <3>1. CASE i = 0
      BY <1>1, <1>2, <1>5, <2>3, <3>1
    <3>2. CASE i > 1
      <4>1. M + i - 1 \in Nat /\ M < M + i - 1
        BY <1>1, <3>2
      <4>2. Power2[M] < Power2[M + i - 1] /\ Power2[M + i - 1] \in Nat
        BY <1>1, <1>2, <4>1, Powers, PowersGrow
      <4> QED
        BY <1>2, <1>5, <2>3, <3>2, <4>2
    <3> QED
      BY <3>1, <3>2
  <2>4. e = 1
    <3> HIDE DEF Fits
    <3> QED
      BY <1>1, <2>2, <2>3
  <2>5. unit = 2
    <3>1. Power2[0 + 1] = 2 * Power2[0] /\ Power2[0] = 1
      BY Powers
    <3> HIDE DEF e
    <3> QED
      BY <2>4, <3>1
  <2>6. a = 2 * Power2[M - 1]
    BY <1>5, <2>1
  <2>7. q = Power2[M - 1] /\ a % unit = 0
    <3> DEFINE h == Power2[M - 1]
    <3>1. (2 * h) \div 2 = h /\ (2 * h) % 2 = 0
      BY <2>1
    <3> QED
      BY <2>5, <2>6, <3>1
  <2>8. f = a
    <3> HIDE DEF unit, q
    <3> QED
      BY <1>2, <2>1, <2>5, <2>6, <2>7
  <2> HIDE DEF f
  <2> QED
    BY <1>2, <1>3, <2>8 DEF a
<1> QED
  BY <1>2, <1>4, <1>5
-----------------------------------------------------------------------------
(* Beans.                                                                  *)

(* What is marshalled again as floats and read into a bean.                *)
LEMMA MarshalsOf ==
  ASSUME NEW bean \in [Columns -> Int]
  PROVE  /\ DOMAIN Marshal(bean) = {c \in Named : c = "plain" \/ bean[c] # 0}
         /\ \A c \in DOMAIN Marshal(bean) : Marshal(bean)[c] = bean[c]
         /\ DOMAIN Bean2Map(bean) = DOMAIN Marshal(bean)
         /\ \A c \in DOMAIN Marshal(bean) : Bean2Map(bean)[c] = ToFloat(bean[c])
BY DEF Marshal, Bean2Map, Named, OmitEmpty

(* CopyBean of any number of the target's width: it is the number itself   *)
(* if a float holds it exactly, else the number the float is, or an error. *)
THEOREM CopiesAreFloats ==
  /\ \A n \in Ints : CopyIsExact(n)
  /\ Sampled => CopiesAreExact
<1>1. ASSUME NEW n \in Ints PROVE CopyIsExact(n)
  <2> DEFINE b == [NewValue EXCEPT !.id = n, !.plain = n]
             h == [b EXCEPT !.hidden = 1]
             f == ToFloat(n)
             D == {c \in Named : c = "plain" \/ (n # 0 /\ c = "id")}
             copy == IF f \in Ints THEN <<[b EXCEPT !.id = f, !.plain = f]>> ELSE <<>>
  <2>1. n \in Int /\ ToFloat(0) = 0
    BY ExactFits, ExactStays, Powers DEF Ints
  <2>2. /\ b \in [Columns -> Int] /\ b["id"] = n /\ b["plain"] = n /\ b["omit"] = 0 /\ b["hidden"] = 0
        /\ h \in [Columns -> Int] /\ h["id"] = n /\ h["plain"] = n /\ h["omit"] = 0
    <3>1. b \in [Columns -> Int] /\ b["id"] = n /\ b["plain"] = n /\ b["omit"] = 0 /\ b["hidden"] = 0
      <4>1. b = [c \in Columns |-> IF c \in {"id", "plain"} THEN n ELSE 0]
        BY DEF NewValue, Columns, Named
      <4> HIDE DEF b
      <4> QED
        BY <2>1, <4>1 DEF Columns, Named
    <3> HIDE DEF b
    <3> QED
      BY <3>1 DEF Columns, Named
  <2>3. f \in Ints => [b EXCEPT !.id = f, !.plain = f]
                      = [c \in Columns |-> IF c \in D THEN f ELSE 0]
    BY <2>1 DEF NewValue, Columns, Named
  <2> HIDE DEF b, h, f
  <2>4. ASSUME NEW x \in {b, h} PROVE CopyBean(x) = copy
    <3>1. x \in [Columns -> Int] /\ \A c \in Named : x[c] = IF c = "omit" THEN 0 ELSE n
      BY <2>2 DEF Named
    <3>2. DOMAIN Bean2Map(x) = D /\ \A c \in D : Bean2Map(x)[c] = f
      BY <3>1, MarshalsOf DEF f, Named
    <3> HIDE DEF D
    <3>3. "plain" \in D /\ \A c \in Columns : NewValue[c] = 0
      BY DEF D, Named, NewValue
    <3>4. CASE f \in Ints
      BY <2>3, <3>2, <3>3, <3>4 DEF CopyBean, ToBean, Unmarshal
    <3>5. CASE f \notin Ints
      BY <3>2, <3>3, <3>5 DEF CopyBean, ToBean, Unmarshal
    <3> QED
      BY <3>4, <3>5
  <2>5. n \in Exact => CopyBean(b) = <<b>>
    <3> SUFFICES ASSUME n \in Exact PROVE CopyBean(b) = <<b>>
      OBVIOUS
    <3>1. f = n /\ f \in Ints
      BY ExactFits, ExactStays DEF f
    <3>2. [b EXCEPT !.id = f, !.plain = f] = b
      BY <2>2, <3>1 DEF b, NewValue
    <3> QED
      BY <2>4, <3>1, <3>2
  <2>6. CopyBean(h) = copy /\ CopyBean(b) = copy
    BY <2>4
  <2> QED
    BY <2>5, <2>6 DEF CopyIsExact, b, h, f
<1>2. Sampled => CopiesAreExact
  <2> SUFFICES ASSUME Sampled, sample[1] = "number" PROVE CopyIsExact(sample[2])
    BY DEF CopiesAreExact
  <2>1. PICK n \in Ints : sample = <<"number", n>>
    BY DEF Sampled
  <2> QED
    BY <1>1, <2>1
<1> QED
  BY <1>1, <1>2

ExactBeans == [Columns -> Exact]
ChangesOf(numbers) == UNION {[d -> numbers] : d \in SUBSET Named}

(* Reading over a bean: the text's numbers, then the bean's.               *)
LEMMA TextWins ==
  ASSUME NEW text \in ChangesOf(Ints), NEW bean \in [Columns -> Int]
  PROVE  Unmarshal(text, bean)
         = <<[c \in Columns |-> IF c \in DOMAIN text THEN text[c] ELSE bean[c]]>>
BY DEF Unmarshal, ChangesOf

LEMMA ExactBeansMap ==
  ASSUME NEW bean \in ExactBeans
  PROVE  /\ bean \in [Columns -> Int]
         /\ Marshal(bean) \in ChangesOf(Ints) /\ Bean2Map(bean) \in ChangesOf(Ints)
         /\ DOMAIN Marshal(bean) = {c \in Named : c = "plain" \/ bean[c] # 0}
         /\ DOMAIN Bean2Map(bean) = DOMAIN Marshal(bean)
         /\ \A c \in DOMAIN Marshal(bean) : Marshal(bean)[c] = bean[c] /\ Bean2Map(bean)[c] = bean[c]
<1>1. bean \in [Columns -> Int] /\ \A c \in Columns : bean[c] \in Exact
  BY Powers, BeanAssumption DEF ExactBeans, Exact
<1>2. \A c \in Named : ToFloat(bean[c]) = bean[c] /\ bean[c] \in Ints
  BY <1>1, ExactFits, ExactStays DEF Columns
<1>3. /\ DOMAIN Marshal(bean) = {c \in Named : c = "plain" \/ bean[c] # 0}
      /\ \A c \in DOMAIN Marshal(bean) : Marshal(bean)[c] = bean[c]
      /\ DOMAIN Bean2Map(bean) = DOMAIN Marshal(bean)
      /\ \A c \in DOMAIN Marshal(bean) : Bean2Map(bean)[c] = ToFloat(bean[c])
  BY <1>1, MarshalsOf
<1>4. /\ DOMAIN Marshal(bean) \in SUBSET Named
      /\ Marshal(bean) \in [DOMAIN Marshal(bean) -> Ints]
      /\ Bean2Map(bean) \in [DOMAIN Marshal(bean) -> Ints]
  BY <1>2, <1>3 DEF Marshal, Bean2Map
<1> QED
  BY <1>1, <1>2, <1>3, <1>4 DEF ChangesOf

(* A map over a bean: the map's numbers, then the bean's.                *)
LEMMA MergedBean ==
  ASSUME NEW m \in ChangesOf(Ints), NEW bean \in ExactBeans
  PROVE  Merge2Bean(m, bean)
         = <<[c \in Columns |-> IF c \in DOMAIN m THEN m[c] ELSE bean[c]]>>
<1> DEFINE mp == Bean2Map(bean)
           text == MergeTo(m, mp)
<1>1. /\ bean \in [Columns -> Int] /\ mp \in ChangesOf(Ints)
      /\ \A c \in DOMAIN mp : mp[c] = bean[c]
  BY ExactBeansMap
<1>2. /\ text \in ChangesOf(Ints) /\ DOMAIN text = DOMAIN m \cup DOMAIN mp
      /\ \A c \in DOMAIN text : text[c] = IF c \in DOMAIN m THEN m[c] ELSE mp[c]
  <2> HIDE DEF mp
  <2>1. text = [c \in DOMAIN m \cup DOMAIN mp |-> IF c \in DOMAIN m THEN m[c] ELSE mp[c]]
    BY DEF MergeTo
  <2> HIDE DEF text
  <2>2. text \in [DOMAIN m \cup DOMAIN mp -> Ints] /\ DOMAIN m \cup DOMAIN mp \in SUBSET Named
    BY <1>1, <2>1 DEF ChangesOf
  <2> QED
    BY <2>1, <2>2 DEF ChangesOf
<1>3. Merge2Bean(m, bean) = Unmarshal(text, bean)
  BY DEF Merge2Bean, ToBean
<1> HIDE DEF text, mp
<1>4. Unmarshal(text, bean) = <<[c \in Columns |-> IF c \in DOMAIN text THEN text[c] ELSE bean[c]]>>
  BY <1>1, <1>2, TextWins
<1>5. [c \in Columns |-> IF c \in DOMAIN text THEN text[c] ELSE bean[c]]
      = [c \in Columns |-> IF c \in DOMAIN m THEN m[c] ELSE bean[c]]
  BY <1>1, <1>2
<1> QED
  BY <1>3, <1>4, <1>5

(* Update: for any bean and row whose numbers are exact and any changes of *)
(* the columns with a name, each column is written from where it should be.*)
THEOREM UpdatesMerge ==
  /\ \A bean, row \in [Columns -> Exact] :
       \A changes \in UNION {[d -> Ints] : d \in SUBSET Named} : Merges(bean, row, changes)
  /\ Sampled => UpdateMergesColumns
<1>1. ASSUME NEW bean \in ExactBeans, NEW row \in ExactBeans, NEW changes \in ChangesOf(Ints)
      PROVE  Merges(bean, row, changes)
  <2> DEFINE copy == [c \in Columns |-> IF c = "hidden" THEN 0 ELSE bean[c]]
             found == [c \in Columns |->
                        CASE c = "hidden" -> 0
                          [] c = "plain" -> row[c]
                          [] OTHER -> IF row[c] # 0 THEN row[c] ELSE bean[c]]
             merged == [c \in Columns |->
                         CASE c = "hidden" -> 0
                           [] c = "plain" -> bean[c]
                           [] OTHER -> IF bean[c] # 0 THEN bean[c] ELSE row[c]]
  <2>1. \A b \in ExactBeans : \A c \in Columns : b[c] \in Exact
    BY DEF ExactBeans
  <2>2. copy \in ExactBeans /\ found \in ExactBeans /\ merged \in ExactBeans
    BY <2>1, ExactFits DEF ExactBeans
  <2>3. CopyBean(bean)[1] = copy
    <3>1. /\ Bean2Map(bean) \in ChangesOf(Ints)
          /\ DOMAIN Bean2Map(bean) = {c \in Named : c = "plain" \/ bean[c] # 0}
          /\ \A c \in DOMAIN Bean2Map(bean) : Bean2Map(bean)[c] = bean[c]
      BY ExactBeansMap
    <3>2. NewValue \in [Columns -> Int] /\ \A c \in Columns : NewValue[c] = 0
      BY DEF NewValue
    <3>3. CopyBean(bean) = <<[c \in Columns |->
             IF c \in DOMAIN Bean2Map(bean) THEN Bean2Map(bean)[c] ELSE NewValue[c]]>>
      BY <3>1, <3>2, TextWins DEF CopyBean, ToBean
    <3>4. [c \in Columns |->
             IF c \in DOMAIN Bean2Map(bean) THEN Bean2Map(bean)[c] ELSE NewValue[c]] = copy
      BY <3>1, <3>2 DEF Columns, Named
    <3> QED
      BY <3>3, <3>4
  <2>4. Unmarshal(Marshal(row), copy)[1] = found
    <3>1. /\ Marshal(row) \in ChangesOf(Ints) /\ copy \in [Columns -> Int]
          /\ DOMAIN Marshal(row) = {c \in Named : c = "plain" \/ row[c] # 0}
          /\ \A c \in DOMAIN Marshal(row) : Marshal(row)[c] = row[c]
      BY <2>2, ExactBeansMap
    <3>2. Unmarshal(Marshal(row), copy) = <<[c \in Columns |->
             IF c \in DOMAIN Marshal(row) THEN Marshal(row)[c] ELSE copy[c]]>>
      <4> HIDE DEF copy
      <4> QED
        BY <3>1, TextWins
    <3>3. [c \in Columns |-> IF c \in DOMAIN Marshal(row) THEN Marshal(row)[c] ELSE copy[c]] = found
      BY <3>1 DEF Columns, Named
    <3> QED
      BY <3>2, <3>3
  <2>5. MergeBeans(found, bean)[1] = merged
    <3>1. /\ Bean2Map(bean) \in ChangesOf(Ints)
          /\ DOMAIN Bean2Map(bean) = {c \in Named : c = "plain" \/ bean[c] # 0}
          /\ \A c \in DOMAIN Bean2Map(bean) : Bean2Map(bean)[c] = bean[c]
      BY ExactBeansMap
    <3>2. MergeBeans(found, bean) = <<[c \in Columns |->
             IF c \in DOMAIN Bean2Map(bean) THEN Bean2Map(bean)[c] ELSE found[c]]>>
      <4> HIDE DEF found
      <4> QED
        BY <2>2, <3>1, MergedBean DEF MergeBeans
    <3>3. [c \in Columns |->
             IF c \in DOMAIN Bean2Map(bean) THEN Bean2Map(bean)[c] ELSE found[c]] = merged
      BY <2>1, <3>1 DEF Columns, Named
    <3> QED
      BY <3>2, <3>3
  <2>6. NewBean(bean, row, changes) = Merge2Bean(changes, merged)
    <3> HIDE DEF copy, found, merged
    <3> QED
      BY <2>3, <2>4, <2>5 DEF NewBean
  <2>7. Merge2Bean(changes, merged)
        = <<[c \in Columns |-> IF c \in DOMAIN changes THEN changes[c] ELSE merged[c]]>>
    <3> HIDE DEF merged
    <3> QED
      BY <2>2, MergedBean
  <2>8. DOMAIN changes \subseteq Named
    BY DEF ChangesOf
  <2>9. [c \in Columns |-> IF c \in DOMAIN changes THEN changes[c] ELSE merged[c]]
        = [c \in Columns |->
             CASE c = "hidden" -> 0
               [] c \in DOMAIN changes -> changes[c]
               [] c \in Named \ DOMAIN changes ->
                    IF c = "plain" \/ bean[c] # 0 THEN bean[c] ELSE row[c]]
    BY <2>8 DEF Columns, Named
  <2>10. MergeBean(row, changes) = Merge2Bean(changes, row)
    BY DEF MergeBean, Merge2Bean, ToBean
  <2> QED
    BY <2>6, <2>7, <2>9, <2>10 DEF Merges
<1>2. Sampled => UpdateMergesColumns
  <2> SUFFICES ASSUME Sampled, sample[1] = "beans" PROVE UpdateMerges(sample[2], sample[3])
    BY DEF UpdateMergesColumns
  <2>1. PICK bean \in FewBeans, row \in FewBeans : sample = <<"beans", bean, row>>
    BY DEF Sampled
  <2>2. Few \subseteq Exact
    <3>1. Power2[Mantissa] >= 2
      <4>1. Power2[0 + 1] = 2 * Power2[0] /\ Power2[0] = 1
        BY Powers
      <4>2. Mantissa = 1 \/ Power2[1] < Power2[Mantissa]
        BY BeanAssumption, PowersGrow
      <4> QED
        BY <4>1, <4>2, BeanAssumption, Powers
    <3> QED
      BY <3>1, BeanAssumption, Powers DEF Few, Exact
  <2>3. bean \in ExactBeans /\ row \in ExactBeans
    BY <2>2 DEF FewBeans, ExactBeans
  <2>4. Changes \subseteq ChangesOf(Ints)
    <3>1. Few \subseteq Ints
      BY <2>2, ExactFits
    <3> QED
      BY <3>1 DEF Changes, ChangesOf, Named
  <2> QED
    BY <1>1, <2>1, <2>3, <2>4 DEF UpdateMerges
<1> QED
  BY <1>1, <1>2 DEF ExactBeans, ChangesOf
-----------------------------------------------------------------------------
(* Names.                                                                  *)

Marks == Letters \cup {"."}
Lower == Small \cup {"_", "."}      \* what no capital is among

SnakeStates == [out : Seq(Lower), j : BOOLEAN]
SnakeStart == [out |-> <<>>, j |-> FALSE]

LEMMA OneIsASequence ==
  ASSUME NEW S, NEW e \in S
  PROVE  <<e>> \in Seq(S) /\ <<>> \in Seq(S)
OBVIOUS

(* What a letter adds to what there is, and whether it counts.             *)
Line(j, d) == IF d \in Capital /\ j THEN <<"_">> ELSE <<>>
Added(out, j, d) == out \o Line(j, d) \o <<ToLower(d)>>
Counts(j, d, dots) == d \notin Capital \cup dots /\ (j \/ d # "_")

LEMMA LetterAdds ==
  ASSUME NEW acc, NEW d, NEW dots
  PROVE  /\ NextLetter(acc, d, dots).out = Added(acc.out, acc.j, d)
         /\ NextLetter(acc, d, dots).j = Counts(acc.j, d, dots)
         /\ NextLetter(acc, d, dots) = [out |-> Added(acc.out, acc.j, d), j |-> Counts(acc.j, d, dots)]
BY DEF NextLetter, Line, Added, Counts

LEMMA LineFits ==
  ASSUME NEW j, NEW d \in Marks
  PROVE  Line(j, d) \in Seq(Lower) /\ <<ToLower(d)>> \in Seq(Lower)
<1>1. ToLower(d) \in Lower /\ "_" \in Lower
  BY DEF ToLower, Marks, Letters, Capital, Small, Lower
<1>2. <<"_">> \in Seq(Lower) /\ <<>> \in Seq(Lower) /\ <<ToLower(d)>> \in Seq(Lower)
  BY <1>1, OneIsASequence, Zenon
<1> QED
  BY <1>2 DEF Line

LEMMA AddedFits ==
  ASSUME NEW out \in Seq(Lower), NEW j, NEW d \in Marks
  PROVE  Added(out, j, d) \in Seq(Lower)
<1> DEFINE line == Line(j, d)
           letter == <<ToLower(d)>>
<1>1. line \in Seq(Lower) /\ letter \in Seq(Lower)
  BY LineFits
<1> HIDE DEF line, letter
<1>2. out \o line \in Seq(Lower)
  BY <1>1, ConcatProperties
<1>3. (out \o line) \o letter \in Seq(Lower)
  BY <1>1, <1>2, ConcatProperties
<1> QED
  BY <1>3 DEF Added, line, letter

(* What there was before stays before.                                     *)
LEMMA AddedAfter ==
  ASSUME NEW before \in Seq(Lower), NEW out \in Seq(Lower), NEW j, NEW d \in Marks
  PROVE  Added(before \o out, j, d) = before \o Added(out, j, d)
<1> DEFINE line == Line(j, d)
           letter == <<ToLower(d)>>
           both == out \o line
<1>1. line \in Seq(Lower) /\ letter \in Seq(Lower)
  BY LineFits
<1> HIDE DEF line, letter
<1>2. both \in Seq(Lower)
  BY <1>1, ConcatProperties
<1>3. (before \o out) \o line = before \o both
  BY <1>1, ConcatAssociative
<1> HIDE DEF both
<1>4. (before \o both) \o letter = before \o (both \o letter)
  BY <1>1, <1>2
<1>5. ((before \o out) \o line) \o letter = before \o (both \o letter)
  BY <1>3, <1>4, Zenon
<1> QED
  BY <1>5, Zenon DEF Added, line, letter, both

LEMMA LettersFit ==
  ASSUME NEW acc \in SnakeStates, NEW d \in Marks, NEW dots
  PROVE  NextLetter(acc, d, dots) \in SnakeStates
<1>1. acc.out \in Seq(Lower) /\ acc.j \in BOOLEAN
  BY DEF SnakeStates
<1>2. Added(acc.out, acc.j, d) \in Seq(Lower)
  BY <1>1, AddedFits
<1>3. Counts(acc.j, d, dots) \in BOOLEAN
  BY <1>1 DEF Counts
<1>4. [out |-> Added(acc.out, acc.j, d), j |-> Counts(acc.j, d, dots)] \in SnakeStates
  BY <1>2, <1>3 DEF SnakeStates
<1> QED
  BY <1>4, LetterAdds, Zenon

LEMMA LowerLetter ==
  ASSUME NEW acc \in SnakeStates, NEW d \in Lower, NEW dots
  PROVE  NextLetter(acc, d, dots).out = acc.out \o <<d>>
<1>1. ToLower(d) = d /\ Line(acc.j, d) = <<>>
  BY DEF Lower, Capital, Small, ToLower, Line
<1>2. acc.out \in Seq(Lower)
  BY DEF SnakeStates
<1>3. acc.out \o <<>> = acc.out
  BY <1>2, ConcatEmptySeq
<1>4. NextLetter(acc, d, dots).out = Added(acc.out, acc.j, d)
  BY LetterAdds, Zenon
<1> QED
  BY <1>1, <1>3, <1>4, Zenon DEF Added

(* What the recursive function of SnakeString's loop computes.             *)
LEMMA SnakeGoes ==
  ASSUME NEW s \in Seq(Marks), NEW dots
  PROVE  /\ Snake(s, dots) \in [0..Len(s) -> SnakeStates]
         /\ Snake(s, dots)[0] = SnakeStart
         /\ \A k \in 1..Len(s) : Snake(s, dots)[k] = NextLetter(Snake(s, dots)[k - 1], s[k], dots)
<1> DEFINE n == Len(s)
           letters == [k \in 1..n |-> [acc \in SnakeStates |-> NextLetter(acc, s[k], dots)]]
           Ok(f) == f = [k \in 0..n |-> IF k = 0 THEN [out |-> <<>>, j |-> FALSE]
                                        ELSE NextLetter(f[k - 1], s[k], dots)]
<1>1. n \in Nat /\ \A k \in 1..n : s[k] \in Marks
  OBVIOUS
<1>2. SnakeStart \in SnakeStates
  BY DEF SnakeStart, SnakeStates
<1>3. Snake(s, dots) = CHOOSE f : Ok(f)
  BY DEF Snake, n
<1> HIDE DEF n
<1>4. letters \in [1..n -> [SnakeStates -> SnakeStates]]
  BY <1>1, LettersFit
<1>5. \A k \in 1..n : \A acc \in SnakeStates : letters[k][acc] = NextLetter(acc, s[k], dots)
  OBVIOUS
<1> HIDE DEF letters
<1>6. PICK f : RecursiveTo(f, n, SnakeStates, SnakeStart, letters)
  BY <1>1, <1>2, <1>4, RecursionTo
<1>7. f \in [0..n -> SnakeStates] /\ f[0] = SnakeStart /\ \A k \in 1..n : f[k] = letters[k][f[k - 1]]
  BY <1>6 DEF RecursiveTo, Goes
<1>8. \A k \in 1..n : f[k] = NextLetter(f[k - 1], s[k], dots)
  BY <1>1, <1>5, <1>7
<1>9. Ok(f)
  BY <1>1, <1>7, <1>8 DEF SnakeStart
<1>10. Ok(Snake(s, dots))
  <2> HIDE DEF Ok
  <2> QED
    BY <1>3, <1>9
<1> DEFINE g == Snake(s, dots)
           T == {k \in 0..n : g[k] \in SnakeStates}
<1>11. g = [k \in 0..n |-> IF k = 0 THEN SnakeStart ELSE NextLetter(g[k - 1], s[k], dots)]
  BY <1>10 DEF SnakeStart
<1> HIDE DEF g
<1>12. 0 \in T
  BY <1>1, <1>2, <1>11
<1>13. ASSUME NEW k \in 0..n - 1, k \in T PROVE k + 1 \in T
  <2>1. g[k + 1] = NextLetter(g[k], s[k + 1], dots)
    BY <1>1, <1>11
  <2> QED
    BY <1>1, <1>13, <2>1, LettersFit
<1>14. 0..n \subseteq T
  <2> HIDE DEF T
  <2> QED
    BY <1>1, <1>12, <1>13, InductionTo
<1>15. g \in [0..n -> SnakeStates]
  BY <1>11, <1>14
<1>16. \A k \in 1..n : g[k] = NextLetter(g[k - 1], s[k], dots)
  BY <1>1, <1>11
<1>17. g[0] = SnakeStart
  BY <1>1, <1>11
<1> QED
  BY <1>15, <1>16, <1>17, Zenon DEF g, n

(* What has no capital is its own snake name.                              *)
LEMMA LowerStays ==
  ASSUME NEW w \in Seq(Lower), NEW dots
  PROVE  Snake(w, dots)[Len(w)].out = w
<1> DEFINE n == Len(w)
           g == Snake(w, dots)
           T == {k \in 0..n : g[k].out = SubSeq(w, 1, k)}
<1>1. w \in Seq(Marks) /\ n \in Nat
  <2>1. Lower \subseteq Marks
    BY DEF Lower, Marks, Letters, Capital, Small
  <2> QED
    BY <2>1, SeqMonotonic
<1>2. /\ g[0] = SnakeStart
      /\ \A k \in 1..n : g[k] = NextLetter(g[k - 1], w[k], dots)
      /\ \A k \in 0..n : g[k] \in SnakeStates
  BY <1>1, SnakeGoes
<1> HIDE DEF g
<1>3. 0 \in T
  <2>1. SubSeq(w, 1, 0) = <<>>
    BY SubSeqEmpty
  <2>2. g[0].out = <<>>
    BY <1>2 DEF SnakeStart
  <2>3. g[0].out = SubSeq(w, 1, 0) /\ 0 \in 0..n
    BY <1>1, <2>1, <2>2
  <2> QED
    BY <2>3, Zenon
<1>4. ASSUME NEW k \in 0..n - 1, k \in T PROVE k + 1 \in T
  <2>1. k + 1 \in 1..n /\ k \in 0..n /\ w[k + 1] \in Lower
    BY <1>1
  <2>3. g[k + 1] = NextLetter(g[k], w[k + 1], dots)
    BY <1>2, <2>1
  <2>4. g[k] \in SnakeStates /\ g[k].out = SubSeq(w, 1, k)
    BY <1>2, <1>4, <2>1
  <2>6. g[k + 1].out = SubSeq(w, 1, k) \o <<w[k + 1]>>
    <3>1. NextLetter(g[k], w[k + 1], dots).out = g[k].out \o <<w[k + 1]>>
      BY <2>1, <2>4, LowerLetter, Zenon
    <3> QED
      BY <2>3, <2>4, <3>1, Zenon
  <2>7. SubSeq(w, 1, k) \o <<w[k + 1]>> = SubSeq(w, 1, k + 1)
    BY <2>1
  <2> QED
    BY <2>1, <2>6, <2>7
<1>5. 0..n \subseteq T
  <2> HIDE DEF T
  <2> QED
    BY <1>1, <1>3, <1>4, InductionTo
<1>6. g[n].out = SubSeq(w, 1, n)
  BY <1>1, <1>5
<1> QED
  BY <1>6 DEF g

(* Where the loop comes to a word and no letter counts any more, it does   *)
(* with the word what it does with the word alone.                         *)
LEMMA SnakeResumes ==
  ASSUME NEW p \in Seq(Marks), NEW w \in Seq(Letters), NEW dots \in {{}, {"."}},
         NEW m \in Nat, m + Len(w) <= Len(p), \A i \in 1..Len(w) : p[m + i] = w[i],
         ~Snake(p, dots)[m].j
  PROVE  \A k \in 0..Len(w) :
           /\ Snake(p, dots)[m + k].out = Snake(p, dots)[m].out \o Snake(w, {})[k].out
           /\ Snake(p, dots)[m + k].j = Snake(w, {})[k].j
<1> DEFINE n == Len(w)
           f == Snake(p, dots)
           g == Snake(w, {})
           T == {k \in 0..n : f[m + k].out = f[m].out \o g[k].out /\ f[m + k].j = g[k].j}
<1>1. w \in Seq(Marks) /\ n \in Nat /\ Len(p) \in Nat
  <2>1. Letters \subseteq Marks
    BY DEF Marks
  <2> QED
    BY <2>1, SeqMonotonic
<1>2. /\ f \in [0..Len(p) -> SnakeStates]
      /\ \A k \in 1..Len(p) : f[k] = NextLetter(f[k - 1], p[k], dots)
  BY SnakeGoes
<1>3. /\ g \in [0..n -> SnakeStates] /\ g[0] = SnakeStart
      /\ \A k \in 1..n : g[k] = NextLetter(g[k - 1], w[k], {})
  BY <1>1, SnakeGoes
<1>4. ~f[m].j
  OBVIOUS
<1> HIDE DEF f, g
<1>5. m \in 0..Len(p) /\ f[m].out \in Seq(Lower)
  <2>1. m \in 0..Len(p)
    BY <1>1
  <2> QED
    BY <1>2, <2>1 DEF SnakeStates
<1>6. 0 \in T
  <2>1. g[0].out = <<>> /\ g[0].j = FALSE /\ f[m].j = FALSE
    BY <1>2, <1>3, <1>4, <1>5 DEF SnakeStart, SnakeStates
  <2>2. f[m].out \o <<>> = f[m].out
    BY <1>5, ConcatEmptySeq
  <2>3. m + 0 = m /\ 0 \in 0..n
    BY <1>1
  <2> QED
    BY <2>1, <2>2, <2>3, Zenon
<1>7. ASSUME NEW k \in 0..n - 1, k \in T PROVE k + 1 \in T
  <2> DEFINE d == w[k + 1]
  <2>1. k + 1 \in 1..n /\ k \in 0..n /\ m + k \in 0..Len(p) /\ m + (k + 1) \in 1..Len(p)
    BY <1>1
  <2>2. d \in Letters /\ p[m + (k + 1)] = d
    BY <2>1
  <2>3. f[m + (k + 1)] = NextLetter(f[m + k], d, dots) /\ g[k + 1] = NextLetter(g[k], d, {})
    BY <1>2, <1>3, <2>1, <2>2
  <2>4. f[m + k].out = f[m].out \o g[k].out /\ f[m + k].j = g[k].j
    BY <1>7
  <2>5. d \notin dots /\ d \in Marks
    BY <2>2 DEF Letters, Capital, Small, Marks
  <2>6. g[k].out \in Seq(Lower) /\ f[m].out \in Seq(Lower)
    BY <1>3, <1>5, <2>1 DEF SnakeStates
  <2> HIDE DEF d
  <2>7. f[m + (k + 1)].out = Added(f[m].out \o g[k].out, g[k].j, d)
    <3>1. NextLetter(f[m + k], d, dots).out = Added(f[m + k].out, f[m + k].j, d)
      BY LetterAdds, Zenon
    <3> QED
      BY <2>3, <2>4, <3>1, Zenon
  <2>8. g[k + 1].out = Added(g[k].out, g[k].j, d)
    <3>1. NextLetter(g[k], d, {}).out = Added(g[k].out, g[k].j, d)
      BY LetterAdds, Zenon
    <3> QED
      BY <2>3, <3>1, Zenon
  <2>9. f[m + (k + 1)].j = g[k + 1].j
    <3>1. NextLetter(f[m + k], d, dots).j = Counts(f[m + k].j, d, dots)
      BY LetterAdds
    <3>2. NextLetter(g[k], d, {}).j = Counts(g[k].j, d, {})
      BY LetterAdds
    <3>3. Counts(g[k].j, d, dots) = Counts(g[k].j, d, {})
      BY <2>5 DEF Counts
    <3> QED
      BY <2>3, <2>4, <3>1, <3>2, <3>3, Zenon
  <2>10. f[m + (k + 1)].out = f[m].out \o g[k + 1].out
    <3>1. Added(f[m].out \o g[k].out, g[k].j, d) = f[m].out \o Added(g[k].out, g[k].j, d)
      <4> DEFINE before == f[m].out
                 out == g[k].out
                 j == g[k].j
      <4>1. before \in Seq(Lower) /\ out \in Seq(Lower) /\ d \in Marks
        BY <2>5, <2>6
      <4> HIDE DEF before, out, j
      <4>2. Added(before \o out, j, d) = before \o Added(out, j, d)
        BY <4>1, AddedAfter
      <4> QED
        BY <4>2 DEF before, out, j
    <3> QED
      BY <2>7, <2>8, <3>1, Zenon
  <2>11. k + 1 \in 0..n
    BY <2>1
  <2> QED
    BY <2>9, <2>10, <2>11, Zenon
<1>8. 0..n \subseteq T
  <2> HIDE DEF T
  <2> QED
    BY <1>1, <1>6, <1>7, InductionTo
<1> QED
  BY <1>8 DEF f, g

(* The snake name of a name has no capitals and is its own snake name.     *)
LEMMA SnakeNames ==
  ASSUME NEW w \in Seq(Letters)
  PROVE  SnakeString(w) \in Seq(Lower) /\ SnakeString(SnakeString(w)) = SnakeString(w)
<1>1. w \in Seq(Marks) /\ Len(w) \in 0..Len(w)
  <2>1. Letters \subseteq Marks
    BY DEF Marks
  <2> QED
    BY <2>1, SeqMonotonic
<1>2. Snake(w, {})[Len(w)] \in SnakeStates
  BY <1>1, SnakeGoes
<1>3. SnakeString(w) \in Seq(Lower)
  BY <1>2 DEF SnakeStates, SnakeString
<1> DEFINE o == SnakeString(w)
<1> HIDE DEF o
<1>4. o \in Seq(Lower)
  BY <1>3 DEF o
<1>5. SnakeString(o) = o
  BY <1>4, LowerStays DEF SnakeString
<1> QED
  BY <1>4, <1>5 DEF o

IsJoin(c, a, b, S) ==
  /\ c \in Seq(S) /\ Len(c) = Len(a) + Len(b)
  /\ \A i \in 1..Len(a) : c[i] = a[i]
  /\ \A i \in 1..Len(b) : c[Len(a) + i] = b[i]

LEMMA Joins ==
  ASSUME NEW S, NEW a \in Seq(S), NEW b \in Seq(S)
  PROVE  IsJoin(a \o b, a, b, S)
<1>1. Len(a) \in Nat /\ Len(b) \in Nat /\ a \o b \in Seq(S)
  OBVIOUS
<1>2. Len(a \o b) = Len(a) + Len(b)
  OBVIOUS
<1>3. ASSUME NEW i \in 1..Len(a) PROVE (a \o b)[i] = a[i]
  OBVIOUS
<1>4. ASSUME NEW i \in 1..Len(b) PROVE (a \o b)[Len(a) + i] = b[i]
  OBVIOUS
<1> QED
  BY <1>1, <1>2, <1>3, <1>4 DEF IsJoin

LEMMA PathFits ==
  ASSUME NEW a \in Seq(Marks), NEW b \in Seq(Marks)
  PROVE  /\ Path(a, b) \in Seq(Marks) /\ Len(Path(a, b)) = Len(a) + 1 + Len(b)
         /\ \A i \in 1..Len(a) : Path(a, b)[i] = a[i]
         /\ Path(a, b)[Len(a) + 1] = "."
         /\ \A i \in 1..Len(b) : Path(a, b)[Len(a) + 1 + i] = b[i]
<1> DEFINE dot == <<".">>
           c == a \o dot
<1>1. dot \in Seq(Marks) /\ Len(dot) = 1 /\ dot[1] = "."
  BY DEF Marks
<1> HIDE DEF dot
<1>2. Len(a) \in Nat /\ Len(b) \in Nat
  OBVIOUS
<1>3. IsJoin(c, a, dot, Marks)
  BY <1>1, Joins
<1> HIDE DEF c
<1>4. /\ c \in Seq(Marks) /\ Len(c) = Len(a) + 1 /\ c[Len(a) + 1] = "."
      /\ \A i \in 1..Len(a) : c[i] = a[i]
  BY <1>1, <1>2, <1>3 DEF IsJoin
<1> DEFINE p == c \o b
<1>5. Path(a, b) = p
  BY DEF Path, c, dot
<1>6. IsJoin(p, c, b, Marks)
  BY <1>4, Joins
<1> HIDE DEF p
<1> QED
  BY <1>2, <1>4, <1>5, <1>6 DEF IsJoin

(* snakePath of a namespace and a name is what registration makes of them. *)
LEMMA PathSnakes ==
  ASSUME NEW ns \in Seq(Letters), NEW w \in Seq(Letters)
  PROVE  snakePath(Path(ns, w)) = Path(SnakeString(ns), SnakeString(w))
<1> DEFINE p == Path(ns, w)
           a == Len(ns)
           f == Snake(p, {"."})
<1>1. ns \in Seq(Marks) /\ w \in Seq(Marks) /\ a \in Nat /\ Len(w) \in Nat
  <2>1. Letters \subseteq Marks
    BY DEF Marks
  <2> QED
    BY <2>1, SeqMonotonic
<1>2. /\ p \in Seq(Marks) /\ Len(p) = a + 1 + Len(w)
      /\ \A i \in 1..a : p[i] = ns[i]
      /\ p[a + 1] = "."
      /\ \A i \in 1..Len(w) : p[a + 1 + i] = w[i]
  BY <1>1, PathFits
<1> HIDE DEF p
<1>3. /\ f \in [0..Len(p) -> SnakeStates] /\ f[0] = SnakeStart
      /\ \A k \in 1..Len(p) : f[k] = NextLetter(f[k - 1], p[k], {"."})
  BY <1>2, SnakeGoes
<1>4. f[a].out = SnakeString(ns)
  <2>1. \A k \in 0..a : f[0 + k].out = f[0].out \o Snake(ns, {})[k].out
    <3>1. ~f[0].j /\ 0 + Len(ns) <= Len(p) /\ \A i \in 1..a : p[0 + i] = ns[i]
      BY <1>1, <1>2, <1>3 DEF SnakeStart
    <3>2. 0 \in Nat /\ {"."} \in {{}, {"."}}
      OBVIOUS
    <3> QED
      BY <1>2, <3>1, <3>2, SnakeResumes
  <2>2. f[0].out = <<>> /\ 0 + a = a /\ a \in 0..a
    BY <1>1, <1>3 DEF SnakeStart
  <2>3. Snake(ns, {})[a].out \in Seq(Lower)
    BY SnakeNames DEF SnakeString
  <2>4. <<>> \o Snake(ns, {})[a].out = Snake(ns, {})[a].out
    BY <2>3, ConcatEmptySeq
  <2>5. f[a].out = f[0].out \o Snake(ns, {})[a].out
    BY <2>1, <2>2
  <2> QED
    BY <2>2, <2>4, <2>5, Zenon DEF SnakeString
<1>5. f[a + 1].out = SnakeString(ns) \o <<".">> /\ ~f[a + 1].j
  <2>1. f[a] \in SnakeStates /\ f[a + 1] = NextLetter(f[a], ".", {"."})
    BY <1>1, <1>2, <1>3
  <2>2. NextLetter(f[a], ".", {"."}).out = f[a].out \o <<".">>
    <3>1. "." \in Lower
      BY DEF Lower
    <3> QED
      BY <2>1, <3>1, LowerLetter, Zenon
  <2>3. ~NextLetter(f[a], ".", {"."}).j
    BY DEF NextLetter
  <2> QED
    BY <1>4, <2>1, <2>2, <2>3, Zenon
<1>6. f[Len(p)].out = (SnakeString(ns) \o <<".">>) \o SnakeString(w)
  <2>1. \A k \in 0..Len(w) : f[a + 1 + k].out = f[a + 1].out \o Snake(w, {})[k].out
    <3>1. a + 1 \in Nat /\ a + 1 + Len(w) <= Len(p)
      BY <1>1, <1>2
    <3> QED
      BY <1>2, <1>5, <3>1, SnakeResumes
  <2>2. Len(w) \in 0..Len(w) /\ Len(p) = a + 1 + Len(w)
    BY <1>1, <1>2
  <2>3. f[Len(p)].out = f[a + 1].out \o Snake(w, {})[Len(w)].out
    BY <2>1, <2>2
  <2> QED
    BY <1>5, <2>3, Zenon DEF SnakeString
<1> QED
  BY <1>6, Zenon DEF snakePath, Path, p

(* A snake name has no dots.                                               *)
LEMMA SnakeHasNoDot ==
  ASSUME NEW w \in Seq(Letters)
  PROVE  \A i \in 1..Len(SnakeString(w)) : SnakeString(w)[i] # "."
<1> DEFINE Under == Small \cup {"_"}
           n == Len(w)
           g == Snake(w, {})
           T == {k \in 0..n : g[k].out \in Seq(Under)}
<1>1. w \in Seq(Marks) /\ n \in Nat /\ \A k \in 1..n : w[k] \in Letters
  <2>1. Letters \subseteq Marks
    BY DEF Marks
  <2> QED
    BY <2>1, SeqMonotonic
<1>2. g[0] = SnakeStart /\ \A k \in 1..n : g[k] = NextLetter(g[k - 1], w[k], {})
  BY <1>1, SnakeGoes
<1> HIDE DEF g, n
<1>3. ASSUME NEW out \in Seq(Under), NEW j, NEW d \in Letters
      PROVE  Added(out, j, d) \in Seq(Under)
  <2> DEFINE line == Line(j, d)
             letter == <<ToLower(d)>>
  <2>1. ToLower(d) \in Under /\ "_" \in Under
    BY DEF ToLower, Letters, Capital, Small
  <2> HIDE DEF Under
  <2>2. letter \in Seq(Under) /\ <<"_">> \in Seq(Under) /\ <<>> \in Seq(Under)
    BY <2>1, OneIsASequence, Zenon
  <2>3. line \in Seq(Under)
    BY <2>2 DEF Line
  <2> HIDE DEF line, letter
  <2>4. out \o line \in Seq(Under)
    BY <2>3, ConcatProperties
  <2>5. (out \o line) \o letter \in Seq(Under)
    BY <2>2, <2>4, ConcatProperties
  <2> QED
    BY <2>5 DEF Added, line, letter
<1>4. 0 \in T
  <2>1. <<>> \in Seq(Under)
    OBVIOUS
  <2>2. g[0].out = <<>> /\ 0 \in 0..n
    BY <1>1, <1>2 DEF SnakeStart
  <2> HIDE DEF Under
  <2>3. g[0].out \in Seq(Under)
    BY <2>1, <2>2, Zenon
  <2> QED
    BY <2>2, <2>3, Zenon
<1>5. ASSUME NEW k \in 0..n - 1, k \in T PROVE k + 1 \in T
  <2> HIDE DEF Under
  <2>1. k + 1 \in 1..n /\ g[k + 1] = NextLetter(g[k], w[k + 1], {}) /\ w[k + 1] \in Letters
    BY <1>1, <1>2
  <2>2. g[k + 1].out = Added(g[k].out, g[k].j, w[k + 1])
    <3>1. NextLetter(g[k], w[k + 1], {}).out = Added(g[k].out, g[k].j, w[k + 1])
      BY LetterAdds
    <3> QED
      BY <2>1, <3>1, Zenon
  <2>3. g[k + 1].out \in Seq(Under)
    BY <1>3, <1>5, <2>1, <2>2
  <2> QED
    BY <1>1, <2>1, <2>3
<1>6. 0..n \subseteq T
  <2> HIDE DEF T
  <2> QED
    BY <1>1, <1>4, <1>5, InductionTo
<1>7. g[n].out \in Seq(Under)
  <2> HIDE DEF Under
  <2>1. n \in 0..n
    BY <1>1
  <2> QED
    BY <1>6, <2>1, Zenon
<1>8. SnakeString(w) = g[n].out
  BY DEF SnakeString, g, n
<1>9. "." \notin Under
  BY DEF Small
<1> HIDE DEF Under
<1> QED
  BY <1>7, <1>8, <1>9

(* Exported names: the first letter is a capital.                          *)
Exported == {w \in Seq(Letters) : w # <<>> /\ w[1] \in Capital}

LEMMA SampledNames ==
  /\ GoNames \subseteq Exported
  /\ <<"A", "a">> \in Seq(Letters)
<1>1. "A" \in Letters /\ "a" \in Letters
  BY DEF Letters, Capital, Small
<1>2. <<"A", "a">> \in Seq(Letters)
  BY <1>1
<1>3. ASSUME NEW w \in GoNames PROVE w \in Exported
  <2>1. PICK n \in 1..MaxName : w \in [1..n -> Letters]
    BY DEF GoNames, Words
  <2>2. n \in Nat /\ n # 0
    OBVIOUS
  <2>3. w \in Seq(Letters) \ {<<>>}
    BY <2>1, <2>2, SeqDef
  <2> QED
    BY <2>3 DEF GoNames, Exported
<1> QED
  BY <1>2, <1>3

-----------------------------------------------------------------------------
(* Middlewares.                                                            *)

(* The paths of two names in one namespace.                                *)
LEMMA PathsDiffer ==
  ASSUME NEW a \in Seq(Marks), NEW b \in Seq(Marks), NEW c \in Seq(Marks)
  PROVE  Path(a, b) = Path(a, c) <=> b = c
<1> DEFINE p == Path(a, b)
           q == Path(a, c)
<1>1. /\ p \in Seq(Marks) /\ Len(p) = Len(a) + 1 + Len(b)
      /\ \A i \in 1..Len(b) : p[Len(a) + 1 + i] = b[i]
  BY PathFits
<1>2. /\ q \in Seq(Marks) /\ Len(q) = Len(a) + 1 + Len(c)
      /\ \A i \in 1..Len(c) : q[Len(a) + 1 + i] = c[i]
  BY PathFits
<1> HIDE DEF p, q
<1>3. ASSUME p = q PROVE b = c
  <2>1. Len(a) \in Nat /\ Len(b) \in Nat /\ Len(c) \in Nat
    OBVIOUS
  <2>2. Len(b) = Len(c)
    BY <1>1, <1>2, <1>3, <2>1
  <2>3. ASSUME NEW i \in 1..Len(b) PROVE b[i] = c[i]
    BY <1>1, <1>2, <1>3, <2>2
  <2> QED
    BY <2>2, <2>3, SeqEqual
<1> QED
  BY <1>3 DEF p, q

(* What excludes q lets a method through that p names if q does not match. *)
LEMMA ExclusionsDecide ==
  ASSUME NEW p, NEW q, NEW method, methodPathEqual(p, method), NEW ls \in Excluding(p, q)
  PROVE  getMatchFunction(AddBeforeMiddleware(ls), method) <=> ~methodPathEqual(q, method)
<1> DEFINE info == AddBeforeMiddleware(ls)
<1>1. ToSet(<<p>>) = {p} /\ ToSet(<<q>>) = {q} /\ ToSet(<<>>) = {}
  <2>1. ASSUME NEW e PROVE ToSet(<<e>>) = {e}
    <3>1. DOMAIN <<e>> = {1} /\ <<e>>[1] = e
      OBVIOUS
    <3> DEFINE one == <<e>>
    <3> HIDE DEF one
    <3>2. DOMAIN one = {1} /\ one[1] = e
      BY <3>1 DEF one
    <3>3. ToSet(one) = {e}
      BY <3>2 DEF ToSet
    <3> QED
      BY <3>3 DEF one
  <2>2. ToSet(<<>>) = {}
    BY DEF ToSet
  <2> QED
    BY <2>1, <2>2
<1>2. /\ ls # <<>> /\ ls[1] = <<p>>
      /\ \/ 2..Len(ls) = {2} /\ ls[2] = <<q>>
         \/ 2..Len(ls) = {2, 3} /\ ls[2] = <<>> /\ ls[3] = <<q>>
  <2>1. CASE ls = <<<<p>>, <<q>>>>
    <3>1. Len(ls) = 2 /\ ls[1] = <<p>> /\ ls[2] = <<q>>
      BY <2>1
    <3> QED
      BY <3>1
  <2>2. CASE ls = <<<<p>>, <<>>, <<q>>>>
    <3>1. Len(ls) = 3 /\ ls[1] = <<p>> /\ ls[2] = <<>> /\ ls[3] = <<q>>
      BY <2>2
    <3> QED
      BY <3>1
  <2> QED
    BY <2>1, <2>2 DEF Excluding
<1>3. info.all = FALSE /\ info.method = {p} /\ info.excludes = {q}
  <2>1. UNION {ToSet(ls[i]) : i \in 2..Len(ls)} = {q}
    <3>1. {ToSet(ls[i]) : i \in 2..Len(ls)} \in {{{q}}, {{}, {q}}}
      BY <1>1, <1>2
    <3> QED
      BY <3>1
  <2> QED
    BY <1>1, <1>2, <2>1 DEF AddBeforeMiddleware
<1> HIDE DEF info
<1> QED
  BY <1>3 DEF getMatchFunction, info

(* AddBeforeMiddleware: for any namespace made from a type's name and any  *)
(* two exported names, whatever the spelling and however many lists there  *)
(* are: what a middleware guards that names the one method and excludes    *)
(* the other, whose pattern is searched for anywhere in the path.          *)
THEOREM GuardsFitNames ==
  /\ \A ns \in Seq(Letters) : \A v, w \in Exported : NameGuarded(ns, v, w)
  /\ Sampled => NamedAreGuarded
<1>1. ASSUME NEW ns \in Seq(Letters), NEW v \in Exported, NEW w \in Exported
      PROVE  NameGuarded(ns, v, w)
  <2> DEFINE a == SnakeString(ns)
             mine == SnakeString(v)
             its == SnakeString(w)
             goV == Path(ns, v)
             goW == Path(ns, w)
             knownV == Path(a, mine)
             knownW == Path(a, its)
             Guards(ls) == getMatchFunction(AddBeforeMiddleware(ls), knownV)
  <2>1. /\ v \in Seq(Letters) /\ w \in Seq(Letters)
        /\ w[1] \in Capital /\ 1 \in 1..Len(w)
    BY DEF Exported
  <2>2. /\ a \in Seq(Lower) /\ mine \in Seq(Lower) /\ its \in Seq(Lower)
        /\ SnakeString(a) = a /\ SnakeString(its) = its
        /\ \A i \in 1..Len(its) : its[i] # "."
    BY <2>1, SnakeNames, SnakeHasNoDot
  <2>3. /\ snakePath(goV) = knownV /\ snakePath(goW) = knownW
    BY <2>1, PathSnakes
  <2> HIDE DEF a, mine, its
  <2>4. /\ Lower \subseteq Marks /\ Letters \subseteq Marks /\ Lower \cap Capital = {}
        /\ "." \notin Capital
    BY DEF Marks, Letters, Capital, Small, Lower
  <2>5. /\ a \in Seq(Marks) /\ mine \in Seq(Marks) /\ its \in Seq(Marks)
        /\ ns \in Seq(Marks) /\ w \in Seq(Marks)
    BY <2>1, <2>2, <2>4, SeqMonotonic
  <2>6. knownV = knownW <=> mine = its
    BY <2>5, PathsDiffer
  <2>7. /\ knownV \in Seq(Marks) /\ Len(knownV) = Len(a) + 1 + Len(mine)
        /\ \A i \in 1..Len(a) : knownV[i] = a[i]
        /\ knownV[Len(a) + 1] = "."
        /\ \A i \in 1..Len(mine) : knownV[Len(a) + 1 + i] = mine[i]
    BY <2>5, PathFits
  <2>8. /\ knownW \in Seq(Marks) /\ Len(knownW) = Len(a) + 1 + Len(its)
        /\ \A i \in 1..Len(a) : knownW[i] = a[i]
        /\ knownW[Len(a) + 1] = "."
        /\ \A i \in 1..Len(its) : knownW[Len(a) + 1 + i] = its[i]
    BY <2>5, PathFits
  <2>9. /\ goW \in Seq(Marks) /\ Len(ns) + 1 + 1 \in 1..Len(goW)
        /\ goW[Len(ns) + 1 + 1] \in Capital
    <3>1. /\ goW \in Seq(Marks) /\ Len(goW) = Len(ns) + 1 + Len(w)
          /\ \A k \in 1..Len(w) : goW[Len(ns) + 1 + k] = w[k]
      BY <2>5, PathFits
    <3> HIDE DEF goW
    <3> QED
      BY <2>1, <2>5, <3>1
  <2> HIDE DEF goV, goW, knownV, knownW
  <2>10. Len(a) \in Nat /\ Len(mine) \in Nat /\ Len(its) \in Nat
    BY <2>5
  <2>11. \A k \in 1..Len(knownV) : knownV[k] \notin Capital
    <3> SUFFICES ASSUME NEW k \in 1..Len(knownV) PROVE knownV[k] \notin Capital
      OBVIOUS
    <3>1. CASE k \in 1..Len(a) \/ k = Len(a) + 1
      BY <2>2, <2>4, <2>7, <3>1
    <3>2. CASE k > Len(a) + 1
      <4> DEFINE i == k - (Len(a) + 1)
      <4>1. i \in 1..Len(mine) /\ k = Len(a) + 1 + i
        BY <2>7, <2>10, <3>2
      <4> HIDE DEF i
      <4>2. knownV[k] = mine[i] /\ mine[i] \in Lower
        BY <2>2, <2>7, <4>1
      <4> QED
        BY <2>4, <4>2
    <3> QED
      BY <2>10, <3>1, <3>2
  <2>12. methodPathEqual(goW, knownV) <=> mine = its
    <3> DEFINE i == Len(ns) + 1 + 1
    <3>1. i \in DOMAIN goW /\ goW[i] \in Capital /\ i \in 1..Len(goW) /\ Len(goW) \in Nat
      BY <2>9
    <3> HIDE DEF i
    <3>2. ASSUME NEW k \in 0..Len(knownV) - Len(goW)
          PROVE  goW[i] # "." /\ goW[i] # knownV[k + i]
      <4>1. k + i \in 1..Len(knownV)
        BY <2>7, <2>10, <3>1
      <4> QED
        BY <2>4, <2>11, <3>1, <4>1
    <3>3. goW # knownV /\ ~Found(goW, knownV)
      BY <2>11, <3>1, <3>2 DEF Found
    <3> QED
      BY <2>3, <2>6, <3>3 DEF methodPathEqual
  <2>13. ASSUME IsPrefix(its, mine) PROVE methodPathEqual(knownW, knownV)
    <3>1. /\ Len(its) <= Len(mine)
          /\ \A i \in 1..Len(its) : its[i] = mine[i]
      <4>1. Len(its) <= Len(mine) /\ SubSeq(its, 1, Len(its)) = SubSeq(mine, 1, Len(its))
        BY <2>13 DEF IsPrefix
      <4>2. ASSUME NEW i \in 1..Len(its) PROVE its[i] = mine[i]
        <5>1. SubSeq(its, 1, Len(its))[i] = its[i]
          BY <2>5
        <5>2. SubSeq(mine, 1, Len(its))[i] = mine[i]
          BY <2>5, <2>10, <4>1
        <5> QED
          BY <4>1, <5>1, <5>2
      <4> QED
        BY <4>1, <4>2
    <3>2. ASSUME NEW i \in DOMAIN knownW PROVE knownW[i] = knownV[0 + i]
      <4>1. i \in 1..Len(knownW) /\ 0 + i = i
        BY <2>8
      <4>2. CASE i \in 1..Len(a) \/ i = Len(a) + 1
        BY <2>7, <2>8, <4>1, <4>2
      <4>3. CASE i > Len(a) + 1
        <5> DEFINE m == i - (Len(a) + 1)
        <5>1. m \in 1..Len(its) /\ i = Len(a) + 1 + m /\ m \in 1..Len(mine)
          <6>1. Len(knownW) = Len(a) + 1 + Len(its)
            BY <2>8
          <6> QED
            BY <2>10, <3>1, <4>1, <4>3, <6>1
        <5> HIDE DEF m
        <5> QED
          BY <2>7, <2>8, <3>1, <4>1, <5>1
      <4> QED
        BY <2>10, <4>1, <4>2, <4>3
    <3>3. 0 \in 0..Len(knownV) - Len(knownW)
      BY <2>7, <2>8, <2>10, <3>1
    <3>4. Found(knownW, knownV)
      BY <3>2, <3>3 DEF Found
    <3> QED
      BY <3>4 DEF methodPathEqual
  <2>14. ASSUME mine # its, Len(mine) <= Len(its) PROVE ~methodPathEqual(knownW, knownV)
    <3>1. snakePath(knownW) = knownW
      <4> DEFINE dot == <<".">>
      <4>1. dot \in Seq(Lower)
        BY OneIsASequence DEF Lower
      <4> HIDE DEF dot
      <4>2. (a \o dot) \o its \in Seq(Lower)
        BY <2>2, <4>1, ConcatProperties
      <4>3. knownW \in Seq(Lower)
        BY <4>2 DEF knownW, Path, dot
      <4> QED
        BY <4>3, LowerStays DEF snakePath
    <3>2. ASSUME Found(knownW, knownV) PROVE FALSE
      <4>1. PICK k \in 0..Len(knownV) - Len(knownW) :
              \A i \in DOMAIN knownW : knownW[i] = "." \/ knownW[i] = knownV[k + i]
        BY <3>2 DEF Found
      <4>2. k = 0 /\ Len(mine) = Len(its)
        BY <2>7, <2>8, <2>10, <2>14
      <4>3. ASSUME NEW i \in 1..Len(its) PROVE its[i] = mine[i]
        <5> DEFINE m == Len(a) + 1 + i
        <5>1. m \in DOMAIN knownW /\ k + m = m
          BY <2>8, <2>10, <4>2
        <5>2. knownW[m] = its[i] /\ knownV[m] = mine[i]
          BY <2>7, <2>8, <4>2
        <5> HIDE DEF m
        <5> QED
          BY <2>2, <4>1, <5>1, <5>2
      <4> QED
        BY <2>5, <2>14, <4>2, <4>3, SeqEqual
    <3> QED
      BY <2>6, <2>14, <3>1, <3>2 DEF methodPathEqual
  <2>15. ASSUME NEW p \in {goV, knownV}
         PROVE  /\ Guards(<<>>) /\ Guards(<<<<p>>>>)
                /\ \A ls \in Excluding(p, goW) : Guards(ls) <=> mine # its
                /\ \A ls \in Excluding(p, knownW) :
                     /\ IsPrefix(its, mine) => ~Guards(ls)
                     /\ mine # its /\ Len(mine) <= Len(its) => Guards(ls)
    <3>1. methodPathEqual(p, knownV)
      BY <2>3 DEF methodPathEqual
    <3>2. Guards(<<>>)
      BY DEF AddBeforeMiddleware, getMatchFunction
    <3>3. Guards(<<<<p>>>>)
      <4> DEFINE info == AddBeforeMiddleware(<<<<p>>>>)
      <4>1. p \in info.method /\ info.excludes = {}
        BY DEF AddBeforeMiddleware, ToSet
      <4> HIDE DEF info
      <4> QED
        BY <3>1, <4>1 DEF getMatchFunction, info
    <3>4. ASSUME NEW q, NEW ls \in Excluding(p, q)
          PROVE  Guards(ls) <=> ~methodPathEqual(q, knownV)
      BY <3>1, ExclusionsDecide
    <3> HIDE DEF Guards
    <3> QED
      BY <2>12, <2>13, <2>14, <3>2, <3>3, <3>4, Zenon
  <2> HIDE DEF Guards
  <2> QED
    BY <2>15, Zenon DEF NameGuarded, Guards, goV, goW, knownV, knownW, a, mine, its
<1>2. Sampled => NamedAreGuarded
  <2> SUFFICES ASSUME Sampled, sample[1] = "names"
               PROVE  NameGuarded(<<"A", "a">>, sample[2], sample[3])
    BY DEF NamedAreGuarded
  <2>1. PICK v \in GoNames, w \in GoNames : sample = <<"names", v, w>>
    BY DEF Sampled
  <2>2. v \in Exported /\ w \in Exported /\ <<"A", "a">> \in Seq(Letters)
    BY SampledNames
  <2> QED
    BY <1>1, <2>1, <2>2
<1> QED
  BY <1>1, <1>2

-----------------------------------------------------------------------------
(* Methods.                                                                *)

(* The results with which a method can be registered.                      *)
LEMMA GoodResults ==
  ASSUME NEW outs \in Seq(Types)
  PROVE  makeArgTypes(outs) <=>
           outs \in {<<>>, <<"value">>, <<"error">>, <<"*Error">>,
                     <<"value", "error">>, <<"*Error", "error">>}
<1>1. Len(outs) \in Nat /\ \A i \in 1..Len(outs) : outs[i] \in Types
  OBVIOUS
<1>2. CASE Len(outs) = 0
  <2>1. outs = <<>>
    BY <1>2
  <2> QED
    BY <2>1 DEF makeArgTypes
<1>3. CASE Len(outs) = 1
  <2>1. outs = <<outs[1]>> /\ outs[1] \in Types
    BY <1>1, <1>3
  <2> QED
    BY <1>3, <2>1 DEF makeArgTypes, Types
<1>4. CASE Len(outs) = 2
  <2>1. outs = <<outs[1], outs[2]>> /\ outs[1] \in Types /\ outs[2] \in Types
    BY <1>1, <1>4
  <2>2. ASSUME NEW x \in Types, NEW y \in Types
        PROVE  <<x, y>> \in {<<>>, <<"value">>, <<"error">>, <<"*Error">>,
                             <<"value", "error">>, <<"*Error", "error">>}
               <=> x # "error" /\ y = "error"
    <3>1. <<x, y>> # <<>> /\ \A t \in Types : <<x, y>> # <<t>>
      OBVIOUS
    <3>2. \A t \in Types : <<x, y>> = <<t, "error">> <=> x = t /\ y = "error"
      OBVIOUS
    <3> QED
      BY <3>1, <3>2 DEF Types
  <2>3. makeArgTypes(outs) <=> outs[1] # "error" /\ outs[2] = "error"
    BY <1>4 DEF makeArgTypes, isErrorType
  <2> QED
    BY <2>1, <2>2, <2>3
<1>5. CASE Len(outs) > 2
  BY <1>1, <1>5 DEF makeArgTypes
<1>6. Len(outs) = 0 \/ Len(outs) = 1 \/ Len(outs) = 2 \/ Len(outs) > 2
  <2> DEFINE n == Len(outs)
  <2>1. n \in Nat
    BY <1>1
  <2> HIDE DEF n
  <2>2. n = 0 \/ n = 1 \/ n = 2 \/ n > 2
    BY <2>1
  <2> QED
    BY <2>2 DEF n
<1> QED
  BY <1>2, <1>3, <1>4, <1>5, <1>6, Zenon

LEMMA GreatestOf ==
  ASSUME NEW n \in Nat, NEW T, T \subseteq 1..n, T # {}
  PROVE  \E i \in T : \A k \in T : k <= i
<1> DEFINE U == {n - k : k \in T}
<1>1. U \subseteq Nat /\ U # {}
  <2>1. \A k \in T : k \in 1..n /\ n - k \in Nat
    OBVIOUS
  <2> QED
    BY <2>1
<1>2. PICK u \in U : \A v \in U : u <= v
  <2> HIDE DEF U
  <2> QED
    BY <1>1, LeastOf
<1>3. PICK i \in T : u = n - i
  BY <1>2
<1>4. ASSUME NEW k \in T PROVE k <= i
  <2>1. n - k \in U
    OBVIOUS
  <2>2. n - i <= n - k /\ i \in Int /\ k \in Int
    BY <1>2, <1>3, <2>1
  <2> QED
    BY <2>2
<1> QED
  BY <1>4

(* Registration and lookup: for any namespace and any number of methods of *)
(* different names, exactly those are reached, under both spellings, whose *)
(* results are good and which no later one hides.                          *)
THEOREM ReachedUnlessHidden ==
  /\ \A ns \in Seq(Letters) : \A ms \in Seq([name : Seq(Letters), outs : Seq(Types)]) :
       (\A i, k \in DOMAIN ms : ms[i].name = ms[k].name => i = k) => MethodsReached(ns, ms)
  /\ Sampled => MethodsAreReached
<1> DEFINE Methods == [name : Seq(Letters), outs : Seq(Types)]
<1>1. ASSUME NEW ns \in Seq(Letters), NEW ms \in Seq(Methods),
             \A i, k \in DOMAIN ms : ms[i].name = ms[k].name => i = k
      PROVE  MethodsReached(ns, ms)
  <2> DEFINE N(i) == SnakeString(ms[i].name)
             D == DOMAIN ms
             suitable == {i \in D : makeArgTypes(ms[i].outs)}
             Same(n) == {i \in suitable : N(i) = n}
             Kept(n) == CHOOSE i \in Same(n) : \A k \in Same(n) : k <= i
             callbacks == suitableCallbacks(ms, {})
             services == Register(<<>>, ServiceName(ns, <<>>, <<>>), callbacks)
             Good(m) == m.outs \in
               {<<>>, <<"value">>, <<"error">>, <<"*Error">>, <<"value", "error">>, <<"*Error", "error">>}
             Hides(i, k) == Good(ms[k]) /\ N(k) = N(i)
  <2>1. D = 1..Len(ms) /\ Len(ms) \in Nat /\ \A i \in D : ms[i] \in Methods
    <3> HIDE DEF Methods
    <3> QED
      BY <1>1
  <2>2. \A i \in D : ms[i].name \in Seq(Letters) /\ ms[i].outs \in Seq(Types)
    BY <2>1
  <2>3. \A i \in D : i \in suitable <=> Good(ms[i])
    BY <2>2, GoodResults
  <2>4. callbacks = [n \in {N(i) : i \in suitable} |-> ms[Kept(n)]]
    BY DEF suitableCallbacks, formatName
  <2>5. services = IF DOMAIN callbacks = {} THEN <<>> ELSE [n \in {SnakeString(ns)} |-> callbacks]
    BY DEF Register, ServiceName, formatName
  <2>6. ASSUME NEW i \in suitable
        PROVE  /\ Kept(N(i)) \in suitable /\ N(Kept(N(i))) = N(i)
               /\ \A k \in suitable : N(k) = N(i) => k <= Kept(N(i))
    <3> DEFINE T == Same(N(i))
    <3>1. T \subseteq 1..Len(ms) /\ T # {}
      BY <2>1
    <3>2. \E j \in T : \A k \in T : k <= j
      <4> HIDE DEF T
      <4> QED
        BY <2>1, <3>1, GreatestOf
    <3>3. Kept(N(i)) \in T /\ \A k \in T : k <= Kept(N(i))
      <4> HIDE DEF T, suitable, N
      <4> QED
        BY <3>2 DEF T
    <3> QED
      BY <3>3
  <2> HIDE DEF D, suitable, Same, Kept, callbacks, services
  <2>7. ASSUME NEW i \in D, NEW name \in {ms[i].name, N(i)}
        PROVE  getCallBack(services, ns, name) = <<ms[i]>>
               <=> Good(ms[i]) /\ \A k \in i + 1..Len(ms) : ~Hides(i, k)
    <3>1. SnakeString(name) = N(i)
      BY <2>2, SnakeNames
    <3>2. getCallBack(services, ns, name)
          = IF N(i) \in DOMAIN callbacks THEN <<callbacks[N(i)]>> ELSE <<>>
      BY <2>5, <3>1 DEF getCallBack, formatName
    <3> HIDE DEF N
    <3>3. N(i) \in DOMAIN callbacks <=> \E k \in suitable : N(k) = N(i)
      BY <2>4
    <3>4. CASE i \in suitable
      <4>1. N(i) \in DOMAIN callbacks /\ callbacks[N(i)] = ms[Kept(N(i))]
        BY <2>4, <3>3, <3>4
      <4>2. Kept(N(i)) \in suitable /\ Kept(N(i)) \in D
        BY <2>6, <3>4 DEF suitable
      <4>3. ms[Kept(N(i))] = ms[i] <=> Kept(N(i)) = i
        BY <1>1, <4>2 DEF D
      <4>4. Kept(N(i)) = i <=> \A k \in i + 1..Len(ms) : ~Hides(i, k)
        <5>1. ASSUME Kept(N(i)) = i, NEW k \in i + 1..Len(ms), Hides(i, k) PROVE FALSE
          <6>1. k \in D /\ ~(k <= i)
            BY <2>1
          <6>2. k \in suitable /\ N(k) = N(i)
            BY <2>3, <5>1, <6>1
          <6> QED
            BY <2>6, <3>4, <5>1, <6>1, <6>2
        <5>2. ASSUME Kept(N(i)) # i PROVE \E k \in i + 1..Len(ms) : Hides(i, k)
          <6> DEFINE k == Kept(N(i))
          <6>1. k \in D /\ N(k) = N(i) /\ Good(ms[k]) /\ i <= k
            BY <2>3, <2>6, <3>4, <4>2
          <6> HIDE DEF k, Good
          <6>2. k # i
            BY <5>2 DEF k
          <6>3. k \in i + 1..Len(ms)
            BY <2>1, <6>1, <6>2
          <6> QED
            BY <6>1, <6>3
        <5> QED
          BY <5>1, <5>2
      <4>5. Good(ms[i])
        BY <2>3, <3>4
      <4> HIDE DEF Good, Hides
      <4>6. getCallBack(services, ns, name) = <<ms[i]>> <=> ms[Kept(N(i))] = ms[i]
        BY <3>2, <4>1
      <4> QED
        BY <4>3, <4>4, <4>5, <4>6, Zenon
    <3>5. CASE i \notin suitable
      <4>1. ~Good(ms[i])
        BY <2>3, <3>5
      <4>2. getCallBack(services, ns, name) # <<ms[i]>>
        <5>1. CASE N(i) \in DOMAIN callbacks
          <6>1. PICK k \in suitable : N(k) = N(i)
            BY <3>3, <5>1
          <6>2. Kept(N(i)) \in suitable /\ Kept(N(i)) \in D
            BY <2>6, <6>1 DEF suitable
          <6>3. callbacks[N(i)] = ms[Kept(N(i))]
            BY <2>4, <5>1
          <6>4. ms[Kept(N(i))] # ms[i]
            BY <1>1, <3>5, <6>2 DEF D
          <6> QED
            BY <3>2, <5>1, <6>3, <6>4
        <5>2. CASE N(i) \notin DOMAIN callbacks
          BY <3>2, <5>2
        <5> QED
          BY <5>1, <5>2
      <4> QED
        BY <4>1, <4>2, Zenon
    <3> QED
      BY <3>4, <3>5
  <2> QED
    BY <2>7, Zenon DEF MethodsReached, services, callbacks, D
<1>2. Sampled => MethodsAreReached
  <2> SUFFICES ASSUME Sampled, sample[1] = "methods" PROVE MethodsReached(<<"A", "a">>, sample[2])
    BY DEF MethodsAreReached
  <2>1. PICK ms \in Receivers : ms[1].name # ms[2].name /\ sample = <<"methods", ms>>
    BY DEF Sampled
  <2>2. PICK v \in GoNames, w \in GoNames, o \in UNION {[1..n -> Types] : n \in 0..2} :
          ms = <<[name |-> v, outs |-> o], [name |-> w, outs |-> <<"value", "error">>]>>
    BY DEF Receivers
  <2>3. v \in Seq(Letters) /\ w \in Seq(Letters) /\ <<"A", "a">> \in Seq(Letters)
    BY SampledNames DEF Exported
  <2>4. o \in Seq(Types) /\ <<"value", "error">> \in Seq(Types)
    <3>1. PICK n \in 0..2 : o \in [1..n -> Types]
      BY <2>2
    <3>2. o \in Seq(Types)
      BY <3>1, n \in Nat, SeqDef
    <3>3. "value" \in Types /\ "error" \in Types
      BY DEF Types
    <3> QED
      BY <3>2, <3>3
  <2>5. ms \in Seq(Methods) /\ Len(ms) = 2
    BY <2>2, <2>3, <2>4
  <2>6. \A i, k \in DOMAIN ms : ms[i].name = ms[k].name => i = k
    BY <2>1, <2>5
  <2>7. MethodsReached(<<"A", "a">>, ms)
    <3> HIDE DEF Methods
    <3> QED
      BY <1>1, <2>3, <2>5, <2>6
  <2> QED
    BY <2>1, <2>7
<1> QED
  BY <1>1, <1>2
=============================================================================
