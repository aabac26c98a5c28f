------------------------------- MODULE BeanCopy -------------------------------
(***************************************************************************)
(* Copies and merges of beans (g2util/map.go, merge_bean.go), and the row  *)
(* that Session.Update (g2db/session.go) makes with them.                  *)
(*                                                                         *)
(* A bean has a column of every kind of JSON tag; its values are integers  *)
(* of Width bits.  External: encoding/json, which reads a number into a    *)
(* float of Mantissa bits when the target is a map, rounds half to even,   *)
(* and refuses a number that the target's type cannot hold.  (int64 and    *)
(* float64: Width is 64 and Mantissa is 53.)                               *)
(***************************************************************************)
EXTENDS Integers, Sequences

CONSTANTS Width, Mantissa

ASSUME BeanAssumption == Mantissa \in Nat \ {0} /\ Width \in Nat /\ Width > Mantissa + 1

Named == {"id", "plain", "omit"}
OmitEmpty == {"id", "omit"}         \* `json:"...,omitempty"`
Columns == Named \cup {"hidden"}    \* `json:"-"`

Power2[n \in Nat] == IF n = 0 THEN 1 ELSE 2 * Power2[n - 1]

Ints == -Power2[Width - 1]..Power2[Width - 1] - 1
Exact == -Power2[Mantissa]..Power2[Mantissa]

NewValue == [c \in Columns |-> 0]

Marshal(bean) ==
  [c \in {d \in Named : d \in OmitEmpty => bean[d] # 0} |-> bean[c]]

(* What the text does not name keeps its value.  <<>> is an error.         *)
Unmarshal(text, bean) ==
  IF \A c \in DOMAIN text : text[c] \in Ints
  THEN <<[c \in Columns |-> IF c \in DOMAIN text THEN text[c] ELSE bean[c]]>>
  ELSE <<>>

ToFloat(n) ==
  LET a == IF n < 0 THEN -n ELSE n
      unit == Power2[CHOOSE i \in 0..Width : a < Power2[Mantissa + i]
                       /\ (i = 0 \/ a >= Power2[Mantissa + i - 1])]
      q == a \div unit
      up == 2 * (a % unit) > unit \/ (2 * (a % unit) = unit /\ q % 2 = 1)
      f == unit * (IF up THEN q + 1 ELSE q)
  IN IF n < 0 THEN -f ELSE f

Bean2Map(bean) == LET text == Marshal(bean) IN [c \in DOMAIN text |-> ToFloat(text[c])]

(* Mutant: a number that is too large becomes the largest.                 *)
ToBean_Saturates(m, bean) ==
  Unmarshal([c \in DOMAIN m |-> IF m[c] \in Ints THEN m[c] ELSE Power2[Width - 1] - 1], bean)

ToBean(m, bean) == Unmarshal(m, bean)

MergeTo(m, mp) ==
  [c \in DOMAIN m \cup DOMAIN mp |-> IF c \in DOMAIN m THEN m[c] ELSE mp[c]]

(* Mutant: the bean's own values win over the map's.                       *)
Merge2Bean_Backwards(m, bean) == ToBean(MergeTo(Bean2Map(bean), m), bean)

Merge2Bean(m, bean) == ToBean(MergeTo(m, Bean2Map(bean)), bean)

(* The same, with loops of its own.                                        *)
MergeBean(dst, src) == Unmarshal(MergeTo(src, Bean2Map(dst)), dst)

CopyBean(bean) == ToBean(Bean2Map(bean), NewValue)

MergeBeans(dst, src) == Merge2Bean(Bean2Map(src), dst)

(* The bean that Update writes: a copy of the caller's, over it the row    *)
(* that CacheGet finds, the caller's again and a map of changes.           *)
NewBean(bean, row, changes) ==
  LET found == Unmarshal(Marshal(row), CopyBean(bean)[1])[1]
  IN Merge2Bean(changes, MergeBeans(found, bean)[1])

-----------------------------------------------------------------------------
Few == 0..2
FewBeans == {b \in [Columns -> Few] : b.id = 1}
Changes == UNION {[d -> Few] : d \in SUBSET {"plain", "omit"}}

(* The copy of number n: n if a float holds it, or another, or an error.   *)
CopyIsExact(n) ==
  LET b == [NewValue EXCEPT !.id = n, !.plain = n]
      f == ToFloat(n)
  IN /\ n \in Exact => CopyBean(b) = <<b>>
     /\ CopyBean(b) = IF f \in Ints THEN <<[b EXCEPT !.id = f, !.plain = f]>> ELSE <<>>
     /\ CopyBean([b EXCEPT !.hidden = 1]) = CopyBean(b)

(* What Update writes, column by column, from the caller's bean, a row and *)
(* a map of changes.                                                       *)
Merges(bean, row, changes) ==
  /\ MergeBean(row, changes) = Merge2Bean(changes, row)
  /\ NewBean(bean, row, changes) = <<[c \in Columns |->
       CASE c = "hidden" -> 0
         [] c \in DOMAIN changes -> changes[c]
         [] c \in Named \ DOMAIN changes ->
              IF c = "plain" \/ bean[c] # 0 THEN bean[c] ELSE row[c]]>>

UpdateMerges(bean, row) == \A changes \in Changes : Merges(bean, row, changes)
=============================================================================
