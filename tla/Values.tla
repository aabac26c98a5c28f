-------------------------------- MODULE Values --------------------------------
(***************************************************************************)
(* The parts of gof that keep no state (Methods, Times, Paging, BeanCopy)  *)
(* on one sample of their input: a state is a sample, and there are no     *)
(* steps.                                                                  *)
(***************************************************************************)
EXTENDS Methods, Times, Paging, BeanCopy

VARIABLE sample     \* <<kind, input, ...>>

NoSample == <<"none">>

(* Instants up to some in year 10000.                                      *)
Instants == [sec : 0..EndOfYears - Standard + 5, part : 0..Parts - 1]

Sampled ==
  \/ \E ms \in Receivers : ms[1].name # ms[2].name /\ sample = <<"methods", ms>>
  \/ \E v, w \in GoNames : sample = <<"names", v, w>>
  \/ \E t \in Instants \cup {Nil} : \E old \in {Zero, [sec |-> StandardTime, part |-> 0]} :
       sample = <<"time", t, old>>
  \/ \E n \in 0..MaxRows : \E c \in -1..MaxPageCount : sample = <<"rows", n, c>>
  \/ \E n \in Ints : sample = <<"number", n>>
  \/ \E bean, row \in FewBeans : sample = <<"beans", bean, row>>

-----------------------------------------------------------------------------
(* A client reaches every method that can be registered by its Go name and *)
(* by its snake name, and never one that ends in something else than an    *)
(* error; one of two methods whose snake names are the same is lost        *)
(* (formatName runs when a method is registered, j2rpc.go:291, and again   *)
(* on what a client sent, j2rpc.go:205).                                   *)
MethodsAreReached == sample[1] = "methods" => MethodsReached(<<"A", "a">>, sample[2])

(* A middleware guards the method it names, in Go's spelling or in snake   *)
(* case, except what any of its lists excludes (option.go:23-53).  In Go's *)
(* spelling that is the one method.  In snake case it is every method in   *)
(* whose path the exclusion is found, as it is a regular expression        *)
(* without anchors (middleware.go:51): a.get un-guards a.get_all as well,  *)
(* though that is named, but no other method whose name is no longer.      *)
NamedAreGuarded ==
  sample[1] = "names" => NameGuarded(<<"A", "a">>, sample[2], sample[3])

(* A time that went through JSON, or through the database as text, is the  *)
(* same to the second up to year 9999 and the zero time from year 10000    *)
(* on, which no layout reads (time.go:276-282).  One in LMT is later by    *)
(* the seconds of the offset, at each trip.  In JSON nil and the zero time *)
(* come back as the zero time; in the database nil leaves what the row had *)
(* before.  The driver's value keeps a time whole, but what is a whole     *)
(* number of ranges of UnixNano after the zero time, as a moment in 1754,  *)
(* is stored as NULL and lost (time.go:190).                               *)
TimesSurvive == sample[1] = "time" => TimeSurvives(sample[2], sample[3])

(* Who asks for page 1 and then for as many as the answer says has every   *)
(* row once, none on a further page, and never more than the limit at a    *)
(* time, whatever page size was asked for (mysql_query_rows.go:56-65,      *)
(* 119-127).  A negative number is MySQL's error.                          *)
PagesCoverRows == sample[1] = "rows" => PagesCover(sample[2], sample[3])

(* CopyBean keeps a number if and only if a float holds it exactly: the    *)
(* others become the number of another row, and the largest ones an error  *)
(* (map.go:112, through the map of Bean2Map).                              *)
CopiesAreExact == sample[1] = "number" => CopyIsExact(sample[2])

(* Update (session.go:70-95) writes, column by column, the change if there *)
(* is one, else what the caller's bean says, else what the row has.  An    *)
(* omitempty column is set to zero by a change only, and a column without  *)
(* a name in JSON is always set to zero.                                   *)
UpdateMergesColumns == sample[1] = "beans" => UpdateMerges(sample[2], sample[3])
=============================================================================
