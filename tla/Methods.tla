------------------------------- MODULE Methods -------------------------------
(***************************************************************************)
(* Which method a JSON-RPC request names and which middlewares it must     *)
(* pass: the registration of services (j2rpc.go, callback.go), the names   *)
(* in snake case (functions.go) and the patterns of middlewares            *)
(* (middleware.go, option.go), with SnakeOption.                           *)
(*                                                                         *)
(* Names are sequences of letters.  External: reflect, and regexp, as far  *)
(* as a pattern of letters and dots goes: it is searched for anywhere.     *)
(***************************************************************************)
EXTENDS Naturals, Sequences, SequencesExt

CONSTANT MaxName     \* bound of the names' length (model checking only)

Capital == {"A", "B"}
Small == {"a", "b"}
ToLower(d) == CASE d = "A" -> "a" [] d = "B" -> "b" [] OTHER -> d

Letters == Capital \cup Small \cup {"_"}
Words == UNION {[1..n -> Letters] : n \in 1..MaxName}
GoNames == {w \in Words : w[1] \in Capital}       \* exported

(* The loop of SnakeString; j: a letter that is no capital came before.    *)
NextLetter(acc, d, dots) ==
  [out |-> acc.out \o (IF d \in Capital /\ acc.j THEN <<"_">> ELSE <<>>) \o <<ToLower(d)>>,
   j |-> d \notin Capital \cup dots /\ (acc.j \/ d # "_")]

Snake(s, dots) ==
  LET data[k \in 0..Len(s)] ==
        IF k = 0 THEN [out |-> <<>>, j |-> FALSE] ELSE NextLetter(data[k - 1], s[k], dots)
  IN data

SnakeString(s) == Snake(s, {})[Len(s)].out

formatName(name) == SnakeString(name)

-----------------------------------------------------------------------------
(* A method of a receiver: its name and the types it returns.              *)

Types == {"value", "error", "*Error"}

(* A pointer is followed first: *Error is no error type, its Error is none.*)
isErrorType(t) == t = "error"

(* Mutant: any two results will do.                                        *)
makeArgTypes_Two(outs) == Len(outs) <= 2

makeArgTypes(outs) ==
  /\ Len(outs) <= 2
  /\ Len(outs) = 2 => ~isErrorType(outs[1]) /\ isErrorType(outs[2])

(* The methods in reflect's order, by name; the last of one name stays.    *)
suitableCallbacks(methods, skip) ==
  LET suitable == {i \in DOMAIN methods :
                     methods[i].name \notin skip /\ makeArgTypes(methods[i].outs)}
      Named(n) == {i \in suitable : formatName(methods[i].name) = n}
  IN [n \in {formatName(methods[i].name) : i \in suitable} |->
        methods[CHOOSE i \in Named(n) : \A k \in Named(n) : k <= i]]

(* Register: a name given with the call, then one given by the receiver,   *)
(* else the type's.                                                        *)
ServiceName(typeName, own, given) ==
  CASE own # <<>> -> own [] given # <<>> -> given [] OTHER -> formatName(typeName)

(* A receiver without callbacks is left out; a name that is taken panics.  *)
Register(services, name, callbacks) ==
  IF DOMAIN callbacks = {} THEN services
  ELSE [n \in DOMAIN services \cup {name} |->
          IF n = name THEN callbacks ELSE services[n]]

(* handle: both parts of the request's method are formatted again.         *)
getCallBack(services, ns, name) ==
  LET n == formatName(ns)
      m == formatName(name)
  IN IF n \in DOMAIN services
     THEN IF m \in DOMAIN services[n] THEN <<services[n][m]>> ELSE <<>>
     ELSE <<>>

-----------------------------------------------------------------------------
(* Middlewares.  A path is a namespace, a dot and a name.                  *)

Path(ns, name) == ns \o <<".">> \o name

(* Each part between dots by itself.                                       *)
snakePath(p) == Snake(p, {"."})[Len(p)].out

Found(s, method) ==
  \E k \in 0..Len(method) - Len(s) :
    \A i \in DOMAIN s : s[i] = "." \/ s[i] = method[k + i]

methodPathEqual(s, method) ==
  s = method \/ snakePath(s) = method \/ Found(s, method)

(* Mutant: the lists after the second are left out.                        *)
AddBeforeMiddleware_Two(ls) ==
  [all |-> ls = <<>>,
   method |-> IF ls = <<>> THEN {} ELSE ToSet(ls[1]),
   excludes |-> IF Len(ls) < 2 THEN {} ELSE ToSet(ls[2])]

(* The first list is of what is guarded, all others are of exclusions.     *)
AddBeforeMiddleware(ls) ==
  [all |-> ls = <<>>,
   method |-> IF ls = <<>> THEN {} ELSE ToSet(ls[1]),
   excludes |-> UNION {ToSet(ls[i]) : i \in 2..Len(ls)}]

getMatchFunction(info, method) ==
  \/ info.all
  \/ /\ \A s \in info.excludes : ~methodPathEqual(s, method)
     /\ \E s \in info.method : methodPathEqual(s, method)

-----------------------------------------------------------------------------
(* Two methods of one receiver, in reflect's order.                        *)
Receivers ==
  LET short == {w \in GoNames : Len(w) <= 3 /\ \A i \in DOMAIN w : w[i] # "B"} IN
  {<<[name |-> v, outs |-> o], [name |-> w, outs |-> <<"value", "error">>]>> :
     v \in short, w \in short, o \in UNION {[1..n -> Types] : n \in 0..2}}

(* Of the methods ms of service ns those are reached, under their Go and   *)
(* their snake names, whose results are good and which no later good one   *)
(* has the snake name of.                                                  *)
MethodsReached(ns, ms) ==
  LET services == Register(<<>>, ServiceName(ns, <<>>, <<>>), suitableCallbacks(ms, {}))
      Good(m) == m.outs \in
        {<<>>, <<"value">>, <<"error">>, <<"*Error">>, <<"value", "error">>, <<"*Error", "error">>}
      Hides(i, k) == Good(ms[k]) /\ SnakeString(ms[k].name) = SnakeString(ms[i].name)
  IN \A i \in DOMAIN ms :
       \A name \in {ms[i].name, SnakeString(ms[i].name)} :
         getCallBack(services, ns, name) = <<ms[i]>>
         <=> Good(ms[i]) /\ \A k \in i + 1..Len(ms) : ~Hides(i, k)

(* The lists of a middleware that names p and excludes q.                  *)
Excluding(p, q) == {<<<<p>>, <<q>>>>, <<<<p>>, <<>>, <<q>>>>}

(* A middleware without lists, or that names method v of ns and excludes   *)
(* nothing, guards v.  One that excludes w in Go's spelling guards v       *)
(* unless their snake names are the same.  An exclusion in snake case is   *)
(* searched for in v's path: v is not guarded if its snake name begins     *)
(* with w's, and is if it is another that is no longer.                    *)
NameGuarded(ns, v, w) ==
  LET Known(n) == Path(SnakeString(ns), SnakeString(n))
      Guards(ls) == getMatchFunction(AddBeforeMiddleware(ls), Known(v))
      mine == SnakeString(v)
      its == SnakeString(w)
  IN \A p \in {Path(ns, v), Known(v)} :
       /\ Guards(<<>>) /\ Guards(<<<<p>>>>)
       /\ \A ls \in Excluding(p, Path(ns, w)) : Guards(ls) <=> mine # its
       /\ \A ls \in Excluding(p, Known(w)) :
            /\ IsPrefix(its, mine) => ~Guards(ls)
            /\ mine # its /\ Len(mine) <= Len(its) => Guards(ls)
=============================================================================
