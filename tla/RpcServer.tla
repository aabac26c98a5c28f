------------------------------ MODULE RpcServer ------------------------------
(***************************************************************************)
(* The JSON-RPC server: j2rpc/j2rpc.go, message.go, callback.go, option.go *)
(* and middleware.go.  Each request is a goroutine of net/http that goes   *)
(* through the stages of Handler; Stop may come at any point.              *)
(*                                                                         *)
(* What a client sends differs from a good request in one respect (Inputs),*)
(* as far as the stages tell requests apart.  What middlewares and methods *)
(* do is the application's and comes as a choice of their outcome.         *)
(***************************************************************************)
EXTENDS Naturals, FiniteSets

CONSTANTS Requests,
          Plain,      \* requests that are good, let through by the middle-
                      \* wares, and whose method returns a value (a bound
                      \* of model checking only)
          Mids,       \* 1..n: the middlewares, in the order of BeforeMid
          Guarded     \* the middlewares whose patterns match the method

ASSUME RpcAssumption ==
  /\ Plain \subseteq Requests
  /\ Mids \subseteq Nat /\ IsFiniteSet(Mids) /\ Guarded \subseteq Mids

VARIABLES run,      \* server.run
          stage,    \* stage[q]: how far Handler is with q
          input,    \* input[q]: what the client sent
          passed,   \* passed[q]: the middlewares that returned nil for q
          called,   \* called[q]: the method was called
          header,   \* header[q]: how often WriteHeader was called for q
          outcome,  \* outcome[q]: the error and the result of handle
          answer    \* answer[q]: the message written, or NoAnswer

rpcVars == <<run, stage, input, passed, called, header, outcome, answer>>

(* The header Status-Written is set wherever WriteHeader was called.       *)
Written(q) == header[q] > 0

Good == [http |-> "ok", body |-> "ok", id |-> "given", method |-> "found",
         params |-> "ok", extra |-> "none"]
Inputs ==
  {Good}
  \cup {[Good EXCEPT !.http = v] : v \in {"answered", "refused"}}
  \cup {[Good EXCEPT !.body = "broken"]}
  \cup {[Good EXCEPT !.id = v] : v \in {"none", "object"}}
  \cup {[Good EXCEPT !.method = "unknown"]}
  \cup {[Good EXCEPT !.params = "bad"]}
  \cup {[Good EXCEPT !.extra = v] : v \in {"result", "error"}}

Codes == {"parse", "invalid", "nomethod", "params", "internal", "app"}
Results == {"none", "value"}
Nothing == [error |-> "none", result |-> "none"]
NoAnswer == [id |-> "none", error |-> "none", result |-> "none"]
Stages == {"new", "handler", "mids", "args", "call", "respond", "ended", "recovered"}

RpcTypeOK ==
  /\ run \in {0, 1}
  /\ stage \in [Requests -> Stages]
  /\ input \in [Requests -> Inputs]
  /\ passed \in [Requests -> SUBSET Mids]
  /\ called \in [Requests -> BOOLEAN]
  /\ header \in [Requests -> Nat]
  /\ outcome \in [Requests ->
       [error : Codes \cup {"none"}, result : Results]]
  /\ answer \in [Requests ->
       [id : {"none", "one", "given", "object"},
        error : Codes \cup {"none", "client"},
        result : Results \cup {"client"}]]

RpcInit ==
  /\ run = 1
  /\ stage = [q \in Requests |-> "new"]
  /\ input = [q \in Requests |-> Good]
  /\ passed = [q \in Requests |-> {}]
  /\ called = [q \in Requests |-> FALSE]
  /\ header = [q \in Requests |-> 0]
  /\ outcome = [q \in Requests |-> Nothing]
  /\ answer = [q \in Requests |-> NoAnswer]

-----------------------------------------------------------------------------
Goes(q, s) == stage' = [stage EXCEPT ![q] = s]

WritesHeader(q) == header' = [header EXCEPT ![q] = @ + 1]

(* handle returns error code e: Handler goes on with the response.         *)
FailsWith(q, e) ==
  /\ outcome' = [outcome EXCEPT ![q].error = e]
  /\ Goes(q, "respond")

(* A request that net/http has read: a health check and what ran before    *)
(* Handler may have answered it; run is looked at once, here.              *)
Arrive(q) ==
  /\ stage[q] = "new"
  /\ \E i \in IF q \in Plain THEN {Good} ELSE Inputs :
       /\ input' = [input EXCEPT ![q] = i]
       /\ IF i.http = "answered" THEN WritesHeader(q) ELSE UNCHANGED header
       /\ Goes(q, IF run = 0 \/ i.http = "answered" THEN "ended" ELSE "handler")
  /\ UNCHANGED <<run, passed, called, outcome, answer>>

(* validateRequest: the method is not PUT or DELETE, the body not too long *)
(* and its type accepted.                                                  *)
Valid(i) == i.http = "ok"

Refuse(q) ==
  /\ stage[q] = "handler" /\ ~Valid(input[q])
  /\ WritesHeader(q)
  /\ Goes(q, "ended")
  /\ UNCHANGED <<run, input, passed, called, outcome, answer>>

(* The part of handle up to getCallBack, in the order of its checks.       *)
HandleError(i) ==
  CASE i.body = "broken" -> "parse"
    [] i.id # "given" -> "invalid"
    [] i.method # "found" -> "nomethod"
    [] OTHER -> "none"

Handle(q) ==
  /\ stage[q] = "handler" /\ Valid(input[q])
  /\ LET e == HandleError(input[q]) IN
     IF e # "none" THEN FailsWith(q, e)
     ELSE Goes(q, "mids") /\ UNCHANGED outcome
  /\ UNCHANGED <<run, input, passed, called, header, answer>>

MayWriteHeader(q) == \/ q \notin Plain /\ ~Written(q) /\ WritesHeader(q)
                     \/ UNCHANGED header

Remaining(q) == Guarded \ passed[q]

(* Mutant: the loop goes on after an error.                                *)
Middleware_GoesOn(q) ==
  /\ stage[q] = "mids"
  /\ \E m \in Remaining(q) :
     /\ \A j \in Remaining(q) : m <= j
     /\ \/ /\ passed' = [passed EXCEPT ![q] = @ \cup {m}]
           /\ UNCHANGED <<stage, outcome>>
        \/ Goes(q, "args") /\ UNCHANGED <<passed, outcome>>
  /\ UNCHANGED <<run, input, called, header, answer>>

(* beforeMiddlewareAction: the functions that match, in order, up to the   *)
(* first error.  A middleware may write the header, whatever it returns;   *)
(* its panic is recovered by gin or net/http only, as handle defers its    *)
(* own recover after the middlewares.                                      *)
Middleware(q) ==
  /\ stage[q] = "mids"
  /\ \E m \in Remaining(q) :
     /\ \A j \in Remaining(q) : m <= j
     /\ \/ /\ passed' = [passed EXCEPT ![q] = @ \cup {m}]
           /\ MayWriteHeader(q)
           /\ UNCHANGED <<stage, outcome>>
        \/ q \notin Plain /\ FailsWith(q, "app") /\ MayWriteHeader(q) /\ UNCHANGED passed
        \/ q \notin Plain /\ Goes(q, "recovered") /\ UNCHANGED <<passed, header, outcome>>
  /\ UNCHANGED <<run, input, called, answer>>

MiddlewaresDone(q) ==
  /\ stage[q] = "mids" /\ Remaining(q) = {}
  /\ Goes(q, "args")
  /\ UNCHANGED <<run, input, passed, called, header, outcome, answer>>

(* parsePositionalArguments: an array of at most the method's arguments,   *)
(* each of its type; what is missing or null is a zero value or nil.       *)
ParseArguments(q) ==
  /\ stage[q] = "args"
  /\ IF input[q].params = "bad"
     THEN FailsWith(q, "params")
     ELSE Goes(q, "call") /\ UNCHANGED outcome
  /\ UNCHANGED <<run, input, passed, called, header, answer>>

(* callback.call: a zero value is no result, a panic is an internal error; *)
(* the method's own error and a value that has no JSON are the server's.   *)
MethodOutcomes ==
  {[error |-> "none", result |-> r] : r \in Results} \cup
  {[error |-> e, result |-> "none"] :
     e \in {"internal", "app"}}

CallMethod(q) ==
  /\ stage[q] = "call"
  /\ called' = [called EXCEPT ![q] = TRUE]
  /\ \E o \in MethodOutcomes :
       /\ q \in Plain => o.result = "value"
       /\ outcome' = [outcome EXCEPT ![q] = o]
  /\ Goes(q, "respond")
  /\ UNCHANGED <<run, input, passed, header, answer>>

(* Mutant: an error does not keep the method's result from being written.  *)
Response_Both(i, o) ==
  [id |-> IF i.id = "none" THEN "one" ELSE i.id,
   error |-> o.error,
   result |-> IF o.error # "none" THEN "value" ELSE o.result]

(* setError and output work on the message the request was decoded into:   *)
(* what the client put into the fields of a response is still there.       *)
Response(i, o) ==
  [id |-> IF i.id = "none" THEN "one" ELSE i.id,
   error |-> IF o.error = "none" /\ i.extra = "error" THEN "client" ELSE o.error,
   result |-> IF o.result = "none" /\ i.extra = "result" THEN "client" ELSE o.result]

(* Mutant: the header is written although a middleware has answered.       *)
Respond_Always(q) ==
  /\ stage[q] = "respond"
  /\ WritesHeader(q)
  /\ answer' = [answer EXCEPT ![q] = Response(input[q], outcome[q])]
  /\ Goes(q, "ended")
  /\ UNCHANGED <<run, input, passed, called, outcome>>

(* writeResponse; a body that broke may have lost its id.                  *)
Respond(q) ==
  /\ stage[q] = "respond"
  /\ IF Written(q) THEN UNCHANGED <<header, answer>>
     ELSE /\ WritesHeader(q)
          /\ \E i \in {input[q]} \cup
                 {[input[q] EXCEPT !.id = "none"] : b \in {"broken"} \cap {input[q].body}} :
               answer' = [answer EXCEPT ![q] = Response(i, outcome[q])]
  /\ Goes(q, "ended")
  /\ UNCHANGED <<run, input, passed, called, outcome>>

Stop ==
  /\ run = 1
  /\ run' = 0
  /\ UNCHANGED <<stage, input, passed, called, header, outcome, answer>>

RequestStep(q) ==
  \/ Arrive(q) \/ Refuse(q) \/ Handle(q) \/ Middleware(q) \/ MiddlewaresDone(q)
  \/ ParseArguments(q) \/ CallMethod(q) \/ Respond(q)

-----------------------------------------------------------------------------
(* A method is called only for a request that every middleware whose       *)
(* patterns match has let through (option.go, beforeMiddlewareAction; the  *)
(* example of doc.go refuses this way).                                    *)
CalledIfAllowed ==
  \A q \in Requests : called[q] => Guarded \subseteq passed[q]

(* WriteHeader is called once for a request, whoever answers it: Handler,  *)
(* a middleware with AbortWriteHeader, or what ran before them; a request  *)
(* that ends without an answer met a stopped server.  An answer of Handler *)
(* is JSON-RPC 2.0 (message.go:33-61): an error or a result, never both,   *)
(* and the id of its request.  (Where the client itself sent the fields of *)
(* a response they come back, and a zero result is left out.)              *)
AnsweredOnce ==
  \A q \in Requests :
    LET a == answer[q] IN
    /\ header[q] <= 1
    /\ stage[q] = "ended" /\ header[q] = 0 => run = 0 /\ ~called[q]
    /\ a # NoAnswer =>
         /\ input[q].extra = "none" => a.error = "none" \/ a.result = "none"
         /\ a.error \in Codes <=> outcome[q].error # "none"
         /\ a.result = "value" => called[q]
         /\ input[q].body = "ok" /\ input[q].id # "none" => a.id = input[q].id
=============================================================================
