--------------------------- MODULE JsonRpcRequest ---------------------------
(***************************************************************************)
(* A request to the JSON-RPC server (src/json_rpc_server.cpp and .h).      *)
(*                                                                         *)
(* The worker of a connection receives the head and the body, decides what *)
(* to do with it, has the main thread execute the method, and responds.    *)
(* The client sends its request piece by piece, may stop at any moment,    *)
(* hang up, or stop reading.                                               *)
(*                                                                         *)
(* A request is a record:                                                  *)
(*   method   "POST", "GET" or another HTTP method                         *)
(*   match    the head has what the server's pattern for the method wants  *)
(*   found    the URI names an object                                      *)
(*   length   Content-Length, in pieces                                    *)
(*   json     "object", "array" or "bad" (cannot be parsed)                *)
(*   version  the object has "jsonrpc": "2.0"                              *)
(*   idKind   "null" (or absent), "number" or "other"                      *)
(*   id       the number, 0 when it has a fraction                         *)
(*   call     "none" (no string "method"), "unknown", or "known"           *)
(***************************************************************************)
EXTENDS Integers, Sequences, SequencesExt

CONSTANTS
  Workers,   \* threads that process a connection
  Requests,  \* Requests[w]: requests the client of w may send
  IntLimit   \* an int of n bits is less than IntLimit, which is 2 ^ (n - 1)

Request ==
  [method : STRING, match : BOOLEAN, found : BOOLEAN, length : Nat,
   json : {"object", "array", "bad"}, version : BOOLEAN,
   idKind : {"null", "number", "other"}, id : Int, call : {"none", "unknown", "known"}]

ASSUME RequestAssumption ==
  /\ IntLimit \in Nat \ {0}
  /\ Requests \in [Workers -> SUBSET Request]

VARIABLES
  \* the client of a worker's connection
  req,       \* req[w]: what it sends
  sent,      \* sent[w]: pieces of it on the way
  peer,      \* peer[w]: "open", "closed" (sends no more), "reset" or "deaf" (does not read)
  \* the worker
  pc,        \* pc[w]: where it is
  got,       \* got[w]: pieces received
  reply,     \* reply[w]: the response it is about to send
  answer,    \* answer[w]: the response the client has received
  \* the main thread
  queue,     \* workers whose calls wait for it
  executed   \* executed[w]: how often it has executed w's method

vars == <<req, sent, peer, pc, got, reply, answer, queue, executed>>
clientVars == <<req, sent, peer>>

Codes == {"NoError", "ParseError", "InvalidRequest", "MethodNotFound", "InvalidParams",
          "InternalError", "NullIDError", "ObjectNotFound"}
IntRange == -IntLimit .. IntLimit - 1

(* The member "id" of a response is a JSON string, whatever the id of the   *)
(* request was: the digits of the id, or the letters null if there is none. *)
IdMembers == [kind : {"absent", "string"}, text : {"", "digits", "null"}, of : IntRange]
NoMember == [kind |-> "absent", text |-> "", of |-> 0]
IdMember(id) ==
  [kind |-> "string", text |-> IF id = 0 THEN "null" ELSE "digits", of |-> id]

Responses == [code : Codes \union {"form", "none"}, id : IdMembers]
Nothing == [code |-> "none", id |-> NoMember]
FormPage == [code |-> "form", id |-> NoMember]

(* A request comes in pieces, of which HeadPieces are its head; the pattern *)
(* of no method matches before the end of the head is there.                *)
HeadPieces == 2
Pieces(q) == HeadPieces + (IF q.method = "POST" THEN q.length ELSE 0)

-----------------------------------------------------------------------------
(* What is decided from the request alone. *)

(* "id = val.toInteger();" keeps the low bits of a 64-bit number. *)
NarrowMutant(i) == i % (2 * IntLimit)
Narrow(i) ==
  LET low == i % (2 * IntLimit)
  IN IF low >= IntLimit THEN low - 2 * IntLimit ELSE low

(* The id a worker works with: zero stands for no id. *)
RequestIdMutant(q) == 0
RequestId(q) == IF q.idKind = "number" THEN Narrow(q.id) ELSE 0

(* Members of an array are not looked at: they all count as absent. *)
HasVersion(q) == q.json = "object" /\ q.version

(* The checks of processRequestPOST in their order.  All these errors are   *)
(* answered with id 0, that is null.                                        *)
VerdictMutant(q) ==
  IF q.call = "none" THEN "InvalidRequest" ELSE "NoError"
Verdict(q) ==
  IF q.json = "bad" THEN "ParseError"
  ELSE IF ~HasVersion(q) THEN "InternalError"
  ELSE IF q.idKind = "other" THEN "InternalError"
  ELSE IF q.idKind = "number" /\ q.id = 0 THEN "NullIDError"
  ELSE IF q.call = "none" THEN "InvalidRequest"
  ELSE "NoError"

(* sendJsonResponseValid takes id 0 for a notification and says nothing;    *)
(* sendJsonResponseError always responds.                                   *)
Silent(code, id) == code = "NoError" /\ id = 0

-----------------------------------------------------------------------------
Init ==
  /\ req \in {r \in [Workers -> UNION {Requests[w] : w \in Workers}] :
               \A w \in Workers : r[w] \in Requests[w]}
  /\ sent = [w \in Workers |-> 0]
  /\ peer = [w \in Workers |-> "open"]
  /\ pc = [w \in Workers |-> "idle"]
  /\ got = [w \in Workers |-> 0]
  /\ reply = [w \in Workers |-> Nothing]
  /\ answer = [w \in Workers |-> Nothing]
  /\ queue = <<>>
  /\ executed = [w \in Workers |-> 0]

Goto(w, l) == pc' = [pc EXCEPT ![w] = l]

(* The worker returns: the connection is closed and the buffer released. *)
End(w) == Goto(w, "end")

(* Say nothing, or write the response to the buffer it is then sent from.   *)
Respond(w, code, id) ==
  \/ /\ Silent(code, id)
     /\ End(w)
     /\ UNCHANGED reply
  \/ /\ ~Silent(code, id)
     /\ reply' = [reply EXCEPT ![w] = [code |-> code, id |-> IdMember(id)]]
     /\ Goto(w, "send")

-----------------------------------------------------------------------------
(* The client. *)

ClientSends(w) ==
  /\ peer[w] \in {"open", "deaf"}
  /\ sent[w] < Pieces(req[w])
  /\ sent' = [sent EXCEPT ![w] = @ + 1]
  /\ UNCHANGED <<req, peer, pc, got, reply, answer, queue, executed>>

ClientChanges(w) ==
  /\ peer[w] \in {"open", "deaf"}
  /\ \/ peer' = [peer EXCEPT ![w] = "closed"]
     \/ peer' = [peer EXCEPT ![w] = "reset"]
     \/ peer[w] = "open" /\ peer' = [peer EXCEPT ![w] = "deaf"]
  /\ UNCHANGED <<req, sent, pc, got, reply, answer, queue, executed>>

-----------------------------------------------------------------------------
(* Receiving. *)

(* The clients loop starts a worker when there is something to read. *)
Start(w) ==
  /\ pc[w] = "idle"
  /\ sent[w] > 0 \/ peer[w] \in {"closed", "reset"}
  /\ Goto(w, "recv")
  /\ UNCHANGED <<clientVars, got, reply, answer, queue, executed>>

(* What follows a recv: the pattern of the method decides.  As long as none *)
(* matches, because the head is incomplete or another one, the worker waits *)
(* for more until the timeout.                                              *)
Dispatch(w) ==
  LET q == [req[w] EXCEPT !.match = @ /\ got'[w] >= HeadPieces] IN
  \/ /\ q.method = "POST" /\ q.match /\ ~q.found
     /\ Respond(w, "ObjectNotFound", 0)
  \/ /\ q.method = "POST" /\ q.match /\ q.found
     /\ Goto(w, "body")
     /\ UNCHANGED reply
  \/ /\ q.method = "GET" /\ q.match
     /\ reply' = [reply EXCEPT ![w] = FormPage]
     /\ Goto(w, "header")
  \/ /\ ~q.match \/ q.method \notin {"POST", "GET"}
     /\ Goto(w, "poll")
     /\ UNCHANGED reply

(* recv in processRequest: some of what is there. *)
Receive(w) ==
  /\ pc[w] = "recv"
  /\ peer[w] # "reset"
  /\ \E k \in got[w] + 1 .. sent[w] : got' = [got EXCEPT ![w] = k]
  /\ Dispatch(w)
  /\ UNCHANGED <<clientVars, answer, queue, executed>>

(* recv fails, or returns 0 when the client has closed. *)
ReceiveEnds(w) ==
  /\ pc[w] \in {"recv", "body"}
  /\ peer[w] = "reset" \/ (peer[w] = "closed" /\ got[w] = sent[w])
  /\ pc[w] = "body" => got[w] < Pieces(req[w])
  /\ End(w)
  /\ UNCHANGED <<clientVars, got, reply, answer, queue, executed>>

(* poll in processRequest. *)
PollAgain(w) ==
  /\ pc[w] = "poll"
  /\ peer[w] # "reset"
  /\ got[w] < sent[w] \/ peer[w] = "closed"
  /\ Goto(w, "recv")
  /\ UNCHANGED <<clientVars, got, reply, answer, queue, executed>>

(* No event for WAIT_TIMEOUT_MS, or POLLHUP, in any of the waits for input. *)
ReceiveTimeout(w) ==
  /\ \/ pc[w] = "poll"
     \/ pc[w] = "body" /\ got[w] < Pieces(req[w])
  /\ (got[w] = sent[w] /\ peer[w] \in {"open", "deaf"}) \/ peer[w] = "reset"
  /\ End(w)
  /\ UNCHANGED <<clientVars, got, reply, answer, queue, executed>>

(* receiveMessageBodyPOST: until the declared length has been received. *)
ReceiveBody(w) ==
  /\ pc[w] = "body"
  /\ got[w] < Pieces(req[w])
  /\ peer[w] # "reset"
  /\ \E k \in got[w] + 1 .. sent[w] : got' = [got EXCEPT ![w] = k]
  /\ UNCHANGED <<clientVars, pc, reply, answer, queue, executed>>

(* The body counts as received when its length is reached. *)
BodyCompleteMutant(w) == got[w] >= HeadPieces
BodyComplete(w) == got[w] >= Pieces(req[w])

-----------------------------------------------------------------------------
(* invokeMethod with Qt::BlockingQueuedConnection: the call is queued to    *)
(* the main thread, and the worker blocks until it has been executed.       *)
InvokeMutant(w) ==
  /\ queue' = Append(queue, w)
  /\ Respond(w, "NoError", RequestId(req[w]))
Invoke(w) ==
  /\ queue' = Append(queue, w)
  /\ Goto(w, "blocked")
  /\ UNCHANGED reply

(* processRequestPOST: refuse, or have the method invoked. *)
Process(w) ==
  /\ pc[w] = "body"
  /\ BodyComplete(w)
  /\ \/ /\ Verdict(req[w]) # "NoError"
        /\ Respond(w, Verdict(req[w]), 0)
        /\ UNCHANGED queue
     \/ /\ Verdict(req[w]) = "NoError" /\ req[w].call = "unknown"
        /\ Respond(w, "MethodNotFound", RequestId(req[w]))
        /\ UNCHANGED queue
     \/ /\ Verdict(req[w]) = "NoError" /\ req[w].call = "known"
        /\ Invoke(w)
  /\ UNCHANGED <<clientVars, got, answer, executed>>

(* The main thread executes the method of the worker at the head of its     *)
(* queue and lets it go on; methods may refuse their parameters.            *)
Execute ==
  /\ queue # <<>>
  /\ LET w == Head(queue) IN
       /\ executed' = [executed EXCEPT ![w] = @ + 1]
       /\ \E code \in {"NoError", "InvalidParams"} :
            Respond(w, code, RequestId(req[w]))
  /\ queue' = Tail(queue)
  /\ UNCHANGED <<clientVars, got, answer>>

-----------------------------------------------------------------------------
(* Sending. *)

(* A response is sent as long as the client reads; what it has received     *)
(* counts once all of it has been sent.                                     *)
SendResponse(w) ==
  /\ pc[w] \in {"send", "form"}
  /\ peer[w] \in {"open", "closed"}
  /\ answer' = [answer EXCEPT ![w] = reply[w]]
  /\ End(w)
  /\ UNCHANGED <<clientVars, got, reply, queue, executed>>

(* The head of the form page is sent, and jsonrpc.html opened or not found. *)
SendHeader(w) ==
  /\ pc[w] = "header"
  /\ peer[w] \in {"open", "closed"}
  /\ \/ Goto(w, "form")
     \/ End(w)
  /\ UNCHANGED <<clientVars, got, reply, answer, queue, executed>>

(* The client does not read, or is gone.  The loop that sends the form      *)
(* looks at the result of poll only when it was 1, so that a timeout does   *)
(* not end it.                                                              *)
EndsOnTimeoutMutant(l) == l = "header"
EndsOnTimeout(l) == l \in {"send", "header"}

SendFails(w) ==
  /\ \/ EndsOnTimeout(pc[w]) /\ peer[w] = "deaf"
     \/ pc[w] \in {"send", "header", "form"} /\ peer[w] = "reset"
  /\ End(w)
  /\ UNCHANGED <<clientVars, got, reply, answer, queue, executed>>

-----------------------------------------------------------------------------
WorkerStep(w) ==
  \/ Start(w) \/ Receive(w) \/ ReceiveEnds(w) \/ PollAgain(w) \/ ReceiveTimeout(w)
  \/ ReceiveBody(w) \/ Process(w) \/ SendResponse(w) \/ SendHeader(w) \/ SendFails(w)

Next ==
  \/ \E w \in Workers : WorkerStep(w) \/ ClientSends(w) \/ ClientChanges(w)
  \/ Execute

Spec == Init /\ [][Next]_vars

(* Threads are scheduled, waits end at their timeout, and the main thread   *)
(* is in its event loop.  Clients may do what they want.                    *)
FairSpec ==
  Spec /\ WF_vars(Execute) /\ \A w \in Workers : WF_vars(WorkerStep(w))

-----------------------------------------------------------------------------
(* Every variable has its type, the ids of responses that of an int.        *)
TypeOK ==
  /\ \A w \in Workers : req[w] \in Requests[w]
  /\ sent \in [Workers -> Nat] /\ got \in [Workers -> Nat]
  /\ peer \in [Workers -> {"open", "closed", "reset", "deaf"}]
  /\ pc \in [Workers -> {"idle", "recv", "poll", "body", "blocked", "send", "header", "form",
                         "end"}]
  /\ reply \in [Workers -> Responses] /\ answer \in [Workers -> Responses]
  /\ queue \in Seq(Workers) /\ executed \in [Workers -> Nat]
  /\ \A w \in Workers : got[w] <= sent[w] /\ sent[w] <= Pieces(req[w])

Called(q) ==
  /\ q.method = "POST" /\ q.match /\ q.found
  /\ HasVersion(q) /\ q.idKind # "other" /\ ~(q.idKind = "number" /\ q.id = 0)
  /\ q.call = "known"

(* A method is executed for a complete and valid call only, and never twice,*)
(* whatever the client does while the worker waits.                         *)
ExecutedForCallsOnly ==
  \A w \in Workers :
    /\ executed[w] <= 1
    /\ executed[w] = 1 => Called(req[w]) /\ got[w] = Pieces(req[w])

(* What the client is told is what happened: a result or refused parameters *)
(* after an execution, any other error without one.  And a client that goes *)
(* on reading gets for an executed call a response whose id is a string:    *)
(* the digits of the call's id if this fits an int, of its low bits if not. *)
(* For a notification, and for a number whose low bits are all zero, there  *)
(* is no response, or one with the id "null" when parameters were refused.  *)
AnswerTellsOutcome ==
  \A w \in Workers :
    LET id == IF req[w].idKind = "number" THEN req[w].id ELSE 0
        low == IF id \in IntRange THEN id ELSE Narrow(id)
    IN
    /\ answer[w].code \in Codes =>
         (answer[w].code \in {"NoError", "InvalidParams"} <=> executed[w] = 1)
    /\ pc[w] = "end" /\ executed[w] = 1 /\ peer[w] = "open" =>
         /\ low # 0 => answer[w].id = [kind |-> "string", text |-> "digits", of |-> low]
         /\ low = 0 =>
              \/ answer[w] = Nothing
              \/ /\ answer[w].code = "InvalidParams"
                 /\ answer[w].id = [kind |-> "string", text |-> "null", of |-> 0]

(* Workers blocked in invokeMethod are exactly those whose calls wait: none *)
(* is forgotten and none waits for two.                                     *)
BlockedAreQueued ==
  /\ \A w \in Workers : pc[w] = "blocked" <=> w \in ToSet(queue)
  /\ IsInjective(queue)

(* A worker comes to its end, whatever its client does, unless it is about  *)
(* to send the form page to a client that does not read.                    *)
WorkerEnds ==
  \A w \in Workers :
    pc[w] # "idle" ~> (pc[w] = "end" \/ (pc[w] = "form" /\ peer[w] = "deaf"))
=============================================================================
