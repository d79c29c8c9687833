----------------------- MODULE JsonRpcRequest_proofs -----------------------
(***************************************************************************)
(* Proofs about JsonRpcRequest, for any number of workers and requests, and *)
(* for an int of any width.                                                *)
(***************************************************************************)
EXTENDS JsonRpcRequest, TLAPS

(* The ids: every number becomes an int, and those that fit stay the same.  *)

LEMMA Remainder ==
  ASSUME NEW n \in Nat \ {0}, NEW i \in Int
  PROVE  /\ i % n \in 0 .. n - 1
         /\ i \in 0 .. n - 1 => i % n = i
         /\ i \in -n .. -1 => i % n = i + n
  OBVIOUS

LEMMA NarrowType == \A i \in Int : Narrow(i) \in IntRange
<1> SUFFICES ASSUME NEW i \in Int PROVE Narrow(i) \in IntRange
  OBVIOUS
<1>1. 2 * IntLimit \in Nat \ {0} /\ IntLimit \in Nat
  BY RequestAssumption
<1>2. i % (2 * IntLimit) \in 0 .. 2 * IntLimit - 1
  BY <1>1, Remainder
<1> QED
  BY <1>1, <1>2 DEF Narrow, IntRange

LEMMA NarrowKeeps == \A i \in IntRange : Narrow(i) = i
<1> SUFFICES ASSUME NEW i \in IntRange PROVE Narrow(i) = i
  OBVIOUS
<1>1. IntLimit \in Nat /\ i \in Int /\ 2 * IntLimit \in Nat \ {0} /\ i \in -IntLimit .. IntLimit - 1
  BY RequestAssumption DEF IntRange
<1>2. CASE i >= 0
  <2>1. i \in 0 .. 2 * IntLimit - 1
    BY <1>1, <1>2
  <2>2. i % (2 * IntLimit) = i
    BY ONLY <1>1, <2>1, Remainder
  <2> QED
    BY <1>1, <1>2, <2>2 DEF Narrow
<1>3. CASE i < 0
  <2>1. i \in -(2 * IntLimit) .. -1
    BY <1>1, <1>3
  <2>2. i % (2 * IntLimit) = i + 2 * IntLimit
    BY ONLY <1>1, <2>1, Remainder
  <2> QED
    BY <1>1, <1>3, <2>2 DEF Narrow
<1> QED
  BY <1>1, <1>2, <1>3

-----------------------------------------------------------------------------
(* A queue without duplicates, as a set. *)
LEMMA Joined ==
  ASSUME NEW S, NEW s \in Seq(S), NEW x \in S, IsInjective(s), x \notin ToSet(s)
  PROVE  /\ Append(s, x) \in Seq(S)
         /\ ToSet(Append(s, x)) = ToSet(s) \union {x}
         /\ IsInjective(Append(s, x))
<1>1. /\ Append(s, x) \in Seq(S) /\ Len(s) \in Nat /\ Len(Append(s, x)) = Len(s) + 1
      /\ DOMAIN Append(s, x) = 1 .. Len(s) + 1 /\ DOMAIN s = 1 .. Len(s)
      /\ \A i \in 1 .. Len(s) : Append(s, x)[i] = s[i]
      /\ Append(s, x)[Len(s) + 1] = x
  OBVIOUS
<1>2. ToSet(Append(s, x)) = ToSet(s) \union {x}
  BY <1>1 DEF ToSet
<1>3. IsInjective(Append(s, x))
  <2> SUFFICES ASSUME NEW i \in 1 .. Len(s) + 1, NEW j \in 1 .. Len(s) + 1,
                      Append(s, x)[i] = Append(s, x)[j]
               PROVE  i = j
    BY <1>1 DEF IsInjective
  <2>1. \A k \in 1 .. Len(s) : s[k] # x
    BY <1>1 DEF ToSet
  <2> QED
    BY <1>1, <2>1 DEF IsInjective
<1> QED
  BY <1>1, <1>2, <1>3

LEMMA Left ==
  ASSUME NEW S, NEW s \in Seq(S), s # <<>>, IsInjective(s)
  PROVE  /\ Tail(s) \in Seq(S) /\ Head(s) \in S /\ Head(s) \in ToSet(s)
         /\ ToSet(Tail(s)) = ToSet(s) \ {Head(s)}
         /\ IsInjective(Tail(s))
<1>1. /\ Tail(s) \in Seq(S) /\ Len(s) \in Nat \ {0} /\ Len(Tail(s)) = Len(s) - 1
      /\ DOMAIN Tail(s) = 1 .. Len(s) - 1 /\ DOMAIN s = 1 .. Len(s)
      /\ \A i \in 1 .. Len(s) - 1 : Tail(s)[i] = s[i + 1]
      /\ Head(s) = s[1] /\ s[1] \in S
  OBVIOUS
<1>2. Head(s) \in ToSet(s)
  BY <1>1 DEF ToSet
<1>3. ASSUME NEW y \in ToSet(Tail(s)) PROVE y \in ToSet(s) \ {Head(s)}
  <2>1. PICK i \in 1 .. Len(s) - 1 : y = s[i + 1]
    BY <1>1, <1>3 DEF ToSet
  <2>2. i + 1 \in 1 .. Len(s) /\ i + 1 # 1 /\ 1 \in 1 .. Len(s)
    BY <1>1
  <2>3. s[i + 1] # s[1]
    BY <1>1, <2>2 DEF IsInjective
  <2> QED
    BY <1>1, <2>1, <2>2, <2>3 DEF ToSet
<1>4. ASSUME NEW y \in ToSet(s), y # Head(s) PROVE y \in ToSet(Tail(s))
  <2>1. PICK i \in 1 .. Len(s) : y = s[i]
    BY <1>1, <1>4 DEF ToSet
  <2>2. i - 1 \in 1 .. Len(s) - 1 /\ (i - 1) + 1 = i
    BY <1>1, <1>4, <2>1
  <2> QED
    BY <1>1, <2>1, <2>2 DEF ToSet
<1>5. IsInjective(Tail(s))
  <2> SUFFICES ASSUME NEW i \in 1 .. Len(s) - 1, NEW j \in 1 .. Len(s) - 1,
                      Tail(s)[i] = Tail(s)[j]
               PROVE  i = j
    BY <1>1 DEF IsInjective
  <2>1. i + 1 \in 1 .. Len(s) /\ j + 1 \in 1 .. Len(s) /\ s[i + 1] = s[j + 1]
    BY <1>1
  <2> QED
    BY <1>1, <2>1 DEF IsInjective
<1> QED
  BY <1>1, <1>2, <1>3, <1>4, <1>5

-----------------------------------------------------------------------------
(* The places of a worker, and the types of what the actions compute. *)
Labels == {"idle", "recv", "poll", "body", "blocked", "send", "header", "form", "end"}

LEMMA ZeroFits == 0 \in IntRange /\ IntRange \subseteq Int
  BY RequestAssumption DEF IntRange

LEMMA PiecesType == \A w \in Workers : \A q \in Requests[w] : q \in Request /\ Pieces(q) \in Nat
  BY RequestAssumption DEF Request, Pieces, HeadPieces

LEMMA RequestIdType == \A w \in Workers : \A q \in Requests[w] : RequestId(q) \in IntRange
  BY NarrowType, ZeroFits, PiecesType DEF RequestId, Request

LEMMA ResponseType ==
  /\ \A code \in Codes, id \in IntRange : [code |-> code, id |-> IdMember(id)] \in Responses
  /\ FormPage \in Responses /\ Nothing \in Responses
  BY ZeroFits DEF Responses, IdMember, IdMembers, FormPage, Nothing, NoMember

LEMMA VerdictType == \A q : Verdict(q) \in Codes
  BY DEF Verdict, Codes

(* The part of the types that a response can disturb. *)
LEMMA RespondType ==
  ASSUME TypeOK, NEW w \in Workers, NEW code \in Codes, NEW id \in IntRange,
         Respond(w, code, id)
  PROVE  reply' \in [Workers -> Responses] /\ pc' \in [Workers -> Labels]
<1>1. [code |-> code, id |-> IdMember(id)] \in Responses
  BY ResponseType
<1> QED
  BY <1>1 DEF TypeOK, Respond, Goto, End, Labels

LEMMA DispatchType ==
  ASSUME TypeOK, NEW w \in Workers, Dispatch(w)
  PROVE  reply' \in [Workers -> Responses] /\ pc' \in [Workers -> Labels]
<1>1. "ObjectNotFound" \in Codes
  BY DEF Codes
<1>2. CASE Respond(w, "ObjectNotFound", 0)
  BY <1>1, <1>2, RespondType, ZeroFits
<1>3. ASSUME NEW l \in Labels, Goto(w, l), UNCHANGED reply
      PROVE  reply' \in [Workers -> Responses] /\ pc' \in [Workers -> Labels]
  BY <1>3 DEF TypeOK, Goto, Labels
<1>4. CASE reply' = [reply EXCEPT ![w] = FormPage] /\ Goto(w, "header")
  BY <1>4, ResponseType DEF TypeOK, Goto, Labels
<1>5. "body" \in Labels /\ "poll" \in Labels
  BY DEF Labels
<1> QED
  BY <1>2, <1>3, <1>4, <1>5 DEF Dispatch

LEMMA TypeInit == Init => TypeOK
  BY PiecesType, ResponseType DEF Init, TypeOK

LEMMA TypeNext == TypeOK /\ [Next]_vars => TypeOK'
<1> SUFFICES ASSUME TypeOK, [Next]_vars PROVE TypeOK'
  OBVIOUS
<1> USE DEF Labels
<1>a. /\ sent \in [Workers -> Nat] /\ got \in [Workers -> Nat]
      /\ pc \in [Workers -> Labels] /\ queue \in Seq(Workers)
      /\ \A w \in Workers : Pieces(req[w]) \in Nat /\ RequestId(req[w]) \in IntRange
  BY PiecesType, RequestIdType DEF TypeOK
<1>1. ASSUME NEW w \in Workers, ClientSends(w) PROVE TypeOK'
  BY <1>a, <1>1 DEF TypeOK, ClientSends
<1>2. ASSUME NEW w \in Workers, ClientChanges(w) PROVE TypeOK'
  BY <1>2 DEF TypeOK, ClientChanges
<1>3. ASSUME NEW w \in Workers,
             Start(w) \/ ReceiveEnds(w) \/ PollAgain(w) \/ ReceiveTimeout(w) \/ SendHeader(w)
               \/ SendFails(w)
      PROVE  TypeOK'
  <2>1. /\ pc' \in [Workers -> Labels]
        /\ UNCHANGED <<clientVars, got, reply, answer, queue, executed>>
    BY <1>3 DEF TypeOK, Start, ReceiveEnds, PollAgain, ReceiveTimeout, SendHeader, SendFails,
                Goto, End
  <2> QED
    BY <2>1 DEF TypeOK, clientVars
<1>4. ASSUME NEW w \in Workers, Receive(w) PROVE TypeOK'
  <2>1. reply' \in [Workers -> Responses] /\ pc' \in [Workers -> Labels]
    BY <1>4, DispatchType DEF Receive
  <2>2. got' \in [Workers -> Nat] /\ \A v \in Workers : got'[v] <= sent[v]
    BY <1>4, <1>a DEF TypeOK, Receive
  <2> QED
    BY <1>4, <2>1, <2>2 DEF TypeOK, Receive, clientVars
<1>5. ASSUME NEW w \in Workers, ReceiveBody(w) PROVE TypeOK'
  <2>1. got' \in [Workers -> Nat] /\ \A v \in Workers : got'[v] <= sent[v]
    BY <1>5, <1>a DEF TypeOK, ReceiveBody
  <2> QED
    BY <1>5, <2>1 DEF TypeOK, ReceiveBody, clientVars
<1>6. ASSUME NEW w \in Workers, Process(w) PROVE TypeOK'
  <2>1. reply' \in [Workers -> Responses] /\ pc' \in [Workers -> Labels]
    <3>1. CASE Respond(w, Verdict(req[w]), 0)
      BY <3>1, VerdictType, RespondType, ZeroFits
    <3>2. CASE Respond(w, "MethodNotFound", RequestId(req[w]))
      BY <3>2, <1>a, RespondType DEF Codes
    <3>3. CASE Invoke(w)
      BY <3>3 DEF TypeOK, Invoke, Goto
    <3> QED
      BY <1>6, <3>1, <3>2, <3>3 DEF Process
  <2>2. queue' \in Seq(Workers)
    <3>1. queue' = queue \/ queue' = Append(queue, w)
      BY <1>6 DEF Process, Invoke
    <3>2. Append(queue, w) \in Seq(Workers)
      BY <1>a
    <3> QED
      BY <1>a, <3>1, <3>2
  <2> QED
    BY <1>6, <2>1, <2>2 DEF TypeOK, Process, clientVars
<1>7. ASSUME Execute PROVE TypeOK'
  <2> DEFINE w == Head(queue)
  <2>1. w \in Workers /\ queue' \in Seq(Workers)
    BY <1>7, <1>a DEF Execute
  <2>2. executed' \in [Workers -> Nat]
    BY <1>7, <2>1 DEF TypeOK, Execute
  <2>3. PICK code \in {"NoError", "InvalidParams"} : Respond(w, code, RequestId(req[w]))
    BY <1>7 DEF Execute
  <2>4. code \in Codes
    BY DEF Codes
  <2>5. reply' \in [Workers -> Responses] /\ pc' \in [Workers -> Labels]
    BY <1>a, <2>1, <2>3, <2>4, RespondType
  <2> QED
    BY <1>7, <2>1, <2>2, <2>5 DEF TypeOK, Execute, clientVars
<1>8. ASSUME NEW w \in Workers, SendResponse(w) PROVE TypeOK'
  BY <1>8 DEF TypeOK, SendResponse, clientVars, End, Goto
<1>9. CASE UNCHANGED vars
  BY <1>9 DEF TypeOK, vars
<1> QED
  BY <1>1, <1>2, <1>3, <1>4, <1>5, <1>6, <1>7, <1>8, <1>9 DEF Next, WorkerStep

(* Every variable has its type; the id of a response fits an int whatever   *)
(* number the request had, and no worker reads what its client did not send.*)
THEOREM TypeCorrect == Spec => []TypeOK
  BY TypeInit, TypeNext, PTL DEF Spec

-----------------------------------------------------------------------------
(* A step that moves one worker w, and not out of or into "blocked".        *)
LEMMA BlockedKept ==
  ASSUME TypeOK, BlockedAreQueued, NEW w \in Workers, NEW l \in Labels \ {"blocked"},
         pc[w] # "blocked", Goto(w, l), UNCHANGED queue
  PROVE  BlockedAreQueued'
  BY DEF TypeOK, BlockedAreQueued, Goto

LEMMA RespondGoes ==
  ASSUME NEW w, NEW code, NEW id, Respond(w, code, id)
  PROVE  \/ Silent(code, id) /\ Goto(w, "end") /\ UNCHANGED reply
         \/ /\ ~Silent(code, id) /\ Goto(w, "send")
            /\ reply' = [reply EXCEPT ![w] = [code |-> code, id |-> IdMember(id)]]
  BY DEF Respond, End

LEMMA DispatchGoes ==
  ASSUME NEW w, Dispatch(w)
  PROVE  \E l \in {"send", "end", "body", "header", "poll"} : Goto(w, l)
<1>1. CASE Respond(w, "ObjectNotFound", 0)
  BY <1>1, RespondGoes
<1> QED
  BY <1>1 DEF Dispatch

LEMMA BlockedNext == TypeOK /\ BlockedAreQueued /\ [Next]_vars => BlockedAreQueued'
<1> SUFFICES ASSUME TypeOK, BlockedAreQueued, [Next]_vars PROVE BlockedAreQueued'
  OBVIOUS
<1>1. ASSUME NEW w \in Workers, ClientSends(w) \/ ClientChanges(w) PROVE BlockedAreQueued'
  BY <1>1 DEF BlockedAreQueued, ClientSends, ClientChanges
<1>2. ASSUME NEW w \in Workers,
             Start(w) \/ ReceiveEnds(w) \/ PollAgain(w) \/ ReceiveTimeout(w) \/ SendHeader(w)
               \/ SendFails(w) \/ SendResponse(w)
      PROVE  BlockedAreQueued'
  <2>1. pc[w] # "blocked" /\ UNCHANGED queue /\ \E l \in Labels \ {"blocked"} : Goto(w, l)
    BY <1>2 DEF Start, ReceiveEnds, PollAgain, ReceiveTimeout, SendHeader, SendFails,
                EndsOnTimeout, SendResponse, End, Labels
  <2> QED
    BY <2>1, BlockedKept
<1>3. ASSUME NEW w \in Workers, Receive(w) PROVE BlockedAreQueued'
  <2>1. pc[w] # "blocked" /\ UNCHANGED queue /\ \E l \in Labels \ {"blocked"} : Goto(w, l)
    BY <1>3, DispatchGoes DEF Receive, Labels
  <2> QED
    BY <2>1, BlockedKept
<1>4. ASSUME NEW w \in Workers, ReceiveBody(w) PROVE BlockedAreQueued'
  BY <1>4 DEF BlockedAreQueued, ReceiveBody
<1>5. ASSUME NEW w \in Workers, Process(w) PROVE BlockedAreQueued'
  <2>1. CASE UNCHANGED queue /\ \E code, id : Respond(w, code, id)
    <3>1. pc[w] # "blocked" /\ \E l \in Labels \ {"blocked"} : Goto(w, l)
      BY <1>5, <2>1, RespondGoes DEF Process, Labels
    <3> QED
      BY <2>1, <3>1, BlockedKept
  <2>2. CASE Invoke(w)
    <3>1. w \notin ToSet(queue) /\ queue \in Seq(Workers) /\ IsInjective(queue)
      BY <1>5 DEF Process, BlockedAreQueued, TypeOK
    <3>2. ToSet(queue') = ToSet(queue) \union {w} /\ IsInjective(queue')
      BY <2>2, <3>1, Joined DEF Invoke
    <3>3. \A v \in Workers : pc'[v] = IF v = w THEN "blocked" ELSE pc[v]
      BY <2>2 DEF Invoke, Goto, TypeOK
    <3> QED
      BY <3>2, <3>3 DEF BlockedAreQueued
  <2> QED
    BY <1>5, <2>1, <2>2 DEF Process
<1>6. ASSUME Execute PROVE BlockedAreQueued'
  <2> DEFINE w == Head(queue)
  <2>1. /\ w \in Workers /\ w \in ToSet(queue)
        /\ ToSet(queue') = ToSet(queue) \ {w} /\ IsInjective(queue')
    BY <1>6, Left DEF Execute, TypeOK, BlockedAreQueued
  <2>2. PICK l \in {"send", "end"} : Goto(w, l)
    BY <1>6, RespondGoes DEF Execute
  <2>3. \A v \in Workers : pc'[v] = IF v = w THEN l ELSE pc[v]
    BY <2>1, <2>2 DEF Goto, TypeOK
  <2> HIDE DEF w
  <2> QED
    BY <2>1, <2>3 DEF BlockedAreQueued
<1>7. CASE UNCHANGED vars
  BY <1>7 DEF BlockedAreQueued, vars
<1> QED
  BY <1>1, <1>2, <1>3, <1>4, <1>5, <1>6, <1>7 DEF Next, WorkerStep

LEMMA BlockedInit == Init => BlockedAreQueued
  BY DEF Init, BlockedAreQueued, ToSet, IsInjective

(* The workers that wait in invokeMethod are those whose calls are queued   *)
(* to the main thread, each of them once: a worker is never blocked for a   *)
(* call nobody will execute, nor let go for the call of another one.        *)
THEOREM QueueIsBlocked == Spec => []BlockedAreQueued
  BY BlockedInit, BlockedNext, TypeCorrect, PTL DEF Spec

-----------------------------------------------------------------------------
(* Where a method has been executed: nowhere before the worker's call has   *)
(* been let go.  A worker is blocked only after the checks of its request   *)
(* and with all of the body, and stays so while the call waits.             *)
Waiting == {"idle", "recv", "poll", "body", "blocked", "header", "form"}

Controlled(w) ==
  /\ pc[w] = "body" => req[w].method = "POST" /\ req[w].match /\ req[w].found
  /\ pc[w] \in Waiting => executed[w] = 0
  /\ pc[w] = "blocked" => Called(req[w]) /\ got[w] = Pieces(req[w])
  /\ executed[w] \in 0 .. 1
  /\ executed[w] = 1 => Called(req[w]) /\ got[w] = Pieces(req[w])

ControlInv == \A w \in Workers : Controlled(w)

LEMMA DispatchToBody ==
  ASSUME TypeOK, NEW w \in Workers, Dispatch(w), pc'[w] = "body"
  PROVE  req[w].method = "POST" /\ req[w].match /\ req[w].found
<1>1. req[w] \in Request
  BY PiecesType DEF TypeOK
<1>2. ASSUME NEW l, Goto(w, l) PROVE l = "body"
  BY <1>2 DEF Goto, TypeOK
<1>3. ~Respond(w, "ObjectNotFound", 0)
  BY <1>2, RespondGoes
<1>4. ~Goto(w, "header") /\ ~Goto(w, "poll")
  BY <1>2
<1> QED
  BY <1>1, <1>3, <1>4 DEF Dispatch, Request

(* A step of w that executes nothing and keeps what it has received.        *)
LEMMA ControlMoved ==
  ASSUME TypeOK, ControlInv, NEW w \in Workers, NEW l \in Labels \ {"body", "blocked"},
         Goto(w, l), UNCHANGED <<req, got, executed>>,
         l \in Waiting => pc[w] \in Waiting
  PROVE  ControlInv'
<1> SUFFICES ASSUME NEW v \in Workers PROVE Controlled(v)'
  BY DEF ControlInv
<1>1. pc'[v] = IF v = w THEN l ELSE pc[v]
  BY DEF Goto, TypeOK
<1>2. Controlled(v) /\ Controlled(w)
  BY DEF ControlInv
<1> QED
  BY <1>1, <1>2 DEF Controlled

LEMMA ControlNext == TypeOK /\ BlockedAreQueued /\ ControlInv /\ [Next]_vars => ControlInv'
<1> SUFFICES ASSUME TypeOK, BlockedAreQueued, ControlInv, [Next]_vars PROVE ControlInv'
  OBVIOUS
<1>1. ASSUME NEW w \in Workers, ClientSends(w) \/ ClientChanges(w) PROVE ControlInv'
  BY <1>1 DEF ControlInv, Controlled, ClientSends, ClientChanges
<1>2. ASSUME NEW w \in Workers,
             Start(w) \/ ReceiveEnds(w) \/ PollAgain(w) \/ ReceiveTimeout(w) \/ SendHeader(w)
               \/ SendFails(w) \/ SendResponse(w)
      PROVE  ControlInv'
  <2>1. /\ UNCHANGED <<req, got, executed>>
        /\ \E l \in Labels \ {"body", "blocked"} :
             Goto(w, l) /\ (l \in Waiting => pc[w] \in Waiting)
    BY <1>2 DEF Start, ReceiveEnds, PollAgain, ReceiveTimeout, SendHeader, SendFails,
                EndsOnTimeout, SendResponse, End, Labels, Waiting, clientVars
  <2> QED
    BY <2>1, ControlMoved
<1>3. ASSUME NEW w \in Workers, Receive(w) PROVE ControlInv'
  <2>1. PICK l \in {"send", "end", "body", "header", "poll"} : Goto(w, l)
    BY <1>3, DispatchGoes DEF Receive
  <2>2. \A v \in Workers : /\ v # w => pc'[v] = pc[v] /\ got'[v] = got[v]
                           /\ pc'[w] = l
    BY <1>3, <2>1 DEF Receive, Goto, TypeOK
  <2>3. pc'[w] = "body" => req[w].method = "POST" /\ req[w].match /\ req[w].found
    BY <1>3, DispatchToBody DEF Receive
  <2>4. executed[w] = 0 /\ req' = req /\ executed' = executed
    BY <1>3 DEF Receive, ControlInv, Controlled, Waiting, clientVars
  <2>5. ASSUME NEW v \in Workers PROVE Controlled(v)'
    <3>1. CASE v = w
      BY <2>2, <2>3, <2>4, <3>1 DEF Controlled
    <3>2. CASE v # w
      BY <2>2, <2>4, <3>2 DEF ControlInv, Controlled
    <3> QED
      BY <3>1, <3>2
  <2> QED
    BY <2>5 DEF ControlInv
<1>4. ASSUME NEW w \in Workers, ReceiveBody(w) PROVE ControlInv'
  <2>1. UNCHANGED <<req, pc, executed>> /\ \A v \in Workers : v # w => got'[v] = got[v]
    BY <1>4 DEF ReceiveBody, TypeOK, clientVars
  <2>2. pc[w] = "body" /\ executed[w] = 0
    BY <1>4 DEF ReceiveBody, ControlInv, Controlled, Waiting
  <2> QED
    BY <2>1, <2>2 DEF ControlInv, Controlled
<1>5. ASSUME NEW w \in Workers, Process(w) PROVE ControlInv'
  <2>1. pc[w] = "body" /\ UNCHANGED <<req, got, executed>> /\ got[w] = Pieces(req[w])
    <3>1. /\ got[w] \in Nat /\ sent[w] \in Nat /\ Pieces(req[w]) \in Nat
          /\ got[w] <= sent[w] /\ sent[w] <= Pieces(req[w])
      BY PiecesType DEF TypeOK
    <3> QED
      BY <1>5, <3>1 DEF Process, BodyComplete, clientVars
  <2>2. CASE \E code, id : Respond(w, code, id)
    <3>1. \E l \in Labels \ {"body", "blocked"} : Goto(w, l) /\ l \notin Waiting
      BY <2>2, RespondGoes DEF Labels, Waiting
    <3> QED
      BY <2>1, <3>1, ControlMoved
  <2>3. CASE Invoke(w) /\ Verdict(req[w]) = "NoError" /\ req[w].call = "known"
    <3>1. Called(req[w]) /\ executed[w] = 0
      BY <2>1, <2>3 DEF ControlInv, Controlled, Called, Verdict, Waiting
    <3>2. \A v \in Workers : pc'[v] = IF v = w THEN "blocked" ELSE pc[v]
      BY <2>3 DEF Invoke, Goto, TypeOK
    <3> QED
      BY <2>1, <3>1, <3>2 DEF ControlInv, Controlled
  <2> QED
    BY <1>5, <2>2, <2>3 DEF Process
<1>6. ASSUME Execute PROVE ControlInv'
  <2> DEFINE w == Head(queue)
  <2>1. w \in Workers /\ w \in ToSet(queue)
    BY <1>6, Left DEF Execute, TypeOK, BlockedAreQueued
  <2>2. PICK l \in {"send", "end"} : Goto(w, l)
    BY <1>6, RespondGoes DEF Execute
  <2>3. pc[w] = "blocked" /\ UNCHANGED <<req, got>>
    BY <1>6, <2>1 DEF Execute, BlockedAreQueued, clientVars
  <2>4. Called(req[w]) /\ got[w] = Pieces(req[w]) /\ executed[w] = 0
    BY <2>1, <2>3 DEF ControlInv, Controlled, Waiting
  <2>5. \A v \in Workers : /\ pc'[v] = IF v = w THEN l ELSE pc[v]
                           /\ executed'[v] = IF v = w THEN executed[v] + 1 ELSE executed[v]
    BY <1>6, <2>1, <2>2 DEF Execute, Goto, TypeOK
  <2> HIDE DEF w
  <2>6. ASSUME NEW v \in Workers PROVE Controlled(v)'
    <3>1. CASE v = w
      BY <2>1, <2>3, <2>4, <2>5, <3>1 DEF Controlled, Waiting
    <3>2. CASE v # w
      BY <2>1, <2>3, <2>5, <3>2 DEF ControlInv, Controlled
    <3> QED
      BY <3>1, <3>2
  <2> QED
    BY <2>6 DEF ControlInv
<1>7. CASE UNCHANGED vars
  BY <1>7 DEF ControlInv, Controlled, vars
<1> QED
  BY <1>1, <1>2, <1>3, <1>4, <1>5, <1>6, <1>7 DEF Next, WorkerStep

LEMMA ControlInit == Init => ControlInv
  BY DEF Init, ControlInv, Controlled, Waiting

LEMMA ControlAlways == Spec => []ControlInv
  BY ControlInit, ControlNext, TypeCorrect, QueueIsBlocked, PTL DEF Spec

(* A method is executed only for a request that is complete and has passed  *)
(* every check, and at most once.                                           *)
THEOREM OnceAndForCalls == Spec => []ExecutedForCallsOnly
<1>1. ControlInv => ExecutedForCallsOnly
  BY DEF ControlInv, Controlled, ExecutedForCallsOnly
<1> QED
  BY <1>1, ControlAlways, PTL

-----------------------------------------------------------------------------
(* What a worker is about to say, and what its client has been told.        *)
Outcomes == {"NoError", "InvalidParams"}

(* The response to an executed call of w names its id, and says "null" only *)
(* to refuse parameters.                                                    *)
Named(w, r) ==
  /\ r.id = IdMember(RequestId(req[w]))
  /\ RequestId(req[w]) = 0 => r.code = "InvalidParams"

Told(w) ==
  /\ pc[w] = "send" =>
       /\ reply[w].code \in Codes
       /\ reply[w].code \in Outcomes <=> executed[w] = 1
       /\ executed[w] = 1 => Named(w, reply[w])
  /\ pc[w] \in {"header", "form"} => reply[w].code = "form"
  /\ pc[w] # "end" => answer[w] = Nothing
  /\ answer[w].code \in Codes => (answer[w].code \in Outcomes <=> executed[w] = 1)
  /\ pc[w] = "end" /\ executed[w] = 1 /\ peer[w] = "open" =>
       Named(w, answer[w]) \/ (answer[w] = Nothing /\ RequestId(req[w]) = 0)

OutcomeInv == \A w \in Workers : Told(w)

(* A step of w leaves the others alone. *)
LEMMA ToldAlone ==
  ASSUME OutcomeInv, NEW w \in Workers, Told(w)',
         \A v \in Workers \ {w} :
           /\ pc'[v] = pc[v] /\ reply'[v] = reply[v] /\ answer'[v] = answer[v]
           /\ executed'[v] = executed[v] /\ req'[v] = req[v] /\ peer'[v] = peer[v]
  PROVE  OutcomeInv'
<1> SUFFICES ASSUME NEW v \in Workers, v # w PROVE Told(v)'
  BY DEF OutcomeInv
<1> QED
  BY DEF OutcomeInv, Told, Named

(* A worker that has executed nothing and goes on waiting, or gives up.     *)
LEMMA ToldWaiting ==
  ASSUME TypeOK, ControlInv, OutcomeInv, NEW w \in Workers, NEW l \in Labels \ {"send"},
         Goto(w, l), pc[w] \in Waiting,
         UNCHANGED <<req, peer, answer, executed>>,
         \A v \in Workers \ {w} : reply'[v] = reply[v],
         l \in {"header", "form"} => reply'[w].code = "form"
  PROVE  OutcomeInv'
<1>1. executed[w] = 0 /\ answer[w] = Nothing
  BY DEF ControlInv, Controlled, OutcomeInv, Told, Waiting
<1>2. pc'[w] = l /\ \A v \in Workers \ {w} : pc'[v] = pc[v]
  BY DEF Goto, TypeOK
<1>3. Nothing.code \notin Codes
  BY DEF Nothing, Codes
<1>4. Told(w)'
  BY <1>1, <1>2, <1>3 DEF Told
<1> QED
  BY <1>2, <1>4, ToldAlone

(* A worker that responds, having executed its method or not. *)
LEMMA ToldResponse ==
  ASSUME TypeOK, OutcomeInv, NEW w \in Workers, NEW code \in Codes, NEW id \in IntRange,
         Respond(w, code, id), pc[w] # "end",
         UNCHANGED <<req, peer, answer>>, \A v \in Workers \ {w} : executed'[v] = executed[v],
         code \in Outcomes <=> executed'[w] = 1,
         executed'[w] = 1 => id = RequestId(req[w])
  PROVE  OutcomeInv'
<1>1. answer[w] = Nothing /\ Nothing.code \notin Codes
  BY DEF OutcomeInv, Told, Nothing, Codes
<1>2. CASE Silent(code, id) /\ Goto(w, "end") /\ UNCHANGED reply
  <2>1. pc'[w] = "end" /\ \A v \in Workers \ {w} : pc'[v] = pc[v]
    BY <1>2 DEF Goto, TypeOK
  <2>2. Told(w)'
    BY <1>1, <1>2, <2>1 DEF Told, Silent
  <2> QED
    BY <1>2, <2>1, <2>2, ToldAlone
<1>3. CASE /\ ~Silent(code, id) /\ Goto(w, "send")
           /\ reply' = [reply EXCEPT ![w] = [code |-> code, id |-> IdMember(id)]]
  <2>1. pc'[w] = "send" /\ \A v \in Workers \ {w} : pc'[v] = pc[v]
    BY <1>3 DEF Goto, TypeOK
  <2>2. /\ reply'[w].code = code /\ reply'[w].id = IdMember(id)
        /\ \A v \in Workers \ {w} : reply'[v] = reply[v]
    BY <1>3 DEF TypeOK
  <2>3. executed'[w] = 1 => Named(w, reply[w])'
    BY <1>3, <2>2 DEF Named, Silent, Outcomes
  <2>4. Told(w)'
    BY <1>1, <2>1, <2>2, <2>3 DEF Told
  <2> QED
    BY <2>1, <2>2, <2>4, ToldAlone
<1> QED
  BY <1>2, <1>3, RespondGoes

LEMMA OutcomeNext ==
  TypeOK /\ BlockedAreQueued /\ ControlInv /\ OutcomeInv /\ [Next]_vars => OutcomeInv'
<1> SUFFICES ASSUME TypeOK, BlockedAreQueued, ControlInv, OutcomeInv, [Next]_vars
             PROVE  OutcomeInv'
  OBVIOUS
<1>a. \A w \in Workers : RequestId(req[w]) \in IntRange
  BY RequestIdType DEF TypeOK
<1>b. \A w \in Workers : pc[w] \in Waiting => executed[w] = 0
  BY DEF ControlInv, Controlled
<1>1. ASSUME NEW w \in Workers, ClientSends(w) PROVE OutcomeInv'
  BY <1>1 DEF OutcomeInv, Told, Named, ClientSends
<1>2. ASSUME NEW w \in Workers, ClientChanges(w) PROVE OutcomeInv'
  <2>1. peer'[w] # "open" /\ \A v \in Workers \ {w} : peer'[v] = peer[v]
    BY <1>2 DEF ClientChanges, TypeOK
  <2>2. UNCHANGED <<req, pc, reply, answer, executed>>
    BY <1>2 DEF ClientChanges
  <2>3. Told(w)'
    BY <2>1, <2>2 DEF OutcomeInv, Told, Named
  <2> QED
    BY <2>1, <2>2, <2>3, ToldAlone
<1>3. ASSUME NEW w \in Workers,
             Start(w) \/ ReceiveEnds(w) \/ PollAgain(w) \/ ReceiveTimeout(w) \/ SendHeader(w)
      PROVE  OutcomeInv'
  <2>1. /\ UNCHANGED <<req, peer, reply, answer, executed>>
        /\ pc[w] \in Waiting
        /\ \E l \in Labels \ {"send"} : Goto(w, l) /\ (l \in {"header", "form"} => pc[w] = "header")
    BY <1>3 DEF Start, ReceiveEnds, PollAgain, ReceiveTimeout, SendHeader,
                End, Labels, Waiting, clientVars
  <2>2. pc[w] = "header" => reply'[w].code = "form"
    BY <2>1 DEF OutcomeInv, Told
  <2> QED
    BY <2>1, <2>2, ToldWaiting
<1>4. ASSUME NEW w \in Workers, Receive(w) PROVE OutcomeInv'
  <2>1. pc[w] \in Waiting /\ UNCHANGED <<req, peer, answer, executed>> /\ Dispatch(w)
    BY <1>4 DEF Receive, Waiting, clientVars
  <2>2. CASE Respond(w, "ObjectNotFound", 0)
    BY <1>b, <2>1, <2>2, ZeroFits, ToldResponse DEF Codes, Outcomes, Waiting
  <2>3. CASE UNCHANGED reply /\ \E l \in {"body", "poll"} : Goto(w, l)
    <3>1. PICK l \in {"body", "poll"} : Goto(w, l)
      BY <2>3
    <3>2. l \in Labels \ {"send"} /\ l \notin {"header", "form"}
      BY DEF Labels
    <3> QED
      BY <2>1, <2>3, <3>1, <3>2, ToldWaiting
  <2>4. CASE reply' = [reply EXCEPT ![w] = FormPage] /\ Goto(w, "header")
    <3>1. reply'[w].code = "form" /\ \A v \in Workers \ {w} : reply'[v] = reply[v]
      BY <2>4 DEF TypeOK, FormPage
    <3>2. "header" \in Labels \ {"send"}
      BY DEF Labels
    <3> QED
      BY <2>1, <2>4, <3>1, <3>2, ToldWaiting
  <2> QED
    BY <2>1, <2>2, <2>3, <2>4 DEF Dispatch
<1>5. ASSUME NEW w \in Workers, ReceiveBody(w) PROVE OutcomeInv'
  BY <1>5 DEF OutcomeInv, Told, Named, ReceiveBody, clientVars
<1>6. ASSUME NEW w \in Workers, Process(w) PROVE OutcomeInv'
  <2>1. /\ pc[w] = "body" /\ executed[w] = 0
        /\ UNCHANGED <<req, peer, answer, executed>>
    BY <1>6, <1>b DEF Process, Waiting, clientVars
  <2>2. CASE Verdict(req[w]) # "NoError" /\ Respond(w, Verdict(req[w]), 0)
    <3>1. Verdict(req[w]) \notin Outcomes
      BY <2>2 DEF Verdict, Outcomes
    <3> QED
      BY <2>1, <2>2, <3>1, VerdictType, ZeroFits, ToldResponse
  <2>3. CASE Respond(w, "MethodNotFound", RequestId(req[w]))
    <3>1. "MethodNotFound" \in Codes /\ "MethodNotFound" \notin Outcomes
      BY DEF Codes, Outcomes
    <3> QED
      BY <1>a, <2>1, <2>3, <3>1, ToldResponse
  <2>4. CASE Invoke(w)
    <3>1. "blocked" \in Labels \ {"send"} /\ pc[w] \in Waiting
      BY <2>1 DEF Labels, Waiting
    <3> QED
      BY <2>1, <2>4, <3>1, ToldWaiting DEF Invoke
  <2> QED
    BY <1>6, <2>2, <2>3, <2>4 DEF Process
<1>7. ASSUME Execute PROVE OutcomeInv'
  <2> DEFINE w == Head(queue)
  <2>1. w \in Workers /\ w \in ToSet(queue)
    BY <1>7, Left DEF Execute, TypeOK, BlockedAreQueued
  <2>2. pc[w] = "blocked" /\ executed[w] = 0
    BY <1>b, <2>1 DEF BlockedAreQueued, Waiting
  <2>3. UNCHANGED <<req, peer, answer>>
    BY <1>7 DEF Execute, clientVars
  <2>4. executed'[w] = 1 /\ \A v \in Workers \ {w} : executed'[v] = executed[v]
    BY <1>7, <2>1, <2>2 DEF Execute, TypeOK
  <2>5. PICK code \in Outcomes : Respond(w, code, RequestId(req[w]))
    BY <1>7 DEF Execute, Outcomes
  <2>6. code \in Codes
    BY DEF Codes, Outcomes
  <2> HIDE DEF w
  <2> QED
    BY <1>a, <2>1, <2>2, <2>3, <2>4, <2>5, <2>6, ToldResponse
<1>8. ASSUME NEW w \in Workers, SendResponse(w) PROVE OutcomeInv'
  <2>1. /\ pc'[w] = "end" /\ answer'[w] = reply[w]
        /\ \A v \in Workers \ {w} : pc'[v] = pc[v] /\ answer'[v] = answer[v]
    BY <1>8 DEF SendResponse, End, Goto, TypeOK
  <2>2. UNCHANGED <<req, peer, reply, executed>>
    BY <1>8 DEF SendResponse, clientVars
  <2>3. pc[w] = "form" => reply[w].code \notin Codes /\ executed[w] = 0
    BY <1>b DEF OutcomeInv, Told, Codes, Waiting
  <2>4. pc[w] \in {"send", "form"}
    BY <1>8 DEF SendResponse
  <2>5. Told(w)'
    BY <2>1, <2>2, <2>3, <2>4 DEF OutcomeInv, Told, Named
  <2> QED
    BY <2>1, <2>2, <2>5, ToldAlone
<1>9. ASSUME NEW w \in Workers, SendFails(w) PROVE OutcomeInv'
  <2>1. /\ pc'[w] = "end" /\ UNCHANGED <<req, peer, reply, answer, executed>>
        /\ \A v \in Workers \ {w} : pc'[v] = pc[v]
    BY <1>9 DEF SendFails, End, Goto, TypeOK, clientVars
  <2>2. peer[w] # "open" /\ pc[w] # "end"
    BY <1>9 DEF SendFails, EndsOnTimeout
  <2>3. Told(w)'
    BY <2>1, <2>2 DEF OutcomeInv, Told, Named
  <2> QED
    BY <2>1, <2>3, ToldAlone
<1>10. CASE UNCHANGED vars
  BY <1>10 DEF OutcomeInv, Told, Named, vars
<1> QED
  BY <1>1, <1>2, <1>3, <1>4, <1>5, <1>6, <1>7, <1>8, <1>9, <1>10 DEF Next, WorkerStep

LEMMA OutcomeInit == Init => OutcomeInv
  BY DEF Init, OutcomeInv, Told, Nothing, Codes

(* A client is told what happened: a result or refused parameters when its  *)
(* method has been executed, another error when it has not.  A client that  *)
(* goes on reading is answered an executed call with the digits of its id,  *)
(* or of its low bits, as a string, and if these bits are all zero with     *)
(* "null" or not at all.                                                    *)
THEOREM AnswersAreTrue == Spec => []AnswerTellsOutcome
<1>1. Spec => []OutcomeInv
  BY OutcomeInit, OutcomeNext, TypeCorrect, QueueIsBlocked, ControlAlways, PTL DEF Spec
<1>2. OutcomeInv => AnswerTellsOutcome
  <2> SUFFICES ASSUME OutcomeInv, NEW w \in Workers
               PROVE  LET id == IF req[w].idKind = "number" THEN req[w].id ELSE 0
                          low == IF id \in IntRange THEN id ELSE Narrow(id)
                      IN
                      /\ answer[w].code \in Codes =>
                           (answer[w].code \in Outcomes <=> executed[w] = 1)
                      /\ pc[w] = "end" /\ executed[w] = 1 /\ peer[w] = "open" =>
                           /\ low # 0 =>
                                answer[w].id = [kind |-> "string", text |-> "digits", of |-> low]
                           /\ low = 0 =>
                                \/ answer[w] = Nothing
                                \/ /\ answer[w].code = "InvalidParams"
                                   /\ answer[w].id =
                                        [kind |-> "string", text |-> "null", of |-> 0]
    BY DEF AnswerTellsOutcome, Outcomes
  <2> DEFINE id == IF req[w].idKind = "number" THEN req[w].id ELSE 0
             low == IF id \in IntRange THEN id ELSE Narrow(id)
  <2>1. Told(w)
    BY DEF OutcomeInv
  <2>2. RequestId(req[w]) = low
    <3>1. CASE req[w].idKind = "number"
      BY <3>1, NarrowKeeps DEF RequestId
    <3>2. CASE req[w].idKind # "number"
      BY <3>2, ZeroFits DEF RequestId
    <3> QED
      BY <3>1, <3>2
  <2> HIDE DEF id, low
  <2>3. /\ low # 0 => IdMember(low) = [kind |-> "string", text |-> "digits", of |-> low]
        /\ low = 0 => IdMember(low) = [kind |-> "string", text |-> "null", of |-> 0]
    BY DEF IdMember
  <2>4. pc[w] = "end" /\ executed[w] = 1 /\ peer[w] = "open" =>
          \/ answer[w].id = IdMember(low) /\ (low = 0 => answer[w].code = "InvalidParams")
          \/ answer[w] = Nothing /\ low = 0
    BY <2>1, <2>2 DEF Told, Named
  <2>5. answer[w].code \in Codes => (answer[w].code \in Outcomes <=> executed[w] = 1)
    BY <2>1 DEF Told
  <2>6. pc[w] = "end" /\ executed[w] = 1 /\ peer[w] = "open" =>
          /\ low # 0 => answer[w].id = [kind |-> "string", text |-> "digits", of |-> low]
          /\ low = 0 =>
               \/ answer[w] = Nothing
               \/ /\ answer[w].code = "InvalidParams"
                  /\ answer[w].id = [kind |-> "string", text |-> "null", of |-> 0]
    BY <2>3, <2>4
  <2> QED
    BY <2>5, <2>6 DEF id, low
<1> QED
  BY <1>1, <1>2, PTL
=============================================================================
