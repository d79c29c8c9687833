-------------------------- MODULE MCJsonRpcRequest --------------------------
(* Instances of JsonRpcRequest for TLC. *)
EXTENDS JsonRpcRequest, TLC

CONSTANTS w1, w2

Call == [method |-> "POST", match |-> TRUE, found |-> TRUE, length |-> 1, json |-> "object",
         version |-> TRUE, idKind |-> "number", id |-> 1, call |-> "known"]

(* A call, and requests that differ from it in one or two members: at least *)
(* one for each way through the code.  With an int of 3 bits, 5 and 8 do    *)
(* not fit, and the low bits of 8 are zero.                                 *)
AllRequests ==
  {Call} \union
  {[Call EXCEPT !.id = i] : i \in {0, 5, 8, -3}} \union
  {[Call EXCEPT !.idKind = k, !.call = c] : k \in {"null", "other"}, c \in {"known", "unknown"}}
  \union
  {[Call EXCEPT !.call = c] : c \in {"none", "unknown"}} \union
  {[Call EXCEPT !.json = j, !.length = 0] : j \in {"array", "bad"}} \union
  {[Call EXCEPT !.version = FALSE], [Call EXCEPT !.found = FALSE], [Call EXCEPT !.match = FALSE],
   [Call EXCEPT !.method = "GET"], [Call EXCEPT !.method = "PUT"]}

(* One client sends any of them, another one a call with its own id. *)
MCRequests == (w1 :> AllRequests) @@ (w2 :> {[Call EXCEPT !.id = 2]})
=============================================================================
