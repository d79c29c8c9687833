--------------------------- MODULE MCHtmlService ---------------------------
(* One client that may send two requests on its connection, and one that    *)
(* sends a single GET, before a single buffer.                              *)
EXTENDS HtmlService

Req(method, uri, connection) == [method |-> method, uri |-> uri, connection |-> connection]

MCConversations ==
  [w \in {"w1", "w2"} |->
     IF w = "w1"
     THEN {<<Req("GET", "a", "keep-alive"), Req("GET", "b", "close")>>,
           <<Req("PUT", "a", "none"), Req("GET", "b", "close")>>,
           <<Req("GET", "a", "none")>>,
           <<Req("GET", "missing", "close")>>,
           <<Req("POST", "a", "keep-alive")>>}
     ELSE {<<Req("GET", "b", "keep-alive")>>}]
=============================================================================
