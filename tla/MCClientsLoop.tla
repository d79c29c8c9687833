--------------------------- MODULE MCClientsLoop ---------------------------
(* Instances of ClientsLoop for TLC. *)
EXTENDS ClientsLoop

(* The safety properties are about states in which no append and erase have *)
(* overlapped; nothing is to be seen behind the first state in which they   *)
(* have.                                                                    *)
UntilRaced == ~raced
=============================================================================
