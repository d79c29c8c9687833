-------------------------- MODULE PagePublication --------------------------
(***************************************************************************)
(* What a DatabaseObj promises to the HTML server about its page: the      *)
(* page that is published shows, for every property, some state the        *)
(* property really had, and never goes back to an older one.  How the page *)
(* is produced (two files, a refresh thread, permits) is left to           *)
(* PagePingPong, which is shown to implement this module.                  *)
(*                                                                         *)
(* The state of a property is a version number: every change of it         *)
(* (addition, deletion, new attribute) counts one up.                      *)
(***************************************************************************)
EXTENDS Naturals

CONSTANT Props       \* names of the dynamic properties

VARIABLES ver,       \* ver[q]: current version of property q
          published  \* published[q]: version of q the published page shows

vars == <<ver, published>>

Init ==
  /\ ver = [q \in Props |-> 0]
  /\ published = [q \in Props |-> 0]

(* A method call changes one property. *)
Change(q) ==
  /\ ver' = [ver EXCEPT ![q] = @ + 1]
  /\ UNCHANGED published

(* A new page replaces the published one.  Its properties were read one   *)
(* after the other, so that it need not show a state that all of them had *)
(* at the same time; but none of them is older than before or invented.   *)
Publish ==
  /\ published' \in [Props -> Nat]
  /\ \A q \in Props : published[q] <= published'[q] /\ published'[q] <= ver[q]
  /\ UNCHANGED ver

Next == Publish \/ \E q \in Props : Change(q)

Spec == Init /\ [][Next]_vars
=============================================================================
