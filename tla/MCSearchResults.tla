-------------------------- MODULE MCSearchResults --------------------------
(* A page with five names, two of them found in several places, and the     *)
(* page without matches.                                                    *)
EXTENDS SearchResults

Entry(name, places) == [name |-> name, places |-> places]
NamesPage ==
  [i \in 0 .. 4 |->
     CASE i = 0 -> Entry(<<"a">>, 2)
       [] i = 1 -> Entry(<<"a", "b">>, 1)
       [] i = 2 -> Entry(<<"a", "b", "c">>, 3)
       [] i = 3 -> Entry(<<"a", "b", "d">>, 1)
       [] i = 4 -> Entry(<<"a", "c">>, 2)]
NoMatchesPage == [i \in {} |-> Entry(<<>>, 1)]

MCPages == {NamesPage, NoMatchesPage}
MCTerms == {<<"a">>, <<"a", "b">>, <<"a", "c">>, <<"a", "x">>}
=============================================================================
