------------------------------ MODULE MCOsint ------------------------------
(***************************************************************************)
(* Two fires, the later one f2, and four publications: p1 names the place  *)
(* of f1, spells that of f2, and comes with a geometry near f2 and not far *)
(* from f1; p2 carries no date, has a hashtag of the place of f1, which is *)
(* near f2 too, and says that a fire ended; s1 and s2 are editions of one  *)
(* page, a summary of several fires.  Publications and fires of day 0      *)
(* leave the window.                                                       *)
(***************************************************************************)
EXTENDS Osint

CONSTANTS f1, f2

MCDates == [p1 |-> 0, p2 |-> Nothing, s1 |-> 2, s2 |-> 2]
MCPage == [p1 |-> "p1", p2 |-> "p2", s1 |-> "s", s2 |-> "s"]
MCMentions == [p1 |-> {"a"}, p2 |-> {}, s1 |-> {"a", "b"}, s2 |-> {"a", "b"}]
MCRegions == [p1 |-> {}, p2 |-> {}, s1 |-> {"b"}, s2 |-> {"b"}]
MCHints == [p1 |-> {"a"}, p2 |-> {}, s1 |-> {"a"}, s2 |-> {"a"}]
MCHashtags == [p1 |-> {"t"}, p2 |-> {"t"}, s1 |-> {"t"}, s2 |-> {}]
MCTagPlace == [t |-> "a"]
MCEvents == [p1 |-> <<"none", "news">>, p2 |-> <<"end", "none">>,
             s1 |-> <<"none", "end">>, s2 |-> <<"news", "none">>]
MCRisks == [p1 |-> <<"wildfire", "other">>, p2 |-> <<"other", "wildfire">>,
            s1 |-> <<"other", "other">>, s2 |-> <<"wildfire", "hazard">>]
MCSpelled == [p1 |-> {"a", "b"}, p2 |-> {}, s1 |-> {"a", "b"}, s2 |-> {"a", "b"}]
MCAlike == {<<"p2", "p1">>, <<"p1", "p2">>} \cup {<<p, p>> : p \in Publications}
MCDistance ==
    [e \in Areas \X Fires |->
        CASE e \in {<<"a", f1>>, <<"b", f2>>} -> "inside"
          [] e \in {<<"a", f2>>, <<"p1", f2>>} -> "near"
          [] e = <<"p1", f1>> -> "around"
          [] OTHER -> "far"]
MCProvinces == {<<"p1", f2>>}
MCObserved == (f1 :> 0) @@ (f2 :> 1)
MCCommune == (f1 :> "a") @@ (f2 :> "b")
=============================================================================
