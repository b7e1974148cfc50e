--------------------------- MODULE MCRouteGuide ---------------------------
(* Values of the constants of RouteGuide for TLC. *)
EXTENDS RouteGuide

P(y, x) == [lat |-> y, lon |-> x]
MCPoints == {P(y, x) : y \in 0..2, x \in 0..1}
MCFeatures == << [name |-> "mill", location |-> P(0, 1)],
                 [name |-> "", location |-> P(2, 1)],
                 [name |-> "inn", location |-> P(0, 1)] >>
MCQueries == <<P(0, 1), P(0, 0)>>
\* corners given crosswise
MCRectangles == {[lo |-> P(0, 1), hi |-> P(1, 0)]}
MCRoutes == {<<P(0, 1), P(2, 1), P(0, 0)>>}
MCScript == <<P(0, 1), P(0, 0), P(0, 1)>>
MCDistance == [p \in MCPoints, q \in MCPoints |->
                  10 * (IF p.lat = q.lat THEN 0 ELSE 1) + (IF p.lon = q.lon THEN 0 ELSE 1)]
=============================================================================
