-------------------------- MODULE MCCarrierRecovery --------------------------
(***************************************************************************)
(* Small instances of CarrierRecovery on a compass of four points, where a *)
(* heading is "on course" only when it is the commanded one (tolerance 0). *)
(***************************************************************************)
EXTENDS CarrierRecovery

CONSTANTS Ship, OtherShip

OneShip == {Ship}
TwoShips == {Ship, OtherShip}

Far == 100     \* more water than any recovery needs
Near == 2      \* enough for the reserve at the low speed only

Picture(afloat, enabled, heading, course, speed, water) ==
  [afloat |-> afloat, enabled |-> enabled, heading |-> heading,
   plan |-> [heading |-> course, speed |-> speed],
   clear |-> [h \in Headings |-> water[h]]]

OpenSea == [h \in Headings |-> Far]
LandEast == [h \in Headings |-> IF h = 1 THEN Near ELSE Far]
LandAround == [h \in Headings |-> 0]

\* Wind from two sides and of two strengths, the ship turned or not, land
\* ahead on one course or on all, the ship sunk, recoveries switched off.
WorldOfOneShip ==
  {Picture(TRUE, TRUE, h, c, 1, OpenSea) : h \in {0, 1}, c \in {0, 1}}
  \cup {Picture(TRUE, TRUE, 1, 1, 2, LandEast),
        Picture(TRUE, TRUE, 1, 1, 1, LandAround),
        Picture(TRUE, FALSE, 0, 1, 1, OpenSea),
        Picture(FALSE, TRUE, 0, 0, 1, LandAround)}

\* Two ships with little weather: what is shared is the generation counter.
WorldOfTwoShips ==
  {Picture(TRUE, TRUE, 1, 1, 1, OpenSea),
   Picture(TRUE, TRUE, 1, 1, 1, LandAround)}

\* The wind drops after the ship has been ordered on its course: the same
\* course is then steamed faster.
WorldOfChangingWind ==
  {Picture(TRUE, TRUE, 1, 1, 1, OpenSea),
   Picture(TRUE, TRUE, 1, 1, 2, OpenSea),
   Picture(TRUE, TRUE, 1, 1, 2, LandEast)}
=============================================================================
