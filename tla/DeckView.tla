------------------------------- MODULE DeckView -------------------------------
(***************************************************************************)
(* The deck views of the Airboss panels (web-dashboard/src/app/airboss/:   *)
(* deckRenderer.ts, deckTracking.ts, deckRoutes.ts, deckSpots.ts,          *)
(* deckProfiles.ts and the click handler of CarrierPanel.tsx). Every panel *)
(* looks for its ship and its aircraft in one radar snapshot, and lights   *)
(* the launch routes of what is clicked. A route is named by its deck, the *)
(* spot it starts from and the spot it leads to; places are abstracted to  *)
(* who is near whom. The images of the decks are loaded.                   *)
(***************************************************************************)
EXTENDS Naturals, FiniteSets, FiniteSetsExt

CONSTANTS
  Panels,         \* the groups of the carriers
  Ids,            \* unit ids, which DCS gives out again in another mission
  Hulls,          \* the hulls a report may name
  MaxFrames,      \* bound: changes of the contacts, and reports
  MaxDeckClicks   \* bound: clicks on a deck

ASSUME DeckBoundsAssumption == Ids \subseteq Nat /\ MaxFrames \in Nat /\ MaxDeckClicks \in Nat

VARIABLES
  contacts,  \* the radar snapshot: what each unit id stands for
  deck,      \* per panel: the hull and the place last reported, the unit it is
             \* locked on, and what is selected
  tally      \* frames and clicks so far

deckVars == <<contacts, deck, tally>>

-----------------------------------------------------------------------------
(* The decks                                                               *)

\* Where each launch route starts, and where it leads to.
NimitzRoutes ==
  {<<17, 23>>, <<18, 24>>, <<19, 25>>, <<20, 26>>, <<11, 23>>, <<10, 24>>, <<21, 25>>, <<22, 26>>,
   <<5, 23>>, <<4, 24>>, <<16, 23>>, <<15, 24>>, <<12, 24>>, <<3, 23>>, <<2, 25>>, <<1, 26>>}
TarawaRoutes == {<<8, 17>>, <<7, 18>>, <<6, 19>>, <<5, 20>>}
ForrestalRoutes ==
  {<<9, 14>>, <<10, 13>>, <<11, 15>>, <<12, 16>>, <<8, 13>>, <<7, 14>>,
   <<6, 15>>, <<5, 16>>, <<4, 15>>, <<3, 16>>, <<2, 15>>, <<1, 16>>}
KuznetsovRoutes ==
  {<<9, 10>>, <<8, 11>>, <<7, 10>>, <<6, 11>>, <<5, 10>>} \cup ((1..4) \X {12})
EssexRoutes == (18..34) \X {35}
InvincibleRoutes == (2..5) \X {7}
AraVdmRoutes == ({1, 2} \cup 6..11) \X {12}

RoutesOf ==
  [nimitz |-> NimitzRoutes, tarawa |-> TarawaRoutes, forrestal |-> ForrestalRoutes,
   kuznetsov |-> KuznetsovRoutes, essex |-> EssexRoutes, invincible |-> InvincibleRoutes,
   ara_vdm |-> AraVdmRoutes, generic |-> {}]
AllHulls == DOMAIN RoutesOf
ASSUME HullsAssumption == Hulls \subseteq AllHulls

Route(hull, r) == [hull |-> hull, start |-> r[1], launch |-> r[2]]
Routes(hull) == {Route(hull, r) : r \in RoutesOf[hull]}

\* Per deck: the last parking spot, the launch positions, and how many
\* helicopter terminals there are (which have a numbering of their own).
NimitzSpots == [parking |-> 1..22, launch |-> 23..26, helicopters |-> 8]
TarawaSpots == [parking |-> 1..8, launch |-> 17..20, helicopters |-> 8]
ForrestalSpots == [parking |-> 1..12, launch |-> 13..16, helicopters |-> 16]
KuznetsovSpots == [parking |-> 1..9, launch |-> 10..12, helicopters |-> 8]
EssexSpots == [parking |-> 1..34, launch |-> {35}, helicopters |-> 1]
InvincibleSpots == [parking |-> 1..6, launch |-> {7}, helicopters |-> 7]
AraVdmSpots == [parking |-> 1..11, launch |-> {12}, helicopters |-> 6]
GenericSpots == [parking |-> {}, launch |-> {}, helicopters |-> 0]

SpotsOf ==
  [nimitz |-> NimitzSpots, tarawa |-> TarawaSpots, forrestal |-> ForrestalSpots,
   kuznetsov |-> KuznetsovSpots, essex |-> EssexSpots, invincible |-> InvincibleSpots,
   ara_vdm |-> AraVdmSpots, generic |-> GenericSpots]
Spot(kind, term) == [kind |-> kind, term |-> term]
Spots(hull) ==
  LET s == SpotsOf[hull]
  IN {Spot("parking", t) : t \in s.parking} \cup {Spot("launch", t) : t \in s.launch}
     \cup {Spot("helicopter", t) : t \in 1..s.helicopters}

\* routeByStart keeps one route per start: no deck has two.
ASSUME OneRoutePerStart ==
  \A hull \in AllHulls : \A r, s \in RoutesOf[hull] : r[1] = s[1] => r = s

From(hull, spot) ==
  {r \in Routes(hull) : spot.kind # "helicopter" /\ r.start = spot.term}
To(hull, spot) ==
  {r \in Routes(hull) : spot.kind # "helicopter" /\ r.launch = spot.term}

-----------------------------------------------------------------------------
(* Whose deck it is                                                        *)

Absent == [is |-> "absent"]
\* Every unit bears the panels' names that its own name and its group's are.
ShipUnit(names, area) == [is |-> "ship", names |-> names, area |-> area]
\* One whose frame says no category of its group.
UnsortedUnit(names) == [is |-> "unsorted", names |-> names]
\* An aircraft: the ship it is nearest to, and the decks it may be on.
AircraftUnit(kind, names, near, on) ==
  [is |-> kind, names |-> names, near |-> near, on |-> on]
Kinds == {"airplane", "helicopter"}
NoShip == 0

ShipsIn(units) == {u \in DOMAIN units : units[u].is = "ship"}
Lowest(units) == IF units = {} THEN NoShip ELSE Min(units)

\* What bears the panel's name: never a unit of another category.
Named(units, p) ==
  {u \in DOMAIN units : units[u].is \in {"ship", "unsorted"} /\ p \in units[u].names}
Locked(units, d) == {u \in ShipsIn(units) : u = d.lock}
\* Within 2 km of the place last reported; which of them is nearest is open.
Reported(units, d) == {u \in ShipsIn(units) : units[u].area = d.place}

\* Fault: a lock is kept as long as its id is a ship's.
LockedFirst(units, p, d) ==
  IF Locked(units, d) # {} THEN d.lock
  ELSE IF Named(units, p) # {} THEN Lowest(Named(units, p)) ELSE Lowest(Reported(units, d))
\* findDeckShip: by the name (the first unit), by the lock, and by the place.
FindDeckShip(units, p, d) ==
  IF Named(units, p) # {} THEN Lowest(Named(units, p))
  ELSE IF Locked(units, d) # {} THEN d.lock ELSE Lowest(Reported(units, d))

ShipOf(p) == FindDeckShip(contacts, p, deck[p])
IsDrawn(p) == ShipOf(p) # NoShip \/ deck[p].place # "none"

\* nearestShipId: of all ships, another one when that is gone.
NearestShip(units, u) ==
  IF units[u].near \in ShipsIn(units) THEN units[u].near ELSE Lowest(ShipsIn(units))
OnDeck(p) ==
  {u \in DOMAIN contacts : /\ contacts[u].is \in Kinds /\ ShipOf(p) # NoShip
                        /\ NearestShip(contacts, u) = ShipOf(p) /\ ShipOf(p) \in contacts[u].on}

-----------------------------------------------------------------------------
(* What can be clicked                                                     *)

Unselected == [id |-> <<"nothing">>, routes |-> {}]

SelectionId(hull, spot) ==
  IF spot.kind = "launch" THEN <<"launch", spot>>
  ELSE IF From(hull, spot) # {} THEN <<"route", CHOOSE r \in From(hull, spot) : TRUE>>
  ELSE <<"spot", spot>>
SpotTarget(hull, spot) ==
  [id |-> SelectionId(hull, spot),
   routes |-> IF spot.kind = "launch" THEN To(hull, spot) ELSE From(hull, spot)]

\* Helicopters go with helicopter terminals, and airplanes with the others.
Supporting(hull, kind) == {s \in Spots(hull) : (s.kind = "helicopter") = (kind = "helicopter")}

\* An aircraft has the route of the spot it is closest to, or else one it is
\* within 12 m of; parked on a spot without either it stands for the spot.
AircraftTarget(hull, closest, passing, parked) ==
  LET routes == IF closest # {} /\ UNION {From(hull, s) : s \in closest} # {}
                THEN UNION {From(hull, s) : s \in closest} ELSE passing
  IN [id |-> IF routes # {} THEN <<"route", CHOOSE r \in routes : TRUE>>
             ELSE IF parked /\ closest # {} THEN <<"spot", CHOOSE s \in closest : TRUE>>
             ELSE Unselected.id,
      routes |-> routes]
\* Its position changes with every frame: any.
AircraftTargets(hull, kind) ==
  LET spots == Supporting(hull, kind)
      closest == IF spots = {} THEN {{}} ELSE {{s} : s \in spots}
      passing == {{}} \cup {{r} : r \in Routes(hull)}
  IN {AircraftTarget(hull, c, r, parked) : c \in closest, r \in passing, parked \in BOOLEAN}

HitTargets(p) ==
  IF ~IsDrawn(p) THEN {}
  ELSE {SpotTarget(deck[p].hull, s) : s \in Spots(deck[p].hull)}
       \cup UNION {AircraftTargets(deck[p].hull, contacts[u].is) : u \in OnDeck(p)}

\* What the deck shows of the selection: the routes of this hull, with the
\* spots at their ends and the spot that was clicked.
Lit(p) == {r \in deck[p].selected.routes : r.hull = deck[p].hull}
Halos(p) ==
  {s \in Spots(deck[p].hull) :
     \/ SelectionId(deck[p].hull, s) = deck[p].selected.id
     \/ (From(deck[p].hull, s) \cup To(deck[p].hull, s)) \cap Lit(p) # {}}

-----------------------------------------------------------------------------
(* The page                                                                *)

DeckInit ==
  /\ contacts = [u \in Ids |-> Absent]
  /\ deck = [p \in Panels |->
       [hull |-> "generic", place |-> "none", lock |-> NoShip, selected |-> Unselected]]
  /\ tally = [frames |-> 0, clicks |-> 0]

\* The decks are drawn after a change, and lock the ships they have found.
Relocked(units, decks) ==
  [p \in Panels |->
    LET s == FindDeckShip(units, p, decks[p])
    IN IF s = NoShip THEN decks[p] ELSE [decks[p] EXCEPT !.lock = s]]

Areas == {"north", "south"}
\* A unit has two names, its own and its group's. An unsorted one without a name
\* of the panels' is like none. The names of aircraft are not looked at: here,
\* helicopters bear all of the panels', and airplanes none.
NameSets == {{p, q} : p, q \in Panels}
AircraftNames(kind) == IF kind = "helicopter" THEN Panels ELSE {}
Readings(u) ==
  {Absent} \cup {ShipUnit(names, a) : names \in NameSets \cup {{}}, a \in Areas}
  \cup {UnsortedUnit(names) : names \in NameSets}
  \cup UNION {{AircraftUnit(k, AircraftNames(k), n, on) : k \in Kinds, n \in on} :
               on \in SUBSET (Ids \ {u})}

\* A batch changes what an id stands for.
UnitFrame(u, unit) ==
  /\ tally.frames < MaxFrames /\ tally' = [tally EXCEPT !.frames = @ + 1]
  /\ contacts[u] # unit
  /\ contacts' = [contacts EXCEPT ![u] = unit]
  /\ deck' = Relocked(contacts', deck)

\* A report of the controller: the type of the ship, and where it is.
Report(p, hull, area) ==
  /\ tally.frames < MaxFrames /\ tally' = [tally EXCEPT !.frames = @ + 1]
  /\ deck' = Relocked(contacts, [deck EXCEPT ![p].hull = hull, ![p].place = area])
  /\ UNCHANGED contacts

\* handleDeckClick: what is selected already is deselected.
Clicked(selected, target) ==
  IF target.id \in {Unselected.id, selected.id} THEN Unselected ELSE target
ClickDeck(p, target) ==
  /\ tally.clicks < MaxDeckClicks /\ tally' = [tally EXCEPT !.clicks = @ + 1]
  /\ deck' = [deck EXCEPT ![p].selected = Clicked(@, target)]
  /\ UNCHANGED contacts

DeckNext ==
  \/ \E u \in Ids : \E unit \in Readings(u) : UnitFrame(u, unit)
  \/ \E p \in Panels, hull \in Hulls, area \in Areas : Report(p, hull, area)
  \/ \E p \in Panels : \E target \in HitTargets(p) \cup {Unselected} : ClickDeck(p, target)

DeckSpec == DeckInit /\ [][DeckNext]_deckVars

-----------------------------------------------------------------------------
(* Properties                                                              *)

DeckTypeOK ==
  /\ \A u \in Ids : contacts[u] \in Readings(u)
  /\ \A p \in Panels : /\ deck[p].hull \in AllHulls
                       /\ deck[p].place \in Areas \cup {"none"}
                       /\ deck[p].lock \in Ids \cup {NoShip}

\* A deck is of the name's: as long as the stream has a ship, or a unit of no
\* category, that bears the panel's name, one that does is drawn, whatever the
\* panel was locked on in an earlier mission and whichever ship is closer
\* ("Prefer exact ship unit or group names", docs/src/airboss_deck_tracking.md).
NamesakeIsDrawn ==
  \A p \in Panels :
    (\E u \in Ids : contacts[u].is \in {"ship", "unsorted"} /\ p \in contacts[u].names)
      => ShipOf(p) \in Ids /\ p \in contacts[ShipOf(p)].names

\* "A nearby aircraft cannot be selected as the tracked carrier"
\* (docs/src/airboss_deck_tracking.md:41): nor one that bears the ship's name,
\* nor one that has the id the panel was locked on.
NoAircraftIsTracked ==
  \A p \in Panels : ShipOf(p) # NoShip => contacts[ShipOf(p)].is \in {"ship", "unsorted"}

\* "One aircraft cannot appear in both Carrier and Tarawa deck views."
\* (docs/src/airboss_deck_tracking.md:42), if the stream has a unit of either
\* panel's name and none that bears both, one by its group and one by its own.
OneDeckPerAircraft ==
  \A p, q \in Panels :
    /\ p # q
    /\ Named(contacts, p) # {} /\ Named(contacts, q) # {}
    /\ Named(contacts, p) \cap Named(contacts, q) = {}
    => OnDeck(p) \cap OnDeck(q) = {}

\* Every route that is lit has both its ends marked, and a launch position that
\* was clicked lights all the routes that lead to it, on whichever deck the
\* selection was made (drawDeckView, handleDeckClick).
LitRoutesAreMarked ==
  \A p \in Panels :
    /\ \A r \in Lit(p) : {Spot("parking", r.start), Spot("launch", r.launch)} \subseteq Halos(p)
    /\ \A s \in Spots(deck[p].hull) :
         deck[p].selected.id = <<"launch", s>> /\ Lit(p) # {} => Lit(p) = To(deck[p].hull, s)

\* The four together.
DecksAreRight ==
  NamesakeIsDrawn /\ NoAircraftIsTracked /\ OneDeckPerAircraft /\ LitRoutesAreMarked
===============================================================================
