--------------------------- MODULE MCNotifications ---------------------------
(* Two destinations, one route, and the bindings of a destination: none, its *)
(* own bot beside one for the channel, or one bot for everything.            *)
EXTENDS Notifications

CONSTANTS d1, d2, b1, b2, c1, r1

MCRoutes == {[id |-> r1, channel |-> c1, dest |-> d1]}
Binding(id, scope, of) == [bot |-> id, scope |-> scope, of |-> of]
MCConfigs == {<<>>,
              <<Binding(b2, "channel", c1), Binding(b1, "destination", d1)>>,
              <<Binding(b1, "global", d1)>>}

(* None of them reaches one bot twice with the same event, as ToldOnceHolds  *)
(* asks.                                                                     *)
ASSUME MCBoundOnce == BoundOnce
=============================================================================
