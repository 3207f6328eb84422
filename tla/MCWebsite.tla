------------------------------- MODULE MCWebsite -------------------------------
(***************************************************************************)
(* Small worlds for Website.                                               *)
(***************************************************************************)
EXTENDS Website

CONSTANTS p1, p2, v1, v2

Quiet == [pkgs |-> {p1}, vers |-> {v1}, events |-> {}, maxEvents |-> 0,
          requests |-> {}, maxRequests |-> 0, faults |-> {}, maxFaults |-> 0,
          punctual |-> TRUE]
Events(actions, n) == [Quiet EXCEPT !.events = actions, !.maxEvents = n]
Requests(world0, tools, n) == [world0 EXCEPT !.requests = tools, !.maxRequests = n]
Faults(world0, kinds, n) == [world0 EXCEPT !.faults = kinds, !.maxFaults = n]

PagesWorld == [Faults(Events({"source", "remove"}, 3), {"restart"}, 1)
               EXCEPT !.vers = {v1, v2}]
EventsWorld == Events({"create", "source", "binary", "yank", "unyank"}, 4)
RequestsWorld ==
  Faults(Requests(Events({"source"}, 1), {"piw-rebuild", "piw-import"}, 2), {"restart"}, 1)
AddWorld ==
  Requests(Events({"source", "remove"}, 2), {"piw-add", "piw-rebuild", "piw-import"}, 1)
ToolsWorld == Requests(Quiet, {"piw-add", "piw-remove", "piw-rebuild", "piw-import"}, 3)
LateWorld == [Faults(Events({"source", "remove"}, 2), {"crash"}, 1)
              EXCEPT !.pkgs = {p1, p2}, !.punctual = FALSE]
BuildsWorld == Events({"source", "remove"}, 3)
CrashWorld == Faults(Events({"source", "remove"}, 2), {"crash", "restart"}, 2)

SafetyWorlds == {PagesWorld, EventsWorld, RequestsWorld, AddWorld, ToolsWorld, LateWorld}
LivenessWorlds == {BuildsWorld, CrashWorld}
=============================================================================
