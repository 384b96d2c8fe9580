---------------------------- MODULE MCTripRevision ----------------------------
(***************************************************************************)
(* Two cities, three hotels, dates in one month.  Every draft and every    *)
(* patch is there for a case of the code: dates given in each combination, *)
(* two items under one key, removals of an item and of a whole type,       *)
(* relative changes without a base or not whole, limits exceeded, and the  *)
(* questions.                                                              *)
(***************************************************************************)
EXTENDS TripRevision

CONSTANTS Hangzhou, Xian, Lhasa

MCHotelsOf == Hangzhou :> {"Lakeside", "Garden"} @@ Xian :> {"Tower"}
MCHardOperators == <<"flight", "price">> :> {"<="} @@ <<"hotel", "price_per_night">> :> {"<="}
MCSubjective == {<<"hotel", "quiet">>}

Item(key, value) == [key |-> key, value |-> value]
Quiet(v) == Item(<<"hotel", "quiet">>, v)
Direct(v) == Item(<<"flight", "direct">>, v)
Cap(domain, v) == Item(IF domain = "flight" THEN <<"flight", "price">>
                                            ELSE <<"hotel", "price_per_night">>,
                       [op |-> "<=", amount |-> v])
Hotel(name, mode) == Item(<<"hotel", name, mode>>, "whole_trip")
Sight(name) == Item(<<"attraction", name, "required">>, "whole_trip")
Text(text, blocking) == [text |-> text, blocking |-> blocking]

\* What is said of the trip, with nothing derived.
Plain == [NoRequest EXCEPT !.destination = Hangzhou, !.start = 10, !.days = 3,
                           !.people = None]
Rich == [Plain EXCEPT
  !.end = 12, !.people = 2, !.rooms = 1, !.budget = 50,
  !.preference_signals = <<Quiet(1), Direct(2), Quiet(3)>>,
  !.spend_preferences = <<Item(<<"hotel">>, 1), Item(<<"transport">>, 2)>>,
  !.hard_constraints = <<Cap("flight", 9), Cap("hotel", 7), Cap("flight", 8)>>,
  !.named_constraints = <<Hotel("Lakeside", "required"), Hotel("Garden", "avoid"),
                          Sight("Lake")>>,
  !.unmapped = {Text("a view", FALSE)}]

MCDrafts == {
  Plain, Rich,
  [Plain EXCEPT !.end = 12, !.days = None, !.people = 2],
  [Plain EXCEPT !.start = None, !.end = 12],
  [Plain EXCEPT !.end = 14],
  [Plain EXCEPT !.end = 8],
  [Plain EXCEPT !.days = None],
  [Plain EXCEPT !.destination = Lhasa],
  [Plain EXCEPT !.rooms = 2],
  [Plain EXCEPT !.unmapped = {Text("a pet", TRUE)}],
  [Plain EXCEPT !.issues = {[type |-> "ambiguous", blocking |-> TRUE]}],
  [Plain EXCEPT !.hard_constraints = <<Item(<<"hotel", "pool">>, [op |-> "==", amount |-> 1])>>],
  [Plain EXCEPT !.hard_constraints = <<Item(<<"hotel", "quiet">>, [op |-> "==", amount |-> 1])>>],
  [Plain EXCEPT !.named_constraints = <<Hotel("Lakeside", "required"),
                                        Hotel("Garden", "required")>>],
  [Plain EXCEPT !.end = 50, !.days = None]}

Found(days) == [Plain EXCEPT !.start = None, !.days = days]
Message == [range |-> <<>>, departure |-> None, return |-> None, single |-> None,
            relative |-> None, found |-> Found(None)]
MCTexts == {
  [Message EXCEPT !.range = <<10, 12>>],
  [Message EXCEPT !.range = <<12, 10>>, !.found = Found(3)],
  [Message EXCEPT !.departure = 10, !.return = 12],
  [Message EXCEPT !.departure = 12, !.return = 10, !.found = Found(2)],
  [Message EXCEPT !.departure = 10, !.found = Found(4)],
  [Message EXCEPT !.return = 12, !.found = Found(3)],
  [Message EXCEPT !.return = 12],
  [Message EXCEPT !.single = 11, !.found = [Found(2) EXCEPT !.people = 3]],
  [Message EXCEPT !.relative = 5, !.found = [Found(2) EXCEPT !.people = 3, !.rooms = 2]]}

Op(kind, field, value) == [kind |-> kind, field |-> field, value |-> value]
Ops(ops) == [NoPatch EXCEPT !.ops = ops]

\* A relative change of whole days.
Longer(days) == Op("increment", "days", days * Parts)

MCRulePatches == {
  NoPatch,
  Ops({Longer(1)}), Ops({Longer(-1)}), Ops({Longer(0)}), Ops({Op("set", "days", 4)}),
  Ops({Op("increment", "budget", 10), Op("set", "days", 2)}),
  Ops({Op("increment", "budget", -60)}),
  [Ops({Op("set", "budget", 30)}) EXCEPT !.upserts.preference_signals = <<Direct(1)>>,
                                         !.upserts.hard_constraints = <<Cap("hotel", 5)>>],
  [NoPatch EXCEPT !.removals.named_constraints = {<<"hotel">>},
                  !.upserts.named_constraints = <<Hotel("Garden", "required")>>],
  [Ops({Longer(1)}) EXCEPT
     !.issues = {[type |-> "ambiguous_flight_quality", blocking |-> TRUE]}]}

MCPatches == MCRulePatches \cup {
  Ops({Op("increment", "people", 1)}), Ops({Op("set", "days", 0)}),
  Ops({Op("increment", "days", 1)}), Ops({Op("increment", "days", -3)}),
  Ops({Op("set", "start", 15), Op("increment", "days", 3)}),
  Ops({Op("set", "days", 4), Longer(1)}),
  Ops({Op("set", "start", 15)}), Ops({Op("set", "end", 15)}), Ops({Op("set", "end", 5)}),
  Ops({Op("set", "start", 15), Op("set", "end", 16)}),
  Ops({Op("set", "days", 5), Op("set", "end", 14)}),
  Ops({Op("set", "days", 5), Op("set", "end", 15)}),
  Ops({Op("set", "start", 12), Longer(1)}),
  Ops({Op("clear", "days", None), Op("set", "end", 15)}),
  Ops({Op("clear", "end", None)}), Ops({Op("clear", "start", None)}),
  Ops({Op("set", "end", 50)}),
  Ops({Op("set", "people", 3)}), Ops({Op("set", "people", 3), Op("set", "rooms", 2)}),
  Ops({Op("clear", "rooms", None)}), Ops({Op("clear", "people", None)}),
  Ops({Op("clear", "budget", None)}), Ops({Op("set", "destination", Xian)}),
  [Ops({Op("set", "destination", Xian)}) EXCEPT !.removals.named_constraints = {<<"hotel">>}],
  [NoPatch EXCEPT !.removals.preference_signals = {<<"hotel", "quiet">>},
                  !.upserts.preference_signals = <<Item(<<"hotel", "clean">>, 2), Direct(3)>>],
  [NoPatch EXCEPT !.removals.spend_preferences = {<<"transport">>},
                  !.upserts.spend_preferences = <<Item(<<"hotel">>, 3), Item(<<"hotel">>, 4)>>],
  [NoPatch EXCEPT !.removals.hard_constraints = {<<"hotel", "price_per_night">>}],
  [NoPatch EXCEPT !.removals.named_constraints = {<<"hotel", "Garden">>}],
  [NoPatch EXCEPT !.removals.named_constraints = {<<"hotel", "Lakeside">>},
                  !.upserts.named_constraints = <<Hotel("Lakeside", "preferred")>>],
  [NoPatch EXCEPT !.unmapped = {Text("a view", FALSE), Text("slow mornings", FALSE)}],
  [NoPatch EXCEPT !.unmapped = {Text("a pet", TRUE)}],
  [Ops({Op("set", "budget", 40)}) EXCEPT !.issues = {[type |-> "remark", blocking |-> FALSE]}]}
=============================================================================
