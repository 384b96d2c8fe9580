------------------------- MODULE MCProposalContract -------------------------
(***************************************************************************)
(* Instances of ProposalContract for TLC: a good draft for every input, and*)
(* everything that can be made of it with one change, with two on one day, *)
(* or with one in the plan and one beside it.                              *)
(***************************************************************************)
EXTENDS ProposalContract, TLC

Evidence(chunk, category, hotel, quality) ==
  [chunk |-> chunk, category |-> category, hotel |-> hotel, quality |-> quality]

FullPool == {Evidence(11, "guides", "", 5), Evidence(12, "guides", "", 5),
             Evidence(13, "guides", "", 4), Evidence(21, "safety_notices", "", 2),
             Evidence(31, "hotel_reviews", "h1", 1), Evidence(32, "hotel_reviews", "h2", 6),
             Evidence(41, "packing_checklists", "", 1)}

Selection ==
  [outbound |-> [id |-> "f1", price |-> 300], return |-> [id |-> "f2", price |-> 200],
   hotel |-> [id |-> "h1", price |-> 400],
   combination |-> [outbound |-> "f1", return |-> "f2", hotel |-> "h1"],
   budget |-> [mode |-> "budget_limited", total |-> 1000,
               costs |-> [outbound |-> 300, return |-> 200, transport |-> 500,
                          hotel |-> 400, subtotal |-> 900],
               remaining |-> 100, food |-> 80, buffer |-> 20]]

Rainy ==
  [days |-> 2, daily |-> (1 :> {"rain"} @@ 2 :> {}),
   risks |-> {[type |-> "wind", date |-> 2], [type |-> "cold", date |-> Undated]},
   selection |-> Selection, pool |-> FullPool, version |-> ProposalVersion(0),
   ranked |-> [outbound |-> {"f1"}, return |-> {"f2", "f3"}, hotel |-> {"h1", "h2"}],
   wishes |-> <<[kind |-> "named", text |-> "pandas"], [kind |-> "unmapped", text |-> ""],
                [kind |-> "unmapped", text |-> "quiet"]>>,
   activities |-> ("opera" :> [name |-> "Opera", dates |-> {2}])]

\* A revised trip with a day without a forecast, one kind of evidence and no wishes.
Plain ==
  [Rainy EXCEPT !.daily = 1 :> {}, !.risks = {[type |-> "rain", date |-> 2]}, !.wishes = <<>>,
                !.pool = {Evidence(11, "guides", "", 5), Evidence(32, "hotel_reviews", "h2", 6)},
                !.version = ProposalVersion(1)]

\* No tools.
Toolless == [Rainy EXCEPT !.activities = <<>>, !.daily = (1 :> {} @@ 2 :> {}),
                          !.risks = {}, !.wishes = <<[kind |-> "named", text |-> "pandas"]>>]

AllInputs == {Rainy, Plain, Toolless}

Act(type, place, title, generic, refs, tool) ==
  [type |-> type, place |-> place, title |-> title, generic |-> generic, refs |-> refs,
   tool |-> tool, claims |-> {}]

G(i) == <<"guides", i>>
Booked == <<"real_booking_claim", 1>>
Visit == Act("culture", "indoor", "Museum", FALSE, {G(1)}, None)
OtherActivities ==
  {[Visit EXCEPT !.place = "outdoor"], [Visit EXCEPT !.refs = {}], [Visit EXCEPT !.refs = {G(9)}],
   [Visit EXCEPT !.claims = {Booked}], [Visit EXCEPT !.refs = {<<"packing_checklists", 1>>}],
   Act("culture", "indoor", "Opera", FALSE, {G(1)}, "opera"),
   Act("culture", "indoor", "Opera", FALSE, {}, "opera"),
   Act("culture", "indoor", "Concert", FALSE, {G(1)}, "opera"),
   Act("culture", "indoor", "Circus", FALSE, {G(1)}, "circus"),
   Act("free_time", "indoor", "Opera", FALSE, {}, "opera"),
   Act("free_time", "indoor", "Concert", FALSE, {}, "opera"),
   Act("free_time", "indoor", "Circus", FALSE, {}, "circus"),
   Act("food", "outdoor", "Supper", TRUE, {}, None),
   Act("check_in", "transfer", "Transfer", FALSE, {}, None)}

Day(date, activities, adjusted) == [date |-> date, activities |-> activities, adjusted |-> adjusted]
NoteOf(category) == <<{<<category, 1>>}>>
NoteIf(in, category) == IF \A e \in PromptItems(in) : e.category # category THEN <<>> ELSE NoteOf(category)
Answer(key, refs) == [key |-> key, refs |-> refs]
RECURSIVE AnswersTo(_)
AnswersTo(keys) ==
  IF keys = {} THEN <<>>
  ELSE LET k == CHOOSE k \in keys : TRUE IN <<Answer(k, {})>> \o AnswersTo(keys \ {k})

Good(in) ==
  [days |-> [i \in 1 .. in.days |-> Day(i, {Visit}, TRUE)],
   hotel |-> NoteIf(in, "hotel_reviews"), packing |-> NoteIf(in, "packing_checklists"),
   safety |-> NoteIf(in, "safety_notices"), handled |-> AnswersTo(Catalog(in)),
   claims |-> {}]

InPlan(d) ==
  {[d EXCEPT !.days[i].activities = {a}] : i \in DOMAIN d.days, a \in OtherActivities}
  \cup {[d EXCEPT !.days[i].activities = @ \cup {a}] : i \in DOMAIN d.days, a \in OtherActivities}
  \cup {[d EXCEPT !.days[i].adjusted = FALSE] : i \in DOMAIN d.days}
  \cup {[d EXCEPT !.days[1].activities = {}], [d EXCEPT !.days[2].date = 1],
        [d EXCEPT !.days = <<@[2], @[1]>>], [d EXCEPT !.days = <<@[1]>>],
        [d EXCEPT !.days = Append(@, Day(3, {Visit}, TRUE))]}

Notes == {<<>>, <<{}>>, <<{G(1)}>>, NoteOf("hotel_reviews"), NoteOf("packing_checklists"),
          NoteOf("safety_notices"), <<{}, {<<"safety_notices", 1>>}>>}

Beside(d) ==
  {[d EXCEPT !.hotel = n] : n \in {n \in Notes : Len(n) < 2}}
  \cup {[d EXCEPT !.packing = n] : n \in Notes}
  \cup {[d EXCEPT !.safety = n] : n \in Notes}
  \cup {[d EXCEPT !.claims = {<<"real_payment_claim", 1>>}],
        [d EXCEPT !.claims = {<<"real_payment_claim", 1>>, <<"real_payment_claim", 2>>}]}
  \cup {[d EXCEPT !.handled = Append(@, Answer(k, {}))] :
          k \in {<<"named", "pandas", 1>>, <<"named", "tigers", 2>>}}
  \cup {[d EXCEPT !.handled = SelectSeq(@, LAMBDA h : h.key[1] = "named")],
        [d EXCEPT !.handled = [i \in DOMAIN @ |-> [@[i] EXCEPT !.refs = {G(1)}]]],
        [d EXCEPT !.handled = [i \in DOMAIN @ |-> [@[i] EXCEPT !.refs = {G(9)}]]]}

Changed(d) ==
  {d} \cup InPlan(d) \cup Beside(d)
    \cup {[d EXCEPT !.days[2].activities = {a, b}] : a, b \in OtherActivities}
    \cup UNION {Beside([d EXCEPT !.days[2].activities = {a}]) : a \in OtherActivities}

RainyDrafts == Changed(Good(Rainy))
PlainDrafts == Changed(Good(Plain))
ToollessDrafts == Changed(Good(Toolless))
AllDrafts(in) ==
  CASE in = Rainy -> RainyDrafts [] in = Plain -> PlainDrafts [] in = Toolless -> ToollessDrafts
=============================================================================
