---------------------------- MODULE MCEvidenceLoop ----------------------------
(***************************************************************************)
(* An instance of EvidenceLoop for TLC: two cities, one of them with       *)
(* hardly any documents. The numbers of chunks looked for are about a      *)
(* third of the defaults, as are the numbers of chunks in the corpus (two  *)
(* for every risk where the repository has six).                           *)
(***************************************************************************)
EXTENDS EvidenceLoop

Doc(category, city, legible, keyword, semantic, cross) ==
  [category |-> category, legible |-> legible,
   meta |-> [doc |-> {category}, city |-> {city}, hotel |-> {}, risk |-> {}, level |-> {},
             scenario |-> {}],
   scores |-> [plain |-> [keyword |-> keyword, semantic |-> semantic, cross |-> cross],
               taste |-> [keyword |-> 5 - keyword, semantic |-> 9 - semantic, cross |-> 9 - cross]]]

Guide(city, legible, keyword, semantic) ==
  Doc("guides", city, legible, keyword, semantic, semantic)
Notice(city, risk, level, keyword, semantic, cross) ==
  [Doc("safety_notices", city, TRUE, keyword, semantic, cross) EXCEPT
     !.meta.risk = {risk}, !.meta.level = {level}]
Review(city, hotel) == [Doc("hotel_reviews", city, TRUE, 1, 1, 1) EXCEPT !.meta.hotel = {hotel}]
Packing(scenario) == [Doc("packing_checklists", "", TRUE, 1, 1, 1) EXCEPT
                        !.meta.city = {}, !.meta.scenario = {scenario}]

\* The fourth guide is too short to be used; the notices about rain are liked best.
SmallCorpus ==
  <<Guide("hgh", TRUE, 3, 5), Guide("hgh", TRUE, 1, 4), Guide("hgh", TRUE, 0, 2),
    Guide("hgh", FALSE, 4, 3), Guide("pek", TRUE, 4, 6),
    Notice("hgh", "rain", "high", 4, 6, 7), Notice("hgh", "rain", "medium", 3, 5, 6),
    Notice("hgh", "wind", "medium", 2, 4, 5), Notice("hgh", "wind", "medium", 0, 2, 4),
    Notice("hgh", "heat", "high", 1, 3, 3), Notice("hgh", "heat", "medium", 2, 1, 2),
    Notice("hgh", "heat", "low", 4, 7, 8), Notice("pek", "wind", "high", 4, 7, 8),
    Review("hgh", "h1"), Review("hgh", "h2"), Packing("general"), Packing("rainy_city_trip")>>

Trip(city, risks, hotel) == [city |-> city, risks |-> risks, hotel |-> hotel]
SomeTrips ==
  {Trip("hgh", {}, {"h1"}), Trip("hgh", {"rain", "wind"}, {"h1"}),
   Trip("hgh", {"rain", "wind", "heat"}, {}), Trip("pek", {"wind"}, {})}

Setting(agentic, rerank, fallback, faults) ==
  [agentic |-> agentic, judge |-> agentic, rerank |-> rerank, fallback |-> fallback,
   faults |-> faults]
SomeSettings ==
  {Setting(FALSE, FALSE, TRUE, FALSE), Setting(FALSE, FALSE, TRUE, TRUE),
   Setting(FALSE, TRUE, TRUE, TRUE), Setting(FALSE, TRUE, FALSE, TRUE),
   Setting(TRUE, FALSE, TRUE, TRUE), Setting(TRUE, TRUE, TRUE, TRUE)}

Need(name, category) == [id |-> <<"model", name>>, category |-> category]
Intent(category, names, wording) ==
  [category |-> category, covers |-> [i \in DOMAIN names |-> <<"model", names[i]>>],
   wording |-> wording]

\* A complete answer; one that is silent about safety and asks for more than there is room
\* for; one whose tasks cover nothing that is needed.
SomeDecisions ==
  {[needs |-> <<Need("food", "guides"), Need("weather", "safety_notices")>>,
    intents |-> <<Intent("guides", <<"food">>, "taste"),
                  Intent("safety_notices", <<"weather">>, "plain")>>],
   [needs |-> <<Need("food", "guides"), Need("bags", "packing_checklists")>>,
    intents |-> <<Intent("packing_checklists", <<"bags">>, "plain"),
                  Intent("guides", <<"food">>, "taste"), Intent("guides", <<"food">>, "plain"),
                  Intent("hotel_reviews", <<"food">>, "plain"),
                  Intent("hotel_reviews", <<"food">>, "taste")>>],
   [needs |-> <<>>, intents |-> <<Intent("guides", <<"food">>, "plain")>>]}

Opinion(status, cites, gaps) == [status |-> status, cites |-> cites, gaps |-> gaps]
SomeOpinions ==
  {Opinion("supported", "all", {}), Opinion("supported", "invented", {}),
   Opinion("partial", "all", {"trip_duration_not_explicit"}),
   Opinion("partial", "one", {"trip_duration_not_explicit"}),
   Opinion("partial", "all", {"activity_preference_not_supported"})}

FirstTopK == [guides |-> 3, hotel_reviews |-> 2, safety_notices |-> 2, packing_checklists |-> 2]
SecondTopK == [guides |-> 4, hotel_reviews |-> 3, safety_notices |-> 3, packing_checklists |-> 3]
TaskRoom == [initial |-> 3, repair |-> 2]

\* What the theorem about NothingNeededIsHidden asks of a corpus and of the numbers holds here.
ASSUME InstanceSuffices ==
  MaxRepairs >= 1 /\ MaxJudged >= 2 /\ \A t \in SomeTrips : ChunksSuffice(t)
=============================================================================
