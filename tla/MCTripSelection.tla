--------------------------- MODULE MCTripSelection ---------------------------
(***************************************************************************)
(* Instances of TripSelection for TLC: three or four offers of a kind that *)
(* differ in price, times and comfort, and the requests that change one    *)
(* wish in each of three places of a plain one.                            *)
(***************************************************************************)
EXTENDS TripSelection, TLC

Flight(id, no, price, seats, depart, arrive, comfort) ==
  [id |-> id, names |-> {id, no}, flight_no |-> no, price |-> price, seats |-> seats,
   depart_time |-> depart, arrive_time |-> arrive, is_direct |-> comfort[1],
   refundable |-> comfort[2], changeable |-> comfort[3]]

Hotel(id, name, price, rooms, rating, quiet, clean, subway) ==
  [id |-> id, names |-> {id, name}, hotel_id |-> id, price_per_night |-> price, rooms |-> rooms,
   rating |-> rating, quiet |-> quiet, cleanliness |-> clean, near_subway |-> subway]

SmallCatalogue ==
  [outbound |-> {Flight(11, 51, 40000, 3, 330, 600, <<1, 0, 0>>),
                 Flight(12, 52, 60005, 9, 570, 1230, <<1, 1, 1>>),
                 Flight(13, 53, 52000, 1, NoTime, 30, <<0, 1, 0>>)},
   return   |-> {Flight(21, 61, 41000, 3, 480, 1320, <<1, 1, 1>>),
                 Flight(22, 62, 41000, 2, 480, 1000, <<0, 0, 1>>),
                 Flight(23, 63, 45050, 9, 480, 15, <<0, 0, 1>>)},
   hotel    |-> {Hotel(31, 71, 20000, 1, 780, 500, 600, 0),
                 Hotel(32, 72, 30010, 4, 900, 900, 800, 1),
                 Hotel(33, 72, 45000, 2, 960, 950, 950, 1),
                 Hotel(34, 74, 22000, 0, 700, 400, 500, 1)}]

NoFlightWish == [avoid_early_flight |-> 0, avoid_late_arrival |-> 0, prefer_direct |-> 0,
                 price_sensitive |-> 0]
NoHotelWish == [quiet |-> 0, cleanliness |-> 0, near_subway |-> 0, high_rating |-> 0,
                budget_friendly |-> 0]

Plain ==
  [total |-> 200000, people |-> 1, rooms |-> 1, nights |-> 2,
   flightLimits |-> {}, hotelLimits |-> {}, namedFlights |-> {}, namedHotels |-> {},
   flightWeights |-> NoFlightWish, hotelWeights |-> NoHotelWish, spend |-> <<>>,
   savedHotelPrice |-> NoAmount]

Limit(field, operator, value) == [field |-> field, operator |-> operator, value |-> value]
Named(mode, name) == [mode |-> mode, name |-> name]
Spend(category, signed) == [category |-> category, signed |-> signed]

Budgets == {NoAmount, 0, 90001, 130000, 171015, 250003}
Parties == {<<1, 1, 0>>, <<2, 1, 2>>, <<3, 2, 1>>}
FlightLimits == {{Limit("price", "<=", 45000)}, {Limit("price", "<=", 90000)},
                 {Limit("arrive_time", "<=", 1320)}, {Limit("is_direct", "==", 1)},
                 {Limit("depart_time", ">", 480)}, {Limit("flight_no", "==", 51)}}
HotelLimits == {{Limit("price_per_night", "<=", 30010)}, {Limit("near_subway", "==", 1)},
                {Limit("hotel_id", "==", 33)}}
FlightNames == {{Named("avoid", 21)}, {Named("preferred", 62), Named("preferred", 11)}}
HotelNames == {{Named("required", 72)}, {Named("avoid", 71), Named("preferred", 33)}}
FlightWishes == {[NoFlightWish EXCEPT !.avoid_late_arrival = 900, !.avoid_early_flight = 300],
                 [NoFlightWish EXCEPT !.price_sensitive = 700, !.prefer_direct = 500]}
HotelWishes == {[NoHotelWish EXCEPT !.quiet = 1000, !.high_rating = 800],
                [NoHotelWish EXCEPT !.budget_friendly = 900, !.near_subway = 200]}
Spends == {<<Spend("hotel", 1000), Spend("transport", -400)>>,
           <<Spend("food_activity", 800), Spend("food_activity", 600), Spend("hotel", -200)>>}

WithBudget(R) == {[r EXCEPT !.total = b] : r \in R, b \in Budgets}
Changed(R) ==
  {[r EXCEPT !.people = p[1], !.rooms = p[2], !.nights = p[3]] : r \in R, p \in Parties}
  \cup {[r EXCEPT !.flightLimits = l] : r \in R, l \in FlightLimits}
  \cup {[r EXCEPT !.hotelLimits = l] : r \in R, l \in HotelLimits}
  \cup {[r EXCEPT !.namedFlights = n] : r \in R, n \in FlightNames}
  \cup {[r EXCEPT !.namedHotels = n] : r \in R, n \in HotelNames}
  \cup {[r EXCEPT !.flightWeights = w] : r \in R, w \in FlightWishes}
  \cup {[r EXCEPT !.hotelWeights = w] : r \in R, w \in HotelWishes}
  \cup {[r EXCEPT !.spend = s] : r \in R, s \in Spends}
  \cup {[r EXCEPT !.savedHotelPrice = 25000] : r \in R}

AllRequests == WithBudget(Changed(Changed({Plain})) \cup {Plain})
=============================================================================
