-------------------------- MODULE MCToolOrchestration --------------------------
(***************************************************************************)
(* An instance of ToolOrchestration for TLC.                               *)
(***************************************************************************)
EXTENDS ToolOrchestration

TwoTrips == {[trip |-> "hgh", people |-> 1], [trip |-> "hgh", people |-> 2]}

Call(tool, interest, valid) == [tool |-> tool, interest |-> interest, valid |-> valid]

\* No wish, two different wishes, a bad call before a good one, one call too many, a tool
\* that is not on offer.
SomeAnswers ==
  {<<>>, <<Call(Activities, "art", TRUE)>>, <<Call(Activities, "night", TRUE)>>,
   <<Call(Activities, "art", FALSE), Call(Activities, "night", TRUE)>>,
   <<Call(Activities, "art", TRUE), Call(Activities, "night", TRUE)>>,
   <<Call("weather", "none", TRUE)>>}

SomeRefusals == {{}, {Activities}, {"hotels"}}
=============================================================================
