----------------------------- MODULE MCCampaign -----------------------------
(***************************************************************************)
(* Campaigns that between them have every kind of step, flights that       *)
(* follow one another, and flights with two paths and with two presets.    *)
(***************************************************************************)
EXTENDS Campaign

Flies1(p, idles, gated, steps) == [pack |-> p, idles |-> idles, gated |-> gated, steps |-> steps]

MCCampaigns ==
  {<<Flies1("p1", TRUE, TRUE, <<"set", "hold">>), Flies1("p1", FALSE, TRUE, <<"tune">>)>>,
   <<Flies1("p1", FALSE, TRUE, <<"excite">>), Flies1("p2", FALSE, TRUE, <<"set">>)>>,
   <<Flies1("p1", FALSE, TRUE, <<"traj", "preset", "preset">>)>>,
   <<Flies1("p1", FALSE, FALSE, <<"traj", "traj">>)>>}
=============================================================================
