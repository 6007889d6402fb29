------------------------------- MODULE MCCloud -------------------------------
(* The load campaign of one route, in a matrix of two modes, one size and one *)
(* or two pairs; with M = 2 an order is the identity or its reversal.         *)
EXTENDS FinalReport

MCParticipants == <<3>>
MCConcurrentPairs == <<1, 2>>

Reference == "reference-itemwise"
CompleteMethod == "batch-joint-presigning-batch-verification"
MCModes == {Reference, CompleteMethod}
MCHashOrder == [x \in BOOLEAN \X Workload |->
                  IF x[1] THEN <<Reference, CompleteMethod>> ELSE <<CompleteMethod, Reference>>]

MCPrimary == {<<3, 1>>, <<5, 1>>}
MCLoad == {<<3, 1>>, <<3, 2>>}
MCMeasurements == [primary |-> [trials |-> 3, warmup |-> 2], load |-> [trials |-> 1, warmup |-> 1]]

\* An analysis of another campaign.
Other(campaign, route, workloads, trials) ==
    [campaign |-> campaign, route |-> route, schedule |-> << >>,
     summary  |-> [workload : workloads, mode : MCModes, trials : {trials}],
     effects  |-> [workload : workloads, comparison : {"complete_method_vs_reference"}, trials : {trials}],
     build    |-> Build, keys |-> route, regions |-> EXPECTED_AWS_REGIONS[route]]

Cost(campaign, route, measured, warmup) ==
    [campaign |-> campaign, route |-> route, measured |-> measured, warmup |-> warmup,
     regions |-> EXPECTED_AWS_REGIONS[route]]

\* All that belongs to the campaign c1, the load campaign of the first route.
Whole ==
    [timing  |-> <<Other("c2", "eu_to_us", MCPrimary, 3), Other("c3", "sg_to_us", MCLoad, 1),
                   Other("c4", "sg_to_us", MCPrimary, 3)>>,
     systems |-> [profiling : {"allocation", "syscall"}, modes : {MCModes}],
     pcaps   |-> [route : {"eu_to_us", "sg_to_us"}, role : Role, campaign : {"c5"}],
     costs   |-> <<<<Cost("c1", "eu_to_us", 4, 4), Cost("c2", "eu_to_us", 12, 8),
                     Cost("c3", "sg_to_us", 4, 4), Cost("c4", "sg_to_us", 12, 8)>>>>]

\* The whole evidence, and what a careless operator passes: no load campaign of
\* the other route, and costs that leave the warm-ups out.
MCArchive ==
    {Whole,
     [Whole EXCEPT !.timing = <<@[1], @[3]>>],
     [Whole EXCEPT !.costs[1][1].warmup = 0]}
=============================================================================
