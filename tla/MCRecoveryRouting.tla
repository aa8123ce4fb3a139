------------------------ MODULE MCRecoveryRouting ------------------------
(***************************************************************************)
(* Instances of RecoveryRouting for TLC: two vehicles that may serve, one  *)
(* of them with committed work, and one of another tenant; the answers mix *)
(* right and wrong steps, vehicles and omissions.                          *)
(***************************************************************************)
EXTENDS RecoveryRouting

Own(capacity) ==
    [tenant |-> "t1", available |-> TRUE, shiftEnd |-> 9,
     capacityKg |-> capacity, capabilities |-> {1}]

Base ==
    [tenant |-> "t1", requestedAt |-> 1, quoteValidUntil |-> 5,
     accessStart |-> 3, accessEnd |-> 6, pickupKg |-> 1, serviceSeconds |-> 2,
     streamCapability |-> 1,
     fleet |-> [v \in Vehicles |->
                  IF v = "v3" THEN [Own(2) EXCEPT !.tenant = "t2"] ELSE Own(2)],
     offered |-> Vehicles,
     committed |-> [v \in Vehicles |-> IF v = "v1" THEN {"w1"} ELSE
                                       IF v = "v3" THEN {"w3"} ELSE {}],
     workSeconds |-> [w \in Works |-> 1]]

(* The base; access too short; two vehicles with one and the same work;    *)
(* nothing but a vehicle whose shift is over; a quote that would outlive   *)
(* access.                                                                 *)
MCRequests ==
    {Base,
     [Base EXCEPT !.accessEnd = 4],
     [Base EXCEPT !.committed["v2"] = {"w1"}],
     [Base EXCEPT !.offered = {"v1", "v3"}, !.fleet["v1"].shiftEnd = 1],
     [Base EXCEPT !.quoteValidUntil = 8]}

Step(job, arrival, service, load) ==
    [job |-> job, arrival |-> arrival, waiting |-> 1, service |-> service,
     load |-> <<load>>]

Steps ==
    {Step("recovery", 3, 2, 2),     \* as asked
     Step("recovery", 4, 2, 2),     \* ends too late
     Step("recovery", 1, 2, 1),     \* starts too early
     Step("recovery", 3, 2, 3),     \* too heavy
     Step("recovery", 3, 1, 1),     \* service cut short
     Step("w1", 1, 1, 1),           \* as committed
     Step("w1", 1, 2, 1),           \* committed work changed
     Step("w3", 1, 1, 1)}           \* work nobody asked about

StepLists == {<<>>} \cup {<<s>> : s \in Steps}
               \cup {<<Step("w1", 1, 1, 1), s>> : s \in Steps}

Routes == [vehicle : Vehicles, seconds : {2, 3}, steps : StepLists]

(* One vehicle's route as it likes, the other's among a few.               *)
Others == {[vehicle |-> v, seconds |-> 2, steps |-> s] :
             v \in Vehicles, s \in {<<>>, <<Step("w1", 1, 1, 1)>>,
                                    <<Step("recovery", 3, 2, 2)>>}}

MCAnswers ==
    {Garbage} \cup
    [code : {0}, unassigned : {{}, {"w1"}, {"recovery"}},
     routes : {<<>>} \cup {<<r>> : r \in Routes}
                \cup {<<r, o>> : r \in Routes, o \in Others}]
    \cup [code : {3}, unassigned : {{}}, routes : {<<>>}]
=============================================================================
