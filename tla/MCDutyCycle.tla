---------------------------- MODULE MCDutyCycle ----------------------------
(* DutyCycle for TLC: two European sub-bands and a band without, Japan, and *)
(* the United States, whose dwell time lets nothing but emergencies pass.   *)
EXTENDS DutyCycle, TLC

CONSTANTS m1, m2, m3, none

MCPriority == m1 :> 0 @@ m2 :> 3 @@ m3 :> 3

MCBandOf == 868 :> "EU868" @@ 867 :> "EU868" @@ 433 :> "EU433" @@ 915 :> "US915" @@ 921 :> "JP920"

MCSubBandOf == 868 :> "868-868.6" @@ 867 :> "865-868" @@ 433 :> none @@ 915 :> none
                @@ 921 :> none

MCSubBandLimit == "868-868.6" :> 2000 @@ "865-868" :> 1000

MCDefaultLimit == "EU" :> 1000 @@ "JP" :> 1000

EU(f) ==
    [region |-> "EU", bands |-> {"EU868", "EU433"}, frequency |-> f,
     maxDutyCycle |-> 1000, maxTransmissionTimeMs |-> 1000,
     frequencyHopping |-> FALSE, dwellTimeMs |-> 0,
     emergencyOverrideEnabled |-> FALSE]

US ==
    [region |-> "US", bands |-> {"US915"}, frequency |-> 915,
     maxDutyCycle |-> 0, maxTransmissionTimeMs |-> 10000,
     frequencyHopping |-> TRUE, dwellTimeMs |-> 400,
     emergencyOverrideEnabled |-> TRUE]

JP ==
    [region |-> "JP", bands |-> {"JP920"}, frequency |-> 921,
     maxDutyCycle |-> 0, maxTransmissionTimeMs |-> 4000,
     frequencyHopping |-> FALSE, dwellTimeMs |-> 0,
     emergencyOverrideEnabled |-> TRUE]

MCConfigs == {EU(868), EU(867), EU(433), US, JP}
=============================================================================
