---------------------------- MODULE MCLiveDetection ----------------------------
(* LiveDetection with features on both sides of the thresholds.              *)
EXTENDS LiveDetection

Feature(proto, port, list, marks) ==
  [proto |-> proto, port |-> port, list |-> list, marks |-> marks, rate |-> 0, freq |-> 40,
   targets |-> 0, visits |-> 0, duration |-> 50, bytes |-> 0, size |-> 200, hits |-> 5]

MCFeatures ==
  {[Feature(proto, port, "none", marks) EXCEPT !.freq = 40 + 60 * more, !.rate = 1300 * more] :
     proto \in {"TCP", "ICMP"}, port \in {22, 443, 445, 12345}, more \in {0, 1},
     marks \in {{}, {"loopback"}, {"outbound", "sensitive"}, {"private", "no gap"},
                {"sql", "script", "refused"}}}
  \cup {Feature("TCP", 443, list, {}) : list \in {"white", "black", "tracker"}}

MCGrowths == {[freq |-> 60], [freq |-> 200], [visits |-> 30, targets |-> 11], [bytes |-> 900000],
              [duration |-> 600], [duration |-> 20, bytes |-> 4000000]}

MCBaselines == {[rate |-> 10, rateDev |-> 0, freq |-> 2, freqDev |-> 0],
                [rate |-> 900, rateDev |-> 200, freq |-> 150, freqDev |-> 20]}
===============================================================================
