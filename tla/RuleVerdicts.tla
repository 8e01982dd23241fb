----------------------------- MODULE RuleVerdicts ------------------------------
(***************************************************************************)
(* What the detector says of one feature: the lists come first, then the   *)
(* rules over thresholds that learning sets, then the score of the model,  *)
(* and a pair of loopback addresses tempers it.  Rates and frequencies are *)
(* in tenths, so that every threshold of the code is an integer; the       *)
(* conditions that compare nothing (an interval without variance, a       *)
(* keyword in the payload) are members of the set marks.                   *)
(***************************************************************************)
EXTENDS SequencesExt, FiniteSetsExt

CONSTANTS
  Features,  (* the features judged                                          *)
  Baselines, (* what learning may leave: [rate, rateDev, freq, freqDev]      *)
  Growths    (* what may be more in one feature than in another: functions  *)
             (* from fields to what is added to them                         *)

\* What counts a traffic.  The rate of packets is none of them: one rule asks for a low one.
Counts == {"freq", "targets", "visits", "duration", "bytes", "size", "hits"}
Marks == {"syn", "refused", "outbound", "periodic", "dns", "private", "sensitive", "sql",
          "script", "path", "no gap", "well known", "loopback"}

ASSUME VerdictAssumption ==
  /\ Features \subseteq [proto : {"TCP", "UDP", "ICMP"}, port : Nat, marks : SUBSET Marks,
                         list : {"none", "white", "tracker", "black"}, rate : Nat, freq : Nat,
                         targets : Nat, visits : Nat, duration : Nat, bytes : Nat, size : Nat,
                         hits : Nat]
  /\ Baselines \subseteq [rate : Nat, rateDev : Nat, freq : Nat, freqDev : Nat]
  /\ \A by \in Growths : DOMAIN by \subseteq Counts /\ \A x \in DOMAIN by : by[x] \in Nat

Rank == [low |-> 1, medium |-> 2, high |-> 3]

\* Baseline()
DefaultBaseline == [rate |-> 200, rateDev |-> 100, freq |-> 50, freqDev |-> 20]

\* The thresholds, each no lower than its floor
PktTh(b) == b.rate + 3 * Max({10, b.rateDev})
ConnTh(b) == b.freq + 3 * Max({5, b.freqDev})
FloodTh(b) == Max({PktTh(b), 1200})
BruteTh(b) == Max({ConnTh(b), 120})
ScanTh(b) == Max({ConnTh(b), 80})
LargeTh(b) == Max({1500000, b.rate * 4000})

Web == {80, 443, 8080}
Databases == {3306, 5432, 6379, 27017}
Remote == {445, 3389}
Common == {21, 22, 23, 25, 53, 80, 110, 135, 139, 143, 443, 445, 3389}
PortScan == 10

\* The rules in their order, each with its level and whether it applies
Rules(f, b) ==
  LET flood == f.rate > FloodTh(b)
      brute == f.freq > BruteTh(b)
      scan == f.freq > ScanTh(b)
      mark(m) == m \in f.marks
  IN << <<"high", f.proto = "TCP" /\ mark("syn") /\ flood>>,
        <<"high", f.proto = "UDP" /\ flood>>,
        <<"high", f.proto = "ICMP" /\ flood>>,
        <<"high", f.port = 22 /\ brute>>,
        <<"high", f.port = 3389 /\ brute>>,
        <<"high", f.port \in Databases /\ brute>>,
        <<"medium", f.port = 21 /\ brute>>,
        <<"medium", f.port \in Web /\ brute /\ mark("refused")>>,
        <<"high", f.targets > 10 /\ scan>>,
        <<"high", f.visits >= 30>>,
        <<"medium", f.port \in Common /\ scan>>,
        <<"high", /\ mark("outbound") /\ f.port > 10000 /\ f.duration > 60
                  /\ 2 * f.rate < Max({120, ConnTh(b)})>>,
        <<"high", f.duration > 120 /\ mark("periodic")>>,
        <<"high", (f.port = 53 \/ mark("dns")) /\ f.size > 100 /\ scan>>,
        <<"high", f.proto = "ICMP" /\ f.size > 100 /\ scan>>,
        <<"high", mark("private") /\ f.port \in Remote /\ scan>>,
        <<"high", f.bytes > LargeTh(b) /\ f.duration > 60>>,
        <<"high", mark("sensitive") /\ mark("outbound") /\ 2 * f.bytes > LargeTh(b)>>,
        <<"high", f.port \in Web /\ mark("sql")>>,
        <<"medium", f.port \in Web /\ mark("script")>>,
        <<"medium", f.port \in Web /\ mark("path")>>,
        <<"medium", f.duration > 600>>,
        <<"medium", mark("no gap") /\ f.freq > ConnTh(b)>>,
        <<"medium", mark("well known") /\ f.hits >= 5 /\ scan>> >>

\* Mutant of Apply: the last rule wins.
ApplyLast(v, n, level) == [matched |-> TRUE, level |-> level, sub |-> n]

\* RuleEngine.detect, apply: of equal levels the later rule wins.
Apply(v, n, level) ==
  IF Rank[level] >= Rank[v.level] THEN [matched |-> TRUE, level |-> level, sub |-> n]
  ELSE [v EXCEPT !.matched = TRUE]

\* The verdict of the rules; 0 is their "normal", -1 the sub category of loopback.
Detect(f, b) ==
  LET all == Rules(f, b)
      v == FoldLeft(LAMBDA u, n : IF all[n][2] THEN Apply(u, n, all[n][1]) ELSE u,
                    [matched |-> FALSE, level |-> "low", sub |-> 0],
                    [n \in DOMAIN all |-> n])
      loopback == "loopback" \in f.marks
  IN  IF loopback /\ v.level = "high" THEN [v EXCEPT !.level = "medium", !.sub = -1]
      ELSE IF loopback /\ v.sub = PortScan THEN [v EXCEPT !.sub = -1]
      ELSE v

NoAlert == [level |-> "none", sub |-> 0]

\* _evaluate_detection_result; a score is "calm", "odd" (0.3) or "anomalous" (0.55).
Evaluated(f, b, score) ==
  LET v == Detect(f, b)
      raised == IF score = "anomalous" THEN "high"
                ELSE IF score = "odd" /\ v.level # "high" THEN "medium" ELSE v.level
      sub == IF v.matched THEN v.sub ELSE 0
  IN  IF ~v.matched /\ score # "anomalous" THEN NoAlert
      ELSE IF "loopback" \in f.marks /\ raised = "high" THEN [level |-> "medium", sub |-> -1]
      ELSE [level |-> raised, sub |-> sub]

\* DetectionService.process for one feature; a list of the source address, or a
\* tracker's host, decides alone.
Judged(f, b, score) ==
  CASE f.list = "white" -> NoAlert
    [] f.list = "tracker" -> [level |-> "medium", sub |-> -2]
    [] f.list = "black" -> [level |-> "high", sub |-> -3]
    [] OTHER -> Evaluated(f, b, score)

-------------------------------------------------------------------------------
(* What the verdicts promise *)

Scores == {"calm", "odd", "anomalous"}
ScoreRank == [calm |-> 1, odd |-> 2, anomalous |-> 3]
AlertRank(a) == IF a.level = "none" THEN 0 ELSE Rank[a.level]
More(f, by) == [x \in DOMAIN f |-> IF x \in DOMAIN by THEN f[x] + by[x] ELSE f[x]]

\* More connections, ports, targets or bytes, a longer session or a higher score
\* neither silence an alert nor lower its level.
Monotone(b) ==
  \A f \in Features, s \in Scores :
    /\ \A by \in Growths : AlertRank(Judged(f, b, s)) <= AlertRank(Judged(More(f, by), b, s))
    /\ \A t \in Scores : ScoreRank[s] <= ScoreRank[t] =>
         AlertRank(Judged(f, b, s)) <= AlertRank(Judged(f, b, t))

\* What an alert names is a rule that applies, of the highest level that does, and
\* its level is that rule's unless the score has raised it.
Explained(b) ==
  \A f \in Features, s \in Scores :
    LET a == Judged(f, b, s)
        rules == Rules(f, b)
        level(n) == Rank[rules[n][1]]
    IN  a.sub > 0 =>
          /\ rules[a.sub][2]
          /\ \A n \in DOMAIN rules : rules[n][2] => level(n) <= level(a.sub)
          /\ Rank[a.level] # level(a.sub) => s # "calm" /\ Rank[a.level] > level(a.sub)
===============================================================================
