---------------------------- MODULE MCNightlyJob ----------------------------
(***************************************************************************)
(* Two repositories; three designs in two categories, of which one has     *)
(* behavioral cases; three files in two suites, with a baseline that knows *)
(* a pass, a hang and nothing, or none at all.                             *)
(***************************************************************************)
EXTENDS NightlyJob

MCRepos == <<"hif-core", "muffin">>

Entry(group, verdict, cases) == [group |-> group, status |-> verdict, cases |-> cases]
Behaving ==
  {Entry("combinational", "PASS", <<"PASS", "PASS">>),
   Entry("combinational", "FAIL", <<"PASS", "FAIL">>),
   Entry("combinational", "XFAIL", <<"FAIL">>),
   Entry("combinational", "CRASH", << >>)}
Plain(group) == {Entry(group, verdict, << >>) : verdict \in Verdicts \ {"FAIL"}}
MCCuratedRuns ==
  {[and2 |-> a, mux4 |-> m, hier_adder |-> h] :
     a \in Behaving, m \in Plain("combinational"), h \in Plain("hierarchical")}

Ends(group, expected) ==
  {[group |-> group, status |-> ended, expected |-> expected] : ended \in ExternalStatuses}
Suites(e1, e2, e3) ==
  {[adder |-> a, div |-> d, voter |-> v] :
     a \in Ends("epfl/arithmetic", e1), d \in Ends("epfl/arithmetic", e2),
     v \in Ends("epfl/random_control", e3)}
MCExternalRuns ==
  Suites("PASS", "TIMEOUT", "none") \cup Suites("CRASH", "CLEAN_REJECT", "none")
    \cup Suites("none", "none", "none")
=============================================================================
