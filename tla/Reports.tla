------------------------------- MODULE Reports -------------------------------
(***************************************************************************)
(* What the two runners write down and what is made of it: the counts of   *)
(* their JSON reports (build_report), the exit statuses, the summary each  *)
(* prints, and the page scripts/report.py renders.  No state: a report is  *)
(* a function from what was run to what became of it, and a rendered table *)
(* is its numbers.                                                         *)
(***************************************************************************)
EXTENDS Naturals, FiniteSets, FiniteSetsExt

Failures == {"CLEAN_REJECT", "TIMEOUT", "FAIL", "CRASH"}

\* STATUS_COLUMNS of run_regression.py, STATUS_COLS of report.py, and the
\* statuses the external runner has a counter for.
Verdicts == Failures \cup {"PASS", "XFAIL", "XPASS"}
StatusCols == Failures \cup {"PASS"}
ExternalStatuses == StatusCols \ {"FAIL"}

\* The statuses of designs that make run_regression.py exit 1.
Failing == {"CRASH", "TIMEOUT", "FAIL", "XPASS"}

Severity ==
  [PASS |-> 0, CLEAN_REJECT |-> 1, TIMEOUT |-> 2, FAIL |-> 3, CRASH |-> 4]

RowSum(row) == MapThenSumSet(LAMBDA s : row[s], DOMAIN row)

\* build_report's `summary`: a row of counters for every group that has an entry
\* (a suite without files has a row of zeros, which changes no number here).
Counts(entries, statuses) ==
  LET groups == {entries[e].group : e \in DOMAIN entries} IN
  [g \in groups |-> [s \in statuses |->
     Cardinality({e \in DOMAIN entries : entries[e].group = g /\ entries[e].status = s})]]

\* A column summed over the rows of `summary`, 0 where a row lacks it.
ColumnSum(summary, s) ==
  MapThenSumSet(LAMBDA g : IF s \in DOMAIN summary[g] THEN summary[g][s] ELSE 0,
                DOMAIN summary)

\* The totals of print_summary, and _totals_row of report.py.
GrandTotal(summary) == [s \in Verdicts |-> ColumnSum(summary, s)]
TotalsRow(summary) == [s \in StatusCols |-> ColumnSum(summary, s)]

\* A table of the page: per group the total and the four columns it shows, and
\* the TOTAL row.
ShownCols == {"PASS", "CLEAN_REJECT", "CRASH", "TIMEOUT"}
Row(counts) == [total |-> RowSum(counts), shown |-> [s \in ShownCols |-> counts[s]]]
Table(summary) ==
  [rows |-> [g \in DOMAIN summary |-> Row(summary[g])], total |-> Row(TotalsRow(summary))]

-----------------------------------------------------------------------------
(* The curated report.  An entry is a design: its category as group, its     *)
(* status, and the statuses of the behavioral cases that were compared.      *)

CuratedExit(designs) ==
  IF \E d \in DOMAIN designs : designs[d].status \in Failing THEN 1 ELSE 0

\* print_summary of run_regression.py: expected failures apart from the others.
Console(designs) ==
  [total  |-> RowSum(GrandTotal(Counts(designs, Verdicts))),
   xfails |-> {d \in DOMAIN designs : designs[d].status = "XFAIL"},
   anomalies |-> {d \in DOMAIN designs : designs[d].status \notin {"PASS", "XFAIL"}}]

\* render_behavioral: nothing without cases, else how many hold and which fail.
Behavioral(designs) ==
  LET compared == UNION {{<<d, c>> : c \in DOMAIN designs[d].cases} : d \in DOMAIN designs}
      failed == {x \in compared : designs[x[1]].cases[x[2]] # "PASS"}
  IN [passed |-> Cardinality(compared \ failed), failed |-> failed]

\* MUTANT: a design is an anomaly when one of the shown columns says so.
RenderCurated_Columns(designs) ==
  [table |-> Table(Counts(designs, Verdicts)),
   anomalies |-> {[design |-> d, status |-> designs[d].status] :
                    d \in {e \in DOMAIN designs : designs[e].status \in ShownCols \ {"PASS"}}},
   behavioral |-> Behavioral(designs)]

\* render_curated: every design that is not PASS is listed with its status.
RenderCurated(designs) ==
  [table |-> Table(Counts(designs, Verdicts)),
   anomalies |-> {[design |-> d, status |-> designs[d].status] :
                    d \in {e \in DOMAIN designs : designs[e].status # "PASS"}},
   behavioral |-> Behavioral(designs)]

-----------------------------------------------------------------------------
(* The external report.  An entry is a file: its suite as group, its status, *)
(* and the status its baseline expects, or "none".                           *)

\* compare_to_expectations.
Compare(status, expected) ==
  IF expected = "none" THEN "NEW"
  ELSE IF status = expected THEN "MATCH"
  ELSE IF Severity[status] > Severity[expected] THEN "REGRESSION"
  ELSE "IMPROVEMENT"

Compared(files, f) == Compare(files[f].status, files[f].expected)

ExternalExit(files) ==
  IF \E f \in DOMAIN files :
       \/ Compared(files, f) = "REGRESSION"
       \/ Compared(files, f) = "NEW" /\ files[f].status = "CRASH"
  THEN 1 ELSE 0

\* print_summary of run_external_regression.py: the files that crashed or hung,
\* those a baseline tolerates included.
Stuck(files) == {f \in DOMAIN files : files[f].status \in {"CRASH", "TIMEOUT"}}

\* MUTANT: an improvement asks for no action and is left out.
RenderExternal_NoImprovements(files) ==
  [table |-> Table(Counts(files, ExternalStatuses)),
   listed |-> {[file |-> f, verdict |-> Compared(files, f), status |-> files[f].status] :
                 f \in {g \in DOMAIN files : Compared(files, g) \in {"REGRESSION", "NEW"}}},
   matches |-> Cardinality({f \in DOMAIN files : Compared(files, f) = "MATCH"})]

\* render_external: a table, and per file whatever is not a MATCH.
RenderExternal(files) ==
  [table |-> Table(Counts(files, ExternalStatuses)),
   listed |-> {[file |-> f, verdict |-> Compared(files, f), status |-> files[f].status] :
                 f \in {g \in DOMAIN files : Compared(files, g) # "MATCH"}},
   matches |-> Cardinality({f \in DOMAIN files : Compared(files, f) = "MATCH"})]

=============================================================================
