-------------------------- MODULE MethodPreflight --------------------------
(***************************************************************************)
(* method_preflight.py: before an advanced method is estimated, its data   *)
(* are checked and each finding is an issue of some severity; the worst    *)
(* one decides.  The checks of a panel are computed from its rows, those   *)
(* of the other methods are facts of the data.                             *)
(***************************************************************************)
EXTENDS Integers, FiniteSets

CONSTANTS
  Unit, MaxPeriod, \* units and periods of the panels
  MaxShape         \* units and periods of a dynamic panel, and its lags

ASSUME PreflightAssumption == MaxPeriod \in Nat /\ MaxShape \in Nat

Time == 1..MaxPeriod
NoTreatment == -1   \* a row without a treatment
NoRow == -2         \* no row
Treatment == {NoRow, NoTreatment, 0, 1, 2}

VARIABLES
  method,
  panel,   \* unit and period -> treatment
  facts,   \* what else holds of the data
  shape,   \* units, periods and lag_order of a dynamic panel
  verdict  \* design_status, "error", or "none" before the check

preVars == <<method, panel, facts, shape, verdict>>

(* The issues of a method that follow from one fact each: its severity.    *)
Severity ==
  [did           |-> [duplicateKey |-> "blocking", missingKey |-> "blocking"],
   sdid          |-> [duplicateKey |-> "blocking", missingKey |-> "blocking"],
   dynamic_panel |-> [duplicateKey |-> "blocking", missingKey |-> "blocking"],
   iv            |-> [noVariation |-> "blocking", rankDeficient |-> "blocking"],
   rd            |-> [oneSided |-> "blocking", thinBandwidth |-> "review"],
   dml           |-> [smallFold |-> "review", noTreatmentVariation |-> "blocking"],
   complex_survey |-> [invalidWeights |-> "blocking", singletonStrata |-> "review",
                       noFpc |-> "info"],
   spatial       |-> [islands |-> "review", asymmetric |-> "review"],
   network       |-> [islands |-> "review"]]

(* event_study is checked as did, synthetic_control as sdid.               *)
Like(m) == CASE m = "event_study" -> "did" [] m = "synthetic_control" -> "sdid" [] OTHER -> m

Methods == DOMAIN Severity \union {"event_study", "synthetic_control"}

-----------------------------------------------------------------------------
Units == {u \in Unit : \E t \in Time : panel[u][t] # NoRow}
Periods(u) == {t \in Time : panel[u][t] # NoRow}
AllPeriods == UNION {Periods(u) : u \in Units}

(* Rows without a treatment are dropped before the treatment is looked at. *)
Observed(u) == {t \in Time : panel[u][t] >= 0}

(* Mutant: only a fall between consecutive periods counts. *)
MutReversals == {u \in Unit : \E t \in Observed(u) :
                   t + 1 \in Observed(u) /\ panel[u][t + 1] < panel[u][t]}

Reversals == {u \in Unit : \E s, t \in Observed(u) :
                /\ s < t /\ \A r \in Observed(u) : r <= s \/ r >= t
                /\ panel[u][t] < panel[u][s]}
InvalidTreatment == \E u \in Unit : \E t \in Observed(u) : panel[u][t] \notin {0, 1}
Treated == {u \in Unit : \E t \in Observed(u) : panel[u][t] > 0}

(* The panel counts as balanced when all units have as many periods.       *)
Balanced == \A u, v \in Units : Cardinality(Periods(u)) = Cardinality(Periods(v))

When(condition, severity) == IF condition THEN {severity} ELSE {}

(* Issues that are always raised say what no check of the data can show.   *)
DidIssues ==
  When(InvalidTreatment \/ Reversals # {}, "blocking") \union {"review"}

SyntheticIssues ==
  UNION {When(~Balanced, IF method = "sdid" THEN "blocking" ELSE "review"),
         When(InvalidTreatment \/ Reversals # {}, "blocking"),
         When(Cardinality(Units) - Cardinality(Treated) < 2, "blocking"), {"review"}}

(* uncollapsed_instrument_upper_bound: what the report says of lag_order   *)
(* alone, also where instruments with fewer lags are asked for.            *)
InstrumentBound(s) ==
  LET n == ((s.periods - s.lag) * (s.periods - s.lag - 1)) \div 2
  IN IF n > 0 THEN n ELSE 0

DynamicIssues ==
  UNION {When(shape.periods < shape.lag + 3, "blocking"),
         When(shape.units <= shape.periods, "review"),
         When(InstrumentBound(shape) >= shape.units, "review"), {"review"}}

Pending ==
  CASE Like(method) = "did" -> DidIssues
    [] Like(method) = "sdid" -> SyntheticIssues
    [] method = "dynamic_panel" -> DynamicIssues
    [] method = "complex_survey" -> {}
    [] OTHER -> {"review"}

(* Columns of the request, or of the edge list, that do not exist: the     *)
(* method is not checked at all.                                           *)
Issues == IF "missingColumns" \in facts THEN {"blocking"}
          ELSE {Severity[Like(method)][f] : f \in facts} \union Pending

(* Rows of a panel vary where they are looked at and nothing else decides. *)
PreInit ==
  /\ method \in Methods
  /\ LET staggered == Like(method) \in {"did", "sdid"} IN
     /\ facts \in IF staggered THEN {{}, {"duplicateKey"}, {"missingKey"}, {"missingColumns"}}
                  ELSE {{"missingColumns"}} \union SUBSET DOMAIN Severity[method]
     /\ panel \in IF staggered /\ facts = {} THEN [Unit -> [Time -> Treatment]]
                  ELSE {[u \in Unit |-> [t \in Time |-> NoRow]]}
  /\ shape \in IF method = "dynamic_panel"
               THEN [units : 1..MaxShape, periods : 0..MaxShape, lag : 1..MaxShape]
               ELSE {[units |-> 1, periods |-> 0, lag |-> 1]}
  /\ verdict = "none"

Preflight ==
  /\ verdict = "none"
  /\ verdict' = IF "blocking" \in Issues THEN "blocked"
                ELSE IF "review" \in Issues THEN "review-required" ELSE "ready-for-adapter"
  /\ UNCHANGED <<method, panel, facts, shape>>

(* Data, columns or edges that cannot be read or converted, or an output   *)
(* directory with files: an error and no report.                           *)
Refuse ==
  /\ verdict = "none"
  /\ verdict' = "error"
  /\ UNCHANGED <<method, panel, facts, shape>>

Passed == verdict \in {"review-required", "ready-for-adapter"}

PreNext == Preflight \/ Refuse

PreSpec == PreInit /\ [][PreNext]_preVars

-----------------------------------------------------------------------------
(* A panel that passes the checks of a staggered design is one: the        *)
(* treatment of a unit, where it is recorded, is 0 up to some period and 1 *)
(* from then on, also across periods without a row or a treatment.         *)
PassedIsStaggered ==
  Passed /\ Like(method) \in {"did", "sdid"} =>
    \A u \in Unit : \E start \in 1..MaxPeriod + 1 :
      \A t \in Observed(u) : panel[u][t] = IF t >= start THEN 1 ELSE 0

(* What the check of sdid says it makes sure of ("Panel is not balanced    *)
(* across units"): the units have rows for the same periods.               *)
PassedIsBalanced ==
  Passed /\ method = "sdid" => \A u \in Units : Periods(u) = AllPeriods
=============================================================================
