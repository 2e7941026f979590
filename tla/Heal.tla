-------------------------------- MODULE Heal --------------------------------
(* Drift detection and repair of a source's field mapping (engine/heal.cpp)   *)
(* and the moving average it compares with (pipeline.cpp update_baseline).    *)
(* Rates and confidences are whole parts of Scale (100: per cent).            *)
EXTENDS Integers

Scale == 100

\* The baseline after a good run: the first rate under a mapping as it is, then
\* an exponential average that keeps seven tenths of the old value.
UpdateBaseline(baseline, good, rate) ==
    IF good <= 0 THEN rate ELSE (7 * baseline + 3 * rate) \div 10

\* assess: only a mapping with a good run behind it can drift, and it has when
\* the rate it now extracts fell below six tenths of the baseline.
Drifted(hasMapping, good, baseline, rate) ==
    /\ hasMapping
    /\ good # 0
    /\ 10 * rate < 6 * baseline

\* propose: recovery is the candidate's rate against the baseline, at most 1.
\* The products avoid the division of min(1, rate / baseline).
Confident(baseline, confidence, rate) ==
    IF baseline > 0
    THEN 2 * (confidence * baseline + Scale * (IF rate < baseline THEN rate ELSE baseline))
            >= 3 * Scale * baseline
    ELSE 2 * (confidence + rate) >= 3 * Scale

\* Mutant: a confident candidate needs no recovery.
RecoveredAnyhow(baseline, rate) == TRUE

\* A candidate recovers when it extracts seven tenths of the baseline.
Recovered(baseline, rate) ==
    IF baseline > 0 THEN 10 * rate >= 7 * baseline ELSE rate > 0

\* A candidate with no field is never acceptable, whatever the numbers.
Acceptable(hasFields, baseline, confidence, rate) ==
    /\ hasFields
    /\ Recovered(baseline, rate)
    /\ Confident(baseline, confidence, rate)
=============================================================================
