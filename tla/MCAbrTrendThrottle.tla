-------------------------- MODULE MCAbrTrendThrottle --------------------------
(***************************************************************************)
(* The throttling experiment of plan_bwe.md under the trend selector: one  *)
(* receiver reports one estimate until the link is throttled and a lower   *)
(* one from then on.  Half a second is one unit of time, the durations and *)
(* factors are the defaults of config.h, and a report comes every ReportGap *)
(* as the SDK's periodic callback does.                                    *)
(***************************************************************************)
EXTENDS AbrTrend

CONSTANTS
    Free, Throttled,  \* the estimate before and after
    ReportGap         \* time between two reports

VARIABLE throttled

\* The link is throttled once a whole window of reports shows it free.
Throttle == /\ ~throttled
            /\ \A u \in Uids : Len(receivers[u]) * ReportGap > Window
            /\ throttled' = TRUE
            /\ UNCHANGED vars

Estimate == IF throttled THEN Throttled ELSE Free

Report == /\ \E u \in Uids :
                /\ u \in Tracked(receivers) => Idle(receivers[u]) >= ReportGap
                /\ AddSample(u, Estimate)
          /\ UNCHANGED throttled

\* Time does not run past a report or a tick that is due.
OnTime == /\ slept < Tick
          /\ \A u \in Tracked(receivers) : Idle(receivers[u]) < ReportGap
          /\ Elapse
          /\ UNCHANGED throttled

Tock == /\ EvaluateNobody \/ EvaluateTracked
        /\ UNCHANGED throttled

TNext == Throttle \/ Report \/ OnTime \/ Tock

TSpec == /\ Init /\ throttled = FALSE
         /\ [][TNext]_<<vars, throttled>>
         /\ WF_<<vars, throttled>>(Throttle)
         /\ WF_<<vars, throttled>>(Report)
         /\ WF_<<vars, throttled>>(OnTime)
         /\ WF_<<vars, throttled>>(Tock)

\* plan_bwe.md: under throttling the publisher steps down within
\* br_downgrade_duration after the rolling average drops.  Stated without
\* the deadline: it steps down at all.  (Nothing rises here: the level is
\* StartLevel until it falls.)
ThrottledStepsDown == throttled ~> (target < StartLevel)
=============================================================================
