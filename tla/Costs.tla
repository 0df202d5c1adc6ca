------------------------------- MODULE Costs -------------------------------
(***************************************************************************)
(* What a resource costs (pipeline/cost_estimator.py) and what an action   *)
(* would save (pipeline/decision_agent.py).  The price tables are in       *)
(* 0.001 USD per hour, rounded.  A point of a series is what five minutes  *)
(* cost, in a twelfth of that unit: then a point of a running instance is  *)
(* its price, and a price in a point's unit is twelve times the number.    *)
(***************************************************************************)
EXTENDS Signals

PeriodsPerHour == 12

\* The EC2 types of both price tables, cheapest first; only t3.micro differs.
Prices    == <<10, 21, 42, 83, 166>>    \* EC2_HOURLY_PRICE_USD
RateTable == <<13, 21, 42, 83, 166>>    \* EC2_HOURLY_RATE
Tiers     == DOMAIN Prices

----------------------------------------------------------------------------
(* cost_estimator.py *)

\* _running_fraction_per_period for whole periods: events[p] is whether the instance
\* runs after point p; before the first one stands what the caller says of now.
RunningFractions(events, n, currentlyRunning) ==
    [i \in 1 .. n |->
        LET past == {p \in DOMAIN events : p < i}
            running == IF past = {} THEN currentlyRunning ELSE events[Max(past)]
        IN  IF running THEN 1 ELSE 0]

\* estimate_cost_series: by the type of the resource; Lambda and S3 pay for use.
EstimateCostSeries(type, tier, metrics, events, n) ==
    CASE type = "EC2"         -> [i \in 1 .. n |->
                                    RateTable[tier] * RunningFractions(events, n, TRUE)[i]]
      [] type = "AutoScaling" -> [i \in 1 .. n |->
                                    RateTable[tier] * metrics.group_desired_capacity[i]]
      [] type = "Lambda"      -> metrics.invocation_count
      [] type = "S3"          -> metrics.number_of_requests

----------------------------------------------------------------------------
(* decision_agent.py; a saving is a rate (part of whole) and dollars per   *)
(* hour in a point's unit.                                                 *)

NoSaving == [part |-> 0, whole |-> 1, dollars |-> 0]

\* _cost_based_full_removal_saving: all of it for Stop, half for a schedule.
FullRemovalSaving(cost, percent) ==
    [part |-> percent, whole |-> 100,
     dollars |-> (PeriodsPerHour * Total(cost) * percent) \div (100 * Len(cost))]

\* The fallback of _ec2_resize_saving when describe_instances fails: the tier
\* whose price lies closest to the mean of the cost series.
EstimatedTier(cost) ==
    LET distance(t) == LET d == Len(cost) * PeriodsPerHour * Prices[t] - Total(cost)
                       IN  IF d < 0 THEN 0 - d ELSE d
        best == Min({distance(t) : t \in Tiers})
    IN  Min({t \in Tiers : distance(t) = best})

\* _ec2_resize_saving: one tier down from the current one; tier is 0 if the
\* lookup failed.
Ec2ResizeSaving(cost, tier) ==
    LET current == IF tier = 0 THEN EstimatedTier(cost) ELSE tier
    IN  IF current = 1 THEN [saving |-> NoSaving, target |-> 1]
        ELSE [saving |-> [part |-> Prices[current] - Prices[current - 1],
                          whole |-> Prices[current],
                          dollars |-> PeriodsPerHour * (Prices[current] - Prices[current - 1])],
              target |-> current - 1]

RecentPoints(cost) == Min({Max({3, Len(cost) \div 5}), Len(cost) - 1})

RecentAverage(cost) ==
    LET recent == Newest(cost, RecentPoints(cost)) IN Total(recent) \div Len(recent)

TrendActions == {"Block", "Throttle", "ScaleDown"}

\* What an hour costs now: the newest fifth of the series for the actions that
\* curb a rise, the whole of it for the others.
CurrentCost(action, cost) ==
    IF action \in TrendActions THEN PeriodsPerHour * RecentAverage(cost)
    ELSE (PeriodsPerHour * Total(cost)) \div Len(cost)

\* Mutant: the baseline and the recent part are exchanged.
TrendSaving_SwappedParts(cost) ==
    LET n      == RecentPoints(cost)
        recent == Total(Newest(cost, n)) \div n
        base   == Total(AllBut(cost, n)) \div (Len(cost) - n)
    IN  [part |-> Max({0, base - recent}), whole |-> Max({1, recent}),
         dollars |-> PeriodsPerHour * Max({0, base - recent})]

\* _trend_based_partial_saving: what the newest fifth costs more than the rest.
TrendSaving(cost) ==
    LET n      == RecentPoints(cost)
        recent == Total(Newest(cost, n)) \div n
        base   == Total(AllBut(cost, n)) \div (Len(cost) - n)
    IN  [part |-> Max({0, recent - base}), whole |-> Max({1, recent}),
         dollars |-> PeriodsPerHour * Max({0, recent - base})]

\* _edos_avoided_scaling_cost: the instances an attack could still start, of the
\* type of the first one, or the cheapest if neither it nor the template tells;
\* -1 if the group cannot be described.
AvoidedScalingCosts(maxSize, desired, tier) ==
    {PeriodsPerHour * Max({0, maxSize - desired}) * Prices[t] : t \in {1, tier}}
        \cup {-1}
=============================================================================
