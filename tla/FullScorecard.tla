---------------------------- MODULE FullScorecard ----------------------------
(***************************************************************************)
(* The scores of all configured entities, computed from the periods that   *)
(* the store holds (scorecard.go): cfg is the hierarchy of identifiers,    *)
(* data the periods of each stored team.                                   *)
(*                                                                         *)
(* A period here has its counters, which ScoringPeriods leaves out.  The   *)
(* order of organizations, pillars, teams and periods is left out.         *)
(***************************************************************************)
EXTENDS Scoring, ScoringPeriods

CONSTANT ActivityTypes  \* the values of the issues' Activity Type field

ASSUME ActivityTypesAssumption == IsFiniteSet(ActivityTypes)

Period == [setType: SetTypes, window: TimeWindow, issues: [ActivityTypes -> Nat],
           total: Nat, categorized: Nat, distribution: ActivityDistribution]

\* The period a query fills, before the issues it finds are added.
EmptyPeriod(p) ==
    [setType |-> p.setType, window |-> p.window,
     issues |-> [a \in ActivityTypes |-> 0],
     total |-> 0, categorized |-> 0, distribution |-> NoIssues]

\* Faulty variant: a period is kept when it lies in the range as a whole.
FilterPeriodsInside(ps, filter) ==
    { p \in ps :
        /\ filter.status # "" => p.setType = filter.status
        /\ p.setType = "closed" =>
             /\ filter.start # NoDate => p.window.since >= filter.start
             /\ filter.end # NoDate => p.window.until <= filter.end }

\* A closed period is kept when its window meets the dates.
FilterPeriods(ps, filter) ==
    { p \in ps :
        /\ filter.status # "" => p.setType = filter.status
        /\ p.setType = "closed" =>
             /\ filter.start # NoDate => p.window.until >= filter.start
             /\ filter.end # NoDate => p.window.since <= filter.end }

MergeDistribution(ps) ==
    [c \in Counters |-> SumFunction([p \in ps |-> p.distribution[c]])]

\* The issues of some periods.
TotalOf(ps) == SumFunction([p \in ps |-> p.total])

PeriodsScore(ps) ==
    ComputeScore(TotalOf(ps), SumFunction([p \in ps |-> p.categorized]), MergeDistribution(ps))

\* Faulty variant: the closed section has the other periods too.
ComputeTeamScoreUnsplit(t, ps) ==
    [ identifier |-> t,
      score |-> PeriodsScore(ps),
      sections |-> [s \in {p.setType : p \in ps} |->
                      PeriodsScore(IF s = "closed" THEN ps ELSE {p \in ps : p.setType = s})],
      periods |-> {[period |-> p, score |-> PeriodsScore({p})] : p \in ps} ]

\* A section is there when it has a period.
ComputeTeamScore(t, ps) ==
    [ identifier |-> t,
      score |-> PeriodsScore(ps),
      sections |-> [s \in {p.setType : p \in ps} |->
                      PeriodsScore({p \in ps : p.setType = s})],
      periods |-> {[period |-> p, score |-> PeriodsScore({p})] : p \in ps} ]

ComputePillarScore(p, teamScores) ==
    [identifier |-> p, score |-> WeightedAverage(teamScores), teams |-> teamScores]

ComputeOrgScore(o, pillarScores) ==
    [identifier |-> o, score |-> WeightedAverage(pillarScores), pillars |-> pillarScores]

\* A team the store has no data for has no periods.
TeamPeriods(data, t) == IF t \in DOMAIN data THEN data[t] ELSE {}

ComputeFullScorecard(cfg, data, filter) ==
    { ComputeOrgScore(o,
        { ComputePillarScore(p,
            { ComputeTeamScore(t, FilterPeriods(TeamPeriods(data, t), filter))
              : t \in cfg.teamsOf[p] })
          : p \in cfg.pillarsOf[o] })
      : o \in cfg.orgs }
=============================================================================
