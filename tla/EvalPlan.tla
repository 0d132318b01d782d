------------------------------ MODULE EvalPlan ------------------------------
(***************************************************************************)
(* The plan of an evaluation (eval/planner.py): every workload with every  *)
(* policy, the baselines, the candidates and the policies that the         *)
(* selected profiles make of the axes' options.  A matrix has "workloads"  *)
(* ([name, tags, judged]), "baselines" and "candidates" ([name, tags]),    *)
(* "axes" (axis to sequence of [name, tags]) and "profiles" (name to       *)
(* [tags, include], include a sequence of [axis, names]).  Names are       *)
(* sequences of words, joined with "__" by \o, that begin and end with a   *)
(* letter or a digit.                                                      *)
(***************************************************************************)
EXTENDS Integers, Sequences, FiniteSets, FiniteSetsExt, SequencesExt

CONSTANT SlugOf     \* word to the word in lower case, with "_" for what is no letter or digit

NamesOf(list) == [i \in DOMAIN list |-> list[i].name]
Distinct(s) == \A m, n \in DOMAIN s : m # n => s[m] # s[n]

\* _slug: "A-b", "a b" and "a_b" become one.
Slug(name) == [i \in DOMAIN name |-> SlugOf[name[i]]]

\* load_eval_matrix compares the names as they are written.
ValidMatrix(cfg) ==
    \A list \in {cfg.workloads, cfg.baselines, cfg.candidates} : Distinct(NamesOf(list))

BaselinePolicies(cfg) ==
    [i \in DOMAIN cfg.baselines |->
        [name |-> cfg.baselines[i].name, kind |-> "baseline",
         tags |-> {"baseline"} \cup cfg.baselines[i].tags, settings |-> <<>>]]
CandidatePolicies(cfg) ==
    [i \in DOMAIN cfg.candidates |->
        [name |-> cfg.candidates[i].name, kind |-> "candidate",
         tags |-> {"candidate"} \cup cfg.candidates[i].tags, settings |-> <<>>]]

\* _axis_options raises for an axis that is not there or has a name twice.
AxisIsGood(cfg, axis) == axis \in DOMAIN cfg.axes /\ Distinct(NamesOf(cfg.axes[axis]))
Option(cfg, axis, name) == SelectSeq(cfg.axes[axis], LAMBDA o : o.name = name)[1]

ProfileIsGood(cfg, p) ==
    /\ p \in DOMAIN cfg.profiles
    /\ \A part \in ToSet(cfg.profiles[p].include) :
          /\ AxisIsGood(cfg, part.axis)
          /\ ToSet(part.names) \subseteq ToSet(NamesOf(cfg.axes[part.axis]))

\* Faulty variant of CombosOf: the axes' options are paired, not multiplied.
CombosZipped(cfg, include) ==
    LET shortest == Min({Len(include[i].names) : i \in DOMAIN include})
    IN [n \in 1 .. shortest |-> [i \in DOMAIN include |-> Option(cfg, include[i].axis, include[i].names[n])]]

\* itertools.product: the last axis varies fastest.
CombosOf(cfg, include) ==
    LET Extend(combos, part) ==
            FlattenSeq([c \in DOMAIN combos |-> [n \in DOMAIN part.names |->
                Append(combos[c], Option(cfg, part.axis, part.names[n]))]])
    IN FoldLeft(Extend, <<<<>>>>, include)

\* A profile without axes is one policy without settings.
ProfilePolicies(cfg, p) ==
    LET include == cfg.profiles[p].include
        own == {"profile", p} \cup cfg.profiles[p].tags
        choices == CombosOf(cfg, include)
    IN IF include = <<>> THEN <<[name |-> <<p>>, kind |-> "profile", tags |-> own, settings |-> <<>>]>>
       ELSE [c \in DOMAIN choices |->
                [name |-> <<p>> \o FlattenSeq(NamesOf(choices[c])), kind |-> "profile",
                 tags |-> own \cup UNION {o.tags : o \in ToSet(choices[c])},
                 settings |-> [i \in DOMAIN include |->
                    [axis |-> include[i].axis, option |-> choices[c][i].name]]]]

\* request: [profiles, tags, baselines, candidates]; no profiles means all.
SelectedProfiles(cfg, request) ==
    IF request.profiles = <<>> THEN cfg.profileOrder ELSE request.profiles

AllPolicies(cfg, request) ==
    LET profiles == SelectedProfiles(cfg, request)
    IN (IF request.baselines THEN BaselinePolicies(cfg) ELSE <<>>)
       \o (IF request.candidates THEN CandidatePolicies(cfg) ELSE <<>>)
       \o FlattenSeq([i \in DOMAIN profiles |-> ProfilePolicies(cfg, profiles[i])])

Policies(cfg, request) ==
    SelectSeq(AllPolicies(cfg, request),
              LAMBDA p : request.tags = {} \/ p.tags \cap request.tags # {})
\* A workload without tags is in every selection.
Workloads(cfg, request) ==
    SelectSeq(cfg.workloads,
              LAMBDA w : request.tags = {} \/ w.tags = {} \/ w.tags \cap request.tags # {})

Refused == <<[id |-> <<>>]>>

BuildEvalPlan(cfg, request) ==
    LET policies == Policies(cfg, request)
        workloads == Workloads(cfg, request)
        run(w, p) == [id |-> Slug(w.name) \o Slug(p.name), workload |-> w.name, policy |-> p.name,
                      tags |-> w.tags \cup p.tags]
    IN IF ~ValidMatrix(cfg) \/ \E p \in ToSet(SelectedProfiles(cfg, request)) : ~ProfileIsGood(cfg, p)
       THEN Refused
       ELSE FlattenSeq([i \in DOMAIN workloads |->
                [j \in DOMAIN policies |-> run(workloads[i], policies[j])]])

\* write_eval_plan: two judge configurations for each workload that has an
\* input and a profile, whatever the plan selected; of workloads with one slug
\* the last one's are kept.
JudgeFiles(cfg) ==
    {Slug(w.name) \o <<mode>> : w \in {v \in ToSet(cfg.workloads) : v.judged}, mode \in {"smoke", "final"}}

\* No two workloads, no two policies or profiles, and no two options of an axis
\* have names with one slug, none holds a "__" of its own, and nothing is
\* selected twice.
NamesAreApart(cfg, request) ==
    LET policies == NamesOf(cfg.baselines) \o NamesOf(cfg.candidates)
                    \o [i \in DOMAIN cfg.profileOrder |-> <<cfg.profileOrder[i]>>]
        apart(names) ==
            /\ \A name \in ToSet(names) : Len(name) = 1
            /\ Distinct([i \in DOMAIN names |-> Slug(names[i])])
    IN /\ apart(NamesOf(cfg.workloads)) /\ apart(policies) /\ Distinct(request.profiles)
       /\ \A p \in ToSet(SelectedProfiles(cfg, request)) :
             \A part \in ToSet(cfg.profiles[p].include) :
                apart(NamesOf(cfg.axes[part.axis])) /\ Distinct(part.names)

\* "id" tells the runs of a plan apart (EvalRun); names that differ in case or
\* punctuation alone are accepted by load_eval_matrix and have one.
RunIdsDiffer(cfg, request) ==
    LET plan == BuildEvalPlan(cfg, request)
    IN Distinct([n \in DOMAIN plan |-> plan[n].id])

\* "Expand a high-level matrix into concrete workload x policy cells": a plan
\* has every choice of one option from each axis of each profile with every
\* workload; what tags select of it is what the whole plan has of the workloads
\* and policies with those tags; and where the configured names are apart, so
\* are the ids of all that is made of them.
PlanIsComplete(cfg, request) ==
    LET plan == BuildEvalPlan(cfg, request)
        whole == BuildEvalPlan(cfg, [request EXCEPT !.tags = {}])
        cells(runs) == {<<r.workload, r.policy>> : r \in ToSet(runs)}
        wanted(p) == {<<p>> \o FlattenSeq(c) : c \in
            {d \in [DOMAIN cfg.profiles[p].include ->
                        UNION {ToSet(x.names) : x \in ToSet(cfg.profiles[p].include)}] :
                \A i \in DOMAIN d : d[i] \in ToSet(cfg.profiles[p].include[i].names)}}
    IN plan # Refused =>
       /\ NamesAreApart(cfg, request) => RunIdsDiffer(cfg, request)
       /\ cells(plan) \subseteq cells(whole)
       /\ \A w \in ToSet(cfg.workloads), p \in ToSet(SelectedProfiles(cfg, request)) :
             \A name \in wanted(p) : <<w.name, name>> \in cells(whole)
       /\ \A r \in ToSet(whole) :
             (/\ \E p \in ToSet(AllPolicies(cfg, request)) : p.name = r.policy /\ p.tags \cap request.tags # {}
              /\ \E w \in ToSet(cfg.workloads) : w.name = r.workload /\ w.tags \cap request.tags # {})
             => <<r.workload, r.policy>> \in cells(plan)
=============================================================================
