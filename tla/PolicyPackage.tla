---------------------------- MODULE PolicyPackage ----------------------------
(***************************************************************************)
(* The four documents of a structured policy proposal and the rules that   *)
(* accept them together (contracts/policy_package_v1.py): the generation   *)
(* profile, the coverage plan, the policy package and the budget quote.    *)
(*                                                                         *)
(* The validators are pure, so the documents are what moves here: a        *)
(* proposer takes a bundle and changes one link or one value after         *)
(* another, and the rules judge every bundle that results.                 *)
(*                                                                         *)
(* A list of records with ids is a function on its ids, and a list of ids  *)
(* a set: a repeated id is refused before anything else is looked at.      *)
(* Texts, hashes, digests, sizes and unknown fields are left out, with the *)
(* records made of them alone (assumptions, exclusions, errors, the        *)
(* conflicts of a package).                                                *)
(***************************************************************************)
EXTENDS Integers, FiniteSets, Functions

CONSTANTS
    Units,           \* source units
    CoverageIds, RequirementIds, EvidenceIds, SectionIds, GapIds, ActionIds,
    ConflictIds,
    Keys,            \* ids of profiles, plans and revisions, hashes
    None,            \* the JSON null
    Items, Requirements, Evidence,   \* the records a proposer writes
    Quotes,          \* the quotes it makes
    Limits,          \* the limits of a profile
    MaxEdits         \* bound: changes of one bundle

Obligations == {"mandatory", "optional"}
Dispositions == {"applicable", "conditional", "not_applicable", "undetermined"}
BlockReasons == {"insufficient_budget", "unknown_price", "missing_scope", "unavailable_provider"}

(* The fields of a coverage item, a requirement, a piece of evidence (a     *)
(* reason: why no action, why a candidate) and a quote (millionths, cents). *)
AnyItem ==
    [unit : Units, disposition : Dispositions, obligation : Obligations,
     evidence : SUBSET EvidenceIds, requirements : SUBSET RequirementIds,
     review : BOOLEAN, gaps : SUBSET GapIds]

AnyRequirement ==
    [section : SectionIds, coverage : CoverageIds, obligation : Obligations,
     evidence : SUBSET EvidenceIds, actions : SUBSET ActionIds, reason : BOOLEAN]

AnyEvidence == [unit : Units, role : {"grounding", "candidate"}, reason : BOOLEAN]

AnyQuote ==
    [profile : Keys, plan : Keys, request : Keys, estimated : Nat, raw : Nat,
     reserved : Nat, cap : Nat, estimatedCalls : Nat, maxCalls : Nat,
     status : {"estimate_only", "blocked"}, reason : BlockReasons \cup {None}]

ASSUME PackageAssumption ==
    /\ None \notin Keys \cup BlockReasons
    /\ \A item \in Items : item \in AnyItem
    /\ \A requirement \in Requirements : requirement \in AnyRequirement
    /\ \A record \in Evidence : record \in AnyEvidence
    /\ \A q \in Quotes : q \in AnyQuote
    /\ MaxEdits \in Nat

VARIABLES
    profile, plan, package, quote,
    edits   \* changes made so far

vars == <<profile, plan, package, quote, edits>>

(* What the limits may be at most. *)
Ceiling == [sections |-> 64, requirements |-> 256, evidence |-> 256]

(* validate_generation_profile_v1. *)
ProfileIsValid(p) == \A name \in DOMAIN Ceiling : p.limits[name] \in 1 .. Ceiling[name]

(***************************************************************************)
(* The coverage plan.                                                      *)
(***************************************************************************)
ItemIsValid(item, gaps) ==
    /\ item.gaps \subseteq gaps
    /\ item.review <=> item.gaps # {}
    /\ item.obligation = "mandatory" /\ item.disposition \in {"conditional", "undetermined"}
          => item.review
    /\ item.obligation = "mandatory" /\ item.disposition = "applicable"
          => item.requirements # {}
    /\ item.disposition \in {"not_applicable", "undetermined"} => item.requirements = {}

PlannedUnits(p) == {p.items[c].unit : c \in DOMAIN p.items}

(* Every gap is listed by the item of its unit, and an item lists no other. *)
GapsOneWay(p) ==   \* mutant: an item may list another unit's gap
    \A g \in DOMAIN p.gaps :
        \E c \in DOMAIN p.items : p.items[c].unit = p.gaps[g] /\ g \in p.items[c].gaps

GapsAreLinked(p) ==
    /\ \A g \in DOMAIN p.gaps :
          \E c \in DOMAIN p.items : p.items[c].unit = p.gaps[g] /\ g \in p.items[c].gaps
    /\ \A c \in DOMAIN p.items : \A g \in DOMAIN p.gaps \cap p.items[c].gaps :
          p.gaps[g] = p.items[c].unit

(* validate_coverage_plan_v1. *)
PlanIsValid(p) ==
    /\ DOMAIN p.items # {}
    /\ \A c, d \in DOMAIN p.items : p.items[c].unit = p.items[d].unit => c = d
    /\ \A c \in DOMAIN p.items : ItemIsValid(p.items[c], DOMAIN p.gaps)
    /\ \A k \in DOMAIN p.conflicts : p.conflicts[k] \subseteq PlannedUnits(p)
    /\ GapsAreLinked(p)

(***************************************************************************)
(* The policy package.                                                     *)
(***************************************************************************)
RequirementIsValid(q, p) ==
    LET requirement == p.requirements[q] IN
    /\ requirement.section \in DOMAIN p.sections
    /\ requirement.evidence \subseteq DOMAIN p.evidence
    /\ requirement.actions \subseteq DOMAIN p.actions
    /\ requirement.reason <=> requirement.actions = {}
    /\ requirement.obligation = "mandatory" => requirement.evidence # {}
    /\ q \in p.sections[requirement.section]

SectionsAreValid(p) ==
    \A s \in DOMAIN p.sections : \A q \in p.sections[s] :
        q \in DOMAIN p.requirements /\ p.requirements[q].section = s

ActionsAreValid(p) ==
    \A a \in DOMAIN p.actions :
        p.actions[a] \in DOMAIN p.requirements /\ a \in p.requirements[p.actions[a]].actions

(* validate_policy_package_v1. *)
PackageIsValid(p) ==
    /\ p.previous # p.revision
    /\ DOMAIN p.sections # {} /\ DOMAIN p.requirements # {}
    /\ SectionsAreValid(p)
    /\ \A q \in DOMAIN p.requirements : RequirementIsValid(q, p)
    /\ \A e \in DOMAIN p.evidence : p.evidence[e].reason <=> p.evidence[e].role = "candidate"
    /\ ActionsAreValid(p)

(***************************************************************************)
(* The budget quote.                                                       *)
(***************************************************************************)

(* quantize(0.01, ROUND_CEILING) of an amount in millionths. *)
NearestCents(raw) == (raw + 5000) \div 10000   \* mutant: rounds to the nearest cent

CeilingCents(raw) == (raw + 9999) \div 10000

(* Mutant: the cap is compared with the estimate, not with what is reserved. *)
CapOnEstimate(q) ==
    /\ q.estimated <= q.raw
    /\ q.reserved = CeilingCents(q.raw)
    /\ q.estimatedCalls <= q.maxCalls
    /\ q.status = "blocked" =>
          /\ q.reason \in BlockReasons
          /\ q.reason = "insufficient_budget" => q.reserved > q.cap
    /\ q.status # "blocked" => q.reason = None /\ q.estimated <= q.cap * 10000

(* validate_generation_budget_quote_v1. *)
QuoteIsValid(q) ==
    /\ q.estimated <= q.raw
    /\ q.reserved = CeilingCents(q.raw)
    /\ q.estimatedCalls <= q.maxCalls
    /\ q.status = "blocked" =>
          /\ q.reason \in BlockReasons
          /\ q.reason = "insufficient_budget" => q.reserved > q.cap
    /\ q.status # "blocked" => q.reason = None /\ q.reserved <= q.cap

(***************************************************************************)
(* The bundle.                                                             *)
(***************************************************************************)

(* One request, one profile, one plan and one source inventory. *)
IsBound ==
    /\ \A part \in {plan, package, quote} :
          part.request = profile.request /\ part.profile = profile.id
    /\ package.plan = plan.id /\ quote.plan = plan.id
    /\ package.inventory = plan.inventory

PlannedEvidence == UNION {plan.items[c].evidence : c \in DOMAIN plan.items}

UsedEvidence == UNION {package.requirements[q].evidence : q \in DOMAIN package.requirements}

(* A candidate is of no planned unit, planned by none and used by none;     *)
(* grounding is of a planned unit and planned.                              *)
EvidenceIsPlanned ==
    \A e \in DOMAIN package.evidence :
        IF package.evidence[e].role = "candidate"
        THEN /\ package.evidence[e].unit \notin PlannedUnits(plan)
             /\ e \notin PlannedEvidence \cup UsedEvidence
        ELSE /\ package.evidence[e].unit \in PlannedUnits(plan)
             /\ e \in PlannedEvidence

(* A requirement against the item it covers. *)
RequirementsAnyObligation ==   \* mutant: the obligation is not compared
    \A q \in DOMAIN package.requirements :
        LET requirement == package.requirements[q] IN
        /\ requirement.coverage \in DOMAIN plan.items
        /\ q \in plan.items[requirement.coverage].requirements
        /\ requirement.evidence \subseteq plan.items[requirement.coverage].evidence

RequirementsCover ==
    \A q \in DOMAIN package.requirements :
        LET requirement == package.requirements[q]
            item == plan.items[requirement.coverage]
        IN
        /\ requirement.coverage \in DOMAIN plan.items
        /\ q \in item.requirements
        /\ requirement.obligation = item.obligation
        /\ requirement.evidence \subseteq item.evidence

(* An item against the requirements and the evidence it lists. *)
ItemsAreCovered ==
    \A c \in DOMAIN plan.items :
        LET item == plan.items[c] IN
        /\ \A q \in item.requirements :
              q \in DOMAIN package.requirements /\ package.requirements[q].coverage = c
        /\ \A e \in item.evidence :
              /\ e \in DOMAIN package.evidence
              /\ package.evidence[e].unit = item.unit
              /\ package.evidence[e].role = "grounding"

WithinLimits ==
    /\ Cardinality(DOMAIN package.sections) <= profile.limits.sections
    /\ Cardinality(DOMAIN package.requirements) <= profile.limits.requirements
    /\ Cardinality(DOMAIN package.evidence) <= profile.limits.evidence

(* validate_package_bundle_v1 returns. *)
Accepted ==
    /\ ProfileIsValid(profile) /\ PlanIsValid(plan)
    /\ PackageIsValid(package) /\ QuoteIsValid(quote)
    /\ IsBound
    /\ EvidenceIsPlanned /\ RequirementsCover /\ ItemsAreCovered
    /\ WithinLimits

(***************************************************************************)
(* The proposer: any accepted bundle, then one change after another.       *)
(***************************************************************************)

(* Records under some of these ids. *)
Under(ids, records) == UNION {[some -> records] : some \in SUBSET ids}

Put(f, id, record) == [i \in DOMAIN f \cup {id} |-> IF i = id THEN record ELSE f[i]]

Without(f, id) == Restrict(f, DOMAIN f \ {id})

(* The shape of the four documents. *)
TypeOK ==
    /\ profile \in [id : Keys, request : Keys, limits : Limits]
    /\ plan \in [id : Keys, profile : Keys, request : Keys, inventory : Keys,
                  items : Under(CoverageIds, Items), gaps : Under(GapIds, Units),
                  conflicts : Under(ConflictIds, SUBSET Units)]
    /\ package \in [revision : Keys, previous : Keys \cup {None}, profile : Keys,
                     plan : Keys, request : Keys, inventory : Keys,
                     sections : Under(SectionIds, SUBSET RequirementIds),
                     requirements : Under(RequirementIds, Requirements),
                     evidence : Under(EvidenceIds, Evidence),
                     actions : Under(ActionIds, RequirementIds)]
    /\ quote \in Quotes
    /\ edits \in 0 .. MaxEdits

Init == TypeOK /\ Accepted /\ edits = 0

Edit ==
    /\ edits < MaxEdits
    /\ edits' = edits + 1

EditProfile ==
    /\ \/ \E key \in Keys : profile' = [profile EXCEPT !.id = key]
       \/ \E key \in Keys : profile' = [profile EXCEPT !.request = key]
       \/ \E limits \in Limits : profile' = [profile EXCEPT !.limits = limits]
    /\ UNCHANGED <<plan, package, quote>>

EditPlan ==
    /\ \/ \E c \in CoverageIds, item \in Items :
             plan' = [plan EXCEPT !.items = Put(plan.items, c, item)]
       \/ \E c \in CoverageIds : plan' = [plan EXCEPT !.items = Without(plan.items, c)]
       \/ \E g \in GapIds, u \in Units : plan' = [plan EXCEPT !.gaps = Put(plan.gaps, g, u)]
       \/ \E g \in GapIds : plan' = [plan EXCEPT !.gaps = Without(plan.gaps, g)]
       \/ \E k \in ConflictIds, units \in SUBSET Units :
             plan' = [plan EXCEPT !.conflicts = Put(plan.conflicts, k, units)]
       \/ \E key \in Keys : plan' = [plan EXCEPT !.inventory = key]
    /\ UNCHANGED <<profile, package, quote>>

EditPackage ==
    /\ \/ \E s \in SectionIds, listed \in SUBSET RequirementIds :
             package' = [package EXCEPT !.sections = Put(package.sections, s, listed)]
       \/ \E s \in SectionIds :
             package' = [package EXCEPT !.sections = Without(package.sections, s)]
       \/ \E q \in RequirementIds, requirement \in Requirements :
             package' = [package EXCEPT !.requirements = Put(package.requirements, q, requirement)]
       \/ \E q \in RequirementIds :
             package' = [package EXCEPT !.requirements = Without(package.requirements, q)]
       \/ \E e \in EvidenceIds, record \in Evidence :
             package' = [package EXCEPT !.evidence = Put(package.evidence, e, record)]
       \/ \E e \in EvidenceIds :
             package' = [package EXCEPT !.evidence = Without(package.evidence, e)]
       \/ \E a \in ActionIds, q \in RequirementIds :
             package' = [package EXCEPT !.actions = Put(package.actions, a, q)]
       \/ \E a \in ActionIds :
             package' = [package EXCEPT !.actions = Without(package.actions, a)]
       \/ \E key \in Keys : package' = [package EXCEPT !.previous = key]
    /\ UNCHANGED <<profile, plan, quote>>

EditQuote ==
    /\ quote' \in Quotes
    /\ UNCHANGED <<profile, plan, package>>

Next == Edit /\ (EditProfile \/ EditPlan \/ EditPackage \/ EditQuote)

Spec == Init /\ [][Next]_vars

(***************************************************************************)
(* Properties                                                              *)
(***************************************************************************)

(* What one requirement of an accepted bundle stands on: grounding evidence *)
(* of the very unit it covers.                                              *)
IsBacked(q, unit) ==
    \E e \in package.requirements[q].evidence :
        /\ e \in DOMAIN package.evidence
        /\ package.evidence[e].unit = unit
        /\ package.evidence[e].role = "grounding"

(* In an accepted bundle every unit that is applicable and mandatory has a  *)
(* mandatory requirement, listed by the section it names, and grounding     *)
(* evidence of that unit behind it; one that is mandatory and undecided has *)
(* a gap of its own.  No single rule says so: it takes the plan's, the      *)
(* package's and those of the bundle (validate_package_bundle_v1).          *)
CoverageIsBacked ==
    Accepted =>
        \A c \in DOMAIN plan.items :
            LET item == plan.items[c] IN
            item.obligation = "mandatory" =>
                /\ item.disposition = "applicable" =>
                      \E q \in DOMAIN package.requirements :
                          /\ package.requirements[q].coverage = c
                          /\ package.requirements[q].obligation = "mandatory"
                          /\ q \in package.sections[package.requirements[q].section]
                          /\ IsBacked(q, item.unit)
                /\ item.disposition \in {"conditional", "undetermined"} =>
                      \E g \in DOMAIN plan.gaps : plan.gaps[g] = item.unit /\ g \in item.gaps

(* In an accepted bundle every requirement stands in one section, is listed *)
(* by one item and rests on evidence of no other unit; every gap is listed  *)
(* by one item; and no requirement names a candidate as its ground.         *)
LinksAgree ==
    Accepted =>
        /\ \A q \in DOMAIN package.requirements :
              /\ \E s \in DOMAIN package.sections :
                    \A other \in DOMAIN package.sections :
                        q \in package.sections[other] <=> other = s
              /\ \E c \in DOMAIN plan.items :
                    /\ \A other \in DOMAIN plan.items :
                          q \in plan.items[other].requirements <=> other = c
                    /\ \A e \in package.requirements[q].evidence :
                          /\ package.evidence[e].unit = plan.items[c].unit
                          /\ package.evidence[e].role = "grounding"
        /\ \A g \in DOMAIN plan.gaps :
              \E c \in DOMAIN plan.items :
                  \A other \in DOMAIN plan.items : g \in plan.items[other].gaps <=> other = c

(* What an accepted quote that is not blocked reserves covers the estimate, *)
(* stays within the cap and is less than a cent above the bound it rounds.  *)
QuoteIsBounded ==
    Accepted /\ quote.status = "estimate_only" =>
        /\ quote.estimated <= quote.reserved * 10000
        /\ quote.reserved * 10000 < quote.raw + 10000
        /\ quote.reserved <= quote.cap
=============================================================================
