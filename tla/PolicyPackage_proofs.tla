------------------------ MODULE PolicyPackage_proofs ------------------------
(***************************************************************************)
(* What acceptance promises, for every bundle: the consequences the rules  *)
(* of the four documents have together.  None of them needs an induction   *)
(* over the changes of a bundle but the last, which needs the amounts to   *)
(* be numbers.                                                             *)
(***************************************************************************)
EXTENDS PolicyPackage, TLAPS

(* A requirement of an accepted bundle that covers a mandatory item rests   *)
(* on grounding evidence of the item's unit.                                *)
LEMMA MandatoryIsBacked ==
    ASSUME Accepted,
           NEW c \in DOMAIN plan.items, plan.items[c].obligation = "mandatory",
           NEW q \in plan.items[c].requirements
    PROVE  /\ q \in DOMAIN package.requirements
           /\ package.requirements[q].coverage = c
           /\ package.requirements[q].obligation = "mandatory"
           /\ q \in package.sections[package.requirements[q].section]
           /\ IsBacked(q, plan.items[c].unit)
<1>1. q \in DOMAIN package.requirements /\ package.requirements[q].coverage = c
  BY DEF Accepted, ItemsAreCovered
<1>2. /\ package.requirements[q].obligation = "mandatory"
      /\ package.requirements[q].evidence \subseteq plan.items[c].evidence
  BY <1>1 DEF Accepted, RequirementsCover
<1>3. /\ package.requirements[q].evidence # {}
      /\ q \in package.sections[package.requirements[q].section]
  BY <1>1, <1>2 DEF Accepted, PackageIsValid, RequirementIsValid
<1>4. PICK e \in package.requirements[q].evidence : TRUE
  BY <1>3
<1>5. /\ e \in DOMAIN package.evidence
      /\ package.evidence[e].unit = plan.items[c].unit
      /\ package.evidence[e].role = "grounding"
  BY <1>2, <1>4 DEF Accepted, ItemsAreCovered
<1> QED BY <1>1, <1>2, <1>3, <1>4, <1>5 DEF IsBacked

(* Of an accepted bundle: every applicable mandatory unit is backed, every  *)
(* undecided mandatory unit has its gap.                                    *)
LEMMA AcceptedIsBacked == CoverageIsBacked
<1> SUFFICES ASSUME Accepted,
                    NEW c \in DOMAIN plan.items, plan.items[c].obligation = "mandatory"
             PROVE  /\ plan.items[c].disposition = "applicable" =>
                          \E q \in DOMAIN package.requirements :
                              /\ package.requirements[q].coverage = c
                              /\ package.requirements[q].obligation = "mandatory"
                              /\ q \in package.sections[package.requirements[q].section]
                              /\ IsBacked(q, plan.items[c].unit)
                    /\ plan.items[c].disposition \in {"conditional", "undetermined"} =>
                          \E g \in DOMAIN plan.gaps :
                              plan.gaps[g] = plan.items[c].unit /\ g \in plan.items[c].gaps
  BY DEF CoverageIsBacked
<1>1. ItemIsValid(plan.items[c], DOMAIN plan.gaps) /\ GapsAreLinked(plan)
  BY DEF Accepted, PlanIsValid
<1>2. ASSUME plan.items[c].disposition = "applicable"
      PROVE  \E q \in DOMAIN package.requirements :
                /\ package.requirements[q].coverage = c
                /\ package.requirements[q].obligation = "mandatory"
                /\ q \in package.sections[package.requirements[q].section]
                /\ IsBacked(q, plan.items[c].unit)
  <2>1. PICK q \in plan.items[c].requirements : TRUE
    BY <1>1, <1>2 DEF ItemIsValid
  <2> QED BY <2>1, MandatoryIsBacked
<1>3. ASSUME plan.items[c].disposition \in {"conditional", "undetermined"}
      PROVE  \E g \in DOMAIN plan.gaps :
                plan.gaps[g] = plan.items[c].unit /\ g \in plan.items[c].gaps
  <2>1. plan.items[c].gaps # {} /\ plan.items[c].gaps \subseteq DOMAIN plan.gaps
    BY <1>1, <1>3 DEF ItemIsValid
  <2>2. PICK g \in plan.items[c].gaps : g \in DOMAIN plan.gaps
    BY <2>1
  <2> QED BY <1>1, <2>2 DEF GapsAreLinked
<1> QED BY <1>2, <1>3

(* Of an accepted bundle: each requirement has its one section, its one     *)
(* item and that item's evidence, each gap its one item.                    *)
LEMMA AcceptedLinksAgree == LinksAgree
<1> SUFFICES ASSUME Accepted
             PROVE  /\ \A q \in DOMAIN package.requirements :
                          /\ \E s \in DOMAIN package.sections :
                                \A other \in DOMAIN package.sections :
                                    q \in package.sections[other] <=> other = s
                          /\ \E c \in DOMAIN plan.items :
                                /\ \A other \in DOMAIN plan.items :
                                      q \in plan.items[other].requirements <=> other = c
                                /\ \A e \in package.requirements[q].evidence :
                                      /\ package.evidence[e].unit = plan.items[c].unit
                                      /\ package.evidence[e].role = "grounding"
                    /\ \A g \in DOMAIN plan.gaps :
                          \E c \in DOMAIN plan.items :
                              \A other \in DOMAIN plan.items : g \in plan.items[other].gaps <=> other = c
  BY DEF LinksAgree
<1>1. ASSUME NEW q \in DOMAIN package.requirements
      PROVE  \E s \in DOMAIN package.sections :
                \A other \in DOMAIN package.sections : q \in package.sections[other] <=> other = s
  <2>1. /\ package.requirements[q].section \in DOMAIN package.sections
        /\ q \in package.sections[package.requirements[q].section]
    BY <1>1 DEF Accepted, PackageIsValid, RequirementIsValid
  <2>2. \A other \in DOMAIN package.sections :
            q \in package.sections[other] => package.requirements[q].section = other
    BY DEF Accepted, PackageIsValid, SectionsAreValid
  <2> QED BY <2>1, <2>2
<1>2. ASSUME NEW q \in DOMAIN package.requirements
      PROVE  \E c \in DOMAIN plan.items :
                /\ \A other \in DOMAIN plan.items :
                      q \in plan.items[other].requirements <=> other = c
                /\ \A e \in package.requirements[q].evidence :
                      /\ package.evidence[e].unit = plan.items[c].unit
                      /\ package.evidence[e].role = "grounding"
  <2> DEFINE c == package.requirements[q].coverage
  <2>1. /\ c \in DOMAIN plan.items
        /\ q \in plan.items[c].requirements
        /\ package.requirements[q].evidence \subseteq plan.items[c].evidence
    BY <1>2 DEF Accepted, RequirementsCover
  <2>2. \A other \in DOMAIN plan.items : q \in plan.items[other].requirements => c = other
    BY DEF Accepted, ItemsAreCovered
  <2>3. \A e \in plan.items[c].evidence :
            package.evidence[e].unit = plan.items[c].unit /\ package.evidence[e].role = "grounding"
    BY <2>1 DEF Accepted, ItemsAreCovered
  <2> HIDE DEF c
  <2> QED BY <2>1, <2>2, <2>3
<1>3. ASSUME NEW g \in DOMAIN plan.gaps
      PROVE  \E c \in DOMAIN plan.items :
                \A other \in DOMAIN plan.items : g \in plan.items[other].gaps <=> other = c
  <2>1. PICK c \in DOMAIN plan.items : plan.items[c].unit = plan.gaps[g] /\ g \in plan.items[c].gaps
    BY <1>3 DEF Accepted, PlanIsValid, GapsAreLinked
  <2>2. \A other \in DOMAIN plan.items :
            g \in plan.items[other].gaps => plan.items[other].unit = plan.items[c].unit
    BY <1>3, <2>1 DEF Accepted, PlanIsValid, GapsAreLinked
  <2>3. \A other \in DOMAIN plan.items : plan.items[other].unit = plan.items[c].unit => other = c
    BY <2>1 DEF Accepted, PlanIsValid
  <2> QED BY <2>1, <2>2, <2>3
<1> QED BY <1>1, <1>2, <1>3

(* Every applicable mandatory unit of every accepted bundle is backed.      *)
THEOREM Backed == Spec => []CoverageIsBacked
<1>1. CoverageIsBacked BY AcceptedIsBacked
<1> QED BY <1>1, PTL

(* The four documents of every accepted bundle agree on who belongs to whom. *)
THEOREM Agreed == Spec => []LinksAgree
<1>1. LinksAgree BY AcceptedLinksAgree
<1> QED BY <1>1, PTL

(* The quote is one of the quotes. *)
THEOREM QuoteIsTyped == Spec => [](quote \in Quotes)
<1>1. Init => quote \in Quotes
  BY DEF Init, TypeOK
<1>2. quote \in Quotes /\ [Next]_vars => (quote \in Quotes)'
  BY DEF Next, Edit, EditProfile, EditPlan, EditPackage, EditQuote, vars
<1> QED BY <1>1, <1>2, PTL DEF Spec

(* The ceiling of an amount is at least it and less than a cent above.      *)
LEMMA CeilingBounds ==
    ASSUME NEW raw \in Nat
    PROVE  /\ CeilingCents(raw) \in Nat
           /\ raw <= CeilingCents(raw) * 10000
           /\ CeilingCents(raw) * 10000 < raw + 10000
<1> QED BY SMT DEF CeilingCents

(* What is reserved bounds what is spent: above the estimate, within the    *)
(* cap, less than a cent too much.                                          *)
THEOREM QuoteBounded == Spec => []QuoteIsBounded
<1>1. quote \in Quotes => QuoteIsBounded
  <2> SUFFICES ASSUME quote \in Quotes, Accepted, quote.status = "estimate_only"
               PROVE  /\ quote.estimated <= quote.reserved * 10000
                      /\ quote.reserved * 10000 < quote.raw + 10000
                      /\ quote.reserved <= quote.cap
    BY DEF QuoteIsBounded
  <2>1. quote.raw \in Nat /\ quote.estimated \in Nat /\ quote.reserved \in Nat /\ quote.cap \in Nat
    BY PackageAssumption DEF AnyQuote
  <2>2. /\ quote.estimated <= quote.raw
        /\ quote.reserved = CeilingCents(quote.raw)
        /\ quote.reserved <= quote.cap
    BY DEF Accepted, QuoteIsValid
  <2>3. /\ quote.raw <= quote.reserved * 10000
        /\ quote.reserved * 10000 < quote.raw + 10000
    BY <2>1, <2>2, CeilingBounds
  <2> QED BY <2>1, <2>2, <2>3
<1> QED BY <1>1, QuoteIsTyped, PTL
=============================================================================
