---------------------------- MODULE MCPolicyInput ----------------------------
(* Instances of PolicyInput for TLC.                                       *)
EXTENDS PolicyInput, TLC

CONSTANTS acme, eu, iso, access

Plain(word) == [word |-> word, spelling |-> "lower"]
Capital(word) == [word |-> word, spelling |-> "upper"]
Exclusion(kind, name) == [kind |-> kind, name |-> name]

Confirmed(value) == [value |-> value, confidence |-> "confirmed"]
Qualified(value) == [value |-> value, confidence |-> "qualified"]

(* Everything that is material, so that it can be approved at once, an     *)
(* instrument that is left out, and an answer besides.                     *)
Complete ==
  [policy_type |-> Confirmed(access), coverage_mode |-> Confirmed(RiskBased),
   exclusions |-> Confirmed({Exclusion("instrument", Capital(iso))}),
   legal_entities |-> Confirmed({Plain(acme)}), jurisdictions |-> Confirmed({Plain(eu)}),
   language |-> Confirmed(eu), size_band |-> Qualified(access)]

(* Leaves nothing out and asks for an instrument, which Complete would now *)
(* contradict; takes one answer back, and gives another that can be        *)
(* approved but is too long for an envelope.                               *)
Widened ==
  [exclusions |-> Confirmed({}), requested_instruments |-> Confirmed({Plain(iso)}),
   size_band |-> None, language |-> Confirmed(TooLong)]

TakenBack == [policy_type |-> None]

(* Answers the handler refuses. *)
Malformed == [requested_instruments |-> Confirmed({Plain(iso), Capital(iso)})]
Unsaid == [language |-> Confirmed(Blank)]

AuditPatches == {Complete, TakenBack}

InputPatches == {Complete, Widened, Malformed, Unsaid}

Facts(country) == [country |-> country, sector |-> None, data_types |-> None]

Section(content) == [status |-> "accepted", content |-> content]

Item(content, evidence, families) ==
  [status |-> "completed", content |-> content, evidence |-> evidence, families |-> families]

Final(plan, size, items) ==
  [plan |-> plan, status |-> "ready", ready |-> TRUE, size |-> size,
   sections |-> {Section(access)}, items |-> items]

Security(gaps, country, business) ==
  [gaps |-> gaps, families |-> {Blank}, facts |-> Facts(country), business |-> business]

Doc(plan, ready, prompt, language, final, security) ==
  [plan |-> plan, ready |-> ready, prompt |-> prompt, language |-> language,
   final |-> final, security |-> security]

(* A task that says something, and two that name evidence only. *)
Told == Item(access, {Blank}, {iso, Blank})
Shown == Item(Blank, {access, Blank}, {iso})
Listed == Item(Empty, {access}, {iso, acme, eu})

(* The first plan handed over; its tasks done again, with more families    *)
(* than the contract takes; the second plan, which neither a prompt nor a  *)
(* legacy payload can carry.                                               *)
InputDocs ==
  {Doc("first", TRUE, "fits", eu, Final("first", "fits", {Told}),
       Security({Blank}, Plain(eu), "fits")),
   Doc("first", FALSE, "fits", eu, Final("first", "fits", {Told, Listed}),
       Security({}, Plain(eu), "fits")),
   Doc("second", TRUE, "long", TooLong, Final("second", "long", {Told, Shown}),
       Security({}, Capital(eu), "large"))}

Symmetric == Permutations(Requests)
=============================================================================
