----------------------------- MODULE PolicyStore ----------------------------
(***************************************************************************)
(* The policies collection of policy-agent and the two handlers that write  *)
(* it: generate_policy_payload (look, run the agent, insert under a partial *)
(* unique index) and update_policy_payload (read and check, run the agent,  *)
(* conditional update on revision_count).  All of it is one organization:   *)
(* every query carries organization_id.                                     *)
(*                                                                         *)
(* A generated row is named by the request that inserts it.  Legacy rows    *)
(* were there before the index: they carry no generation_guard, may be      *)
(* duplicated, and may lack the authority marks.  What an agent writes is   *)
(* any text, the one it was given included.                                 *)
(***************************************************************************)
EXTENDS Naturals, Sequences, FiniteSets

CONSTANTS
  Generators,   \* POST /generate_policy requests
  Updaters,     \* POST /generate_policy/<context>/update requests
  LegacyRows,   \* rows that may be there from the start
  Contexts,
  Texts,
  NoRow

Rows == Generators \cup LegacyRows

ASSUME DisjointAssumption ==
  /\ Generators \cap LegacyRows = {}
  /\ NoRow \notin Rows \cup Updaters

VARIABLES
  rows,       \* documents of the policies collection
  gen,        \* per generator: where its handler stands
  upd,        \* per updater: where its handler stands
  history     \* history: what was stored in each row, and from what text

vars == <<rows, gen, upd, history>>

-----------------------------------------------------------------------------
Row == [live : BOOLEAN, context : Contexts, guard : BOOLEAN, authoritative : BOOLEAN,
        revision : Nat, text : Texts]

GenReplies == {"none", "created", "exists", "failed", "unavailable"}
UpdReplies == {"none", "revised", "not_found", "ambiguous", "not_authoritative",
               "conflict", "failed", "unavailable"}

Generation == [at : {"look", "run", "done"}, reply : GenReplies]
Update == [at : {"read", "run", "done"}, reply : UpdReplies, text : Texts,
           row : Rows \cup {NoRow}, revision : Nat]
Revision == [text : Texts, basis : Texts \cup {"none"}, by : Updaters \cup {NoRow}]

RowsOf(context) == {i \in Rows : rows[i].live /\ rows[i].context = context}

TypeOK ==
  /\ rows \in [Rows -> Row]
  /\ gen \in [Generators -> Generation]
  /\ upd \in [Updaters -> Update]
  /\ history \in [Rows -> Seq(Revision)]

Entry(t, basis, u) == [text |-> t, basis |-> basis, by |-> u]

\* Legacy rows are live or not, authoritative or not; a generated row is not
\* there yet, and the context it is for is fixed by its request.
Init ==
  /\ rows \in [Rows -> [live : BOOLEAN, context : Contexts, guard : {FALSE},
                        authoritative : BOOLEAN, revision : {0}, text : Texts]]
  /\ \A g \in Generators : ~rows[g].live /\ ~rows[g].authoritative
  /\ history = [i \in Rows |->
                  IF rows[i].live THEN <<Entry(rows[i].text, "none", NoRow)>> ELSE <<>>]
  /\ gen = [g \in Generators |-> [at |-> "look", reply |-> "none"]]
  /\ \E t \in [Updaters -> Texts] :
       upd = [u \in Updaters |-> [at |-> "read", reply |-> "none", text |-> t[u],
                                  row |-> NoRow, revision |-> 0]]

-----------------------------------------------------------------------------
(* generate_policy_payload with persist.                                    *)

GenAnswer(g, reply) == gen' = [gen EXCEPT ![g].at = "done", ![g].reply = reply]

GenLook(g) ==
  /\ gen[g].at = "look"
  /\ IF RowsOf(rows[g].context) = {}
       THEN gen' = [gen EXCEPT ![g].at = "run"]
       ELSE GenAnswer(g, "exists")
  /\ UNCHANGED <<rows, upd, history>>

IndexAdmitsAlways(context) == context \in Contexts   \* mutant: the index is not unique

\* The partial unique index on (organization, context) where generation_guard.
IndexAdmits(context) == \A i \in RowsOf(context) : ~rows[i].guard

\* The insert is stored; the reply may still be an error that says otherwise.
GenInsert(g, reply) ==
  /\ gen[g].at = "run"
  /\ IndexAdmits(rows[g].context)
  /\ \E t \in Texts :
       /\ rows' = [rows EXCEPT ![g].live = TRUE, ![g].guard = TRUE,
                               ![g].authoritative = TRUE, ![g].text = t]
       /\ history' = [history EXCEPT ![g] = <<Entry(t, "none", NoRow)>>]
  /\ GenAnswer(g, reply)
  /\ UNCHANGED upd

GenDuplicate(g) ==
  /\ gen[g].at = "run"
  /\ ~IndexAdmits(rows[g].context)
  /\ GenAnswer(g, "exists")
  /\ UNCHANGED <<rows, upd, history>>

\* The agent raises, or Mongo does before anything is stored.
GenFail(g, reply) ==
  /\ gen[g].at \in {"look", "run"}
  /\ gen[g].at = "look" => reply = "unavailable"
  /\ GenAnswer(g, reply)
  /\ UNCHANGED <<rows, upd, history>>

-----------------------------------------------------------------------------
(* update_policy_payload with validate_policy_update_payload.               *)

UpdAnswer(u, reply) == upd' = [upd EXCEPT ![u].at = "done", ![u].reply = reply]

UpdRefuse(u, c) ==
  /\ upd[u].at = "read"
  /\ LET found == RowsOf(c)  IN
     \/ found = {} /\ UpdAnswer(u, "not_found")
     \/ Cardinality(found) > 1 /\ UpdAnswer(u, "ambiguous")
     \/ \E i \in found :
          /\ found = {i}
          /\ \/ ~rows[i].authoritative /\ UpdAnswer(u, "not_authoritative")
             \/ /\ rows[i].authoritative
                /\ rows[i].text # upd[u].text
                /\ UpdAnswer(u, "conflict")
  /\ UNCHANGED <<rows, gen, history>>

UpdAccept(u, c) ==
  /\ upd[u].at = "read"
  /\ \E i \in RowsOf(c) :
       /\ RowsOf(c) = {i}
       /\ rows[i].authoritative
       /\ rows[i].text = upd[u].text
       /\ upd' = [upd EXCEPT ![u].at = "run", ![u].row = i,
                             ![u].revision = rows[i].revision]
  /\ UNCHANGED <<rows, gen, history>>

UpdMatchesByText(u) == rows[upd[u].row].text = upd[u].text   \* mutant
UpdMatchesAlways(u) == rows[upd[u].row].live                 \* mutant

\* The filter of the update: the row is still at the revision that was read.
UpdMatches(u) == rows[upd[u].row].revision = upd[u].revision

UpdStore(u, reply) ==
  LET i == upd[u].row  IN
  /\ upd[u].at = "run"
  /\ UpdMatches(u)
  /\ \E t \in Texts :
       /\ rows' = [rows EXCEPT ![i].text = t, ![i].revision = upd[u].revision + 1]
       /\ history' = [history EXCEPT ![i] = Append(@, Entry(t, upd[u].text, u))]
  /\ UpdAnswer(u, reply)
  /\ UNCHANGED gen

UpdConflict(u) ==
  /\ upd[u].at = "run"
  /\ ~UpdMatches(u)
  /\ UpdAnswer(u, "conflict")
  /\ UNCHANGED <<rows, gen, history>>

UpdFail(u, reply) ==
  /\ upd[u].at \in {"read", "run"}
  /\ upd[u].at = "read" => reply = "unavailable"
  /\ UpdAnswer(u, reply)
  /\ UNCHANGED <<rows, gen, history>>

GenStep(g) ==
  \/ GenLook(g)
  \/ \E reply \in {"created", "unavailable"} : GenInsert(g, reply)
  \/ GenDuplicate(g)
  \/ \E reply \in {"failed", "unavailable"} : GenFail(g, reply)

UpdStep(u) ==
  \/ \E c \in Contexts : UpdRefuse(u, c) \/ UpdAccept(u, c)
  \/ \E reply \in {"revised", "unavailable"} : UpdStore(u, reply)
  \/ UpdConflict(u)
  \/ \E reply \in {"failed", "unavailable"} : UpdFail(u, reply)

Next == (\E g \in Generators : GenStep(g)) \/ (\E u \in Updaters : UpdStep(u))

Spec == Init /\ [][Next]_vars

-----------------------------------------------------------------------------
(* Properties. *)

\* A generated policy is the only row of its context, however many requests
\* looked before any of them inserted: an update can never find it ambiguous.
GeneratedRowIsAlone ==
  \A i \in Rows : rows[i].live /\ rows[i].guard => RowsOf(rows[i].context) = {i}

\* An answer says what became of the request: a revision that was
\* acknowledged is in the history at the number that was answered, a refused
\* request stored nothing, and one that stored at all stored once.
AnswersAreTrue ==
  \A u \in Updaters :
    /\ upd[u].reply = "revised" =>
         /\ upd[u].revision + 2 \in DOMAIN history[upd[u].row]
         /\ history[upd[u].row][upd[u].revision + 2].by = u
    /\ \A i \in Rows : \A n \in DOMAIN history[i] :
         history[i][n].by = u =>
           /\ upd[u].reply \in {"revised", "unavailable"}
           /\ i = upd[u].row
           /\ n = upd[u].revision + 2

\* The handlers implement the versioned policy: every stored revision was
\* derived from the text it replaces, so no revision is lost.
Owners == [i \in Rows |-> rows[i].context]
Version(entry) == [text |-> entry.text, basis |-> entry.basis]
Versions ==
  [i \in Rows |-> [n \in 1..Len(history[i]) |-> Version(history[i][n])]]

Promise == INSTANCE VersionedPolicy WITH
  Policies <- Rows, owner <- Owners, history <- Versions

ImplementsPromise == Promise!Spec

-----------------------------------------------------------------------------
(* The inductive invariant behind these properties.                         *)

\* Nothing but generated rows, each guarded, joins a context that was empty
\* when a generator looked.
Generating ==
  /\ \A g \in Generators : gen[g].at \in {"look", "run"} => ~rows[g].live
  /\ \A g \in Generators : rows[g].live => rows[g].guard
  /\ \A g \in Generators : gen[g].at = "run" => RowsOf(rows[g].context) \subseteq Generators

\* The history ends with the stored text, and the revision counts it.
Recorded ==
  \A i \in Rows :
    /\ rows[i].live <=> history[i] # <<>>
    /\ ~rows[i].live => rows[i].revision = 0
    /\ rows[i].live => /\ Len(history[i]) = rows[i].revision + 1
                       /\ history[i][Len(history[i])].text = rows[i].text

\* While the revision an updater read is current, so is the text it read.
Reading ==
  \A u \in Updaters : upd[u].at # "read" /\ upd[u].row # NoRow =>
    /\ rows[upd[u].row].live
    /\ rows[upd[u].row].revision >= upd[u].revision
    /\ upd[u].at = "run" /\ UpdMatches(u) => rows[upd[u].row].text = upd[u].text

Places ==
  \A u \in Updaters :
    /\ upd[u].at # "done" => upd[u].reply = "none"
    /\ upd[u].at = "read" => upd[u].row = NoRow
    /\ upd[u].at = "run" => upd[u].row \in Rows
    /\ upd[u].reply = "revised" => upd[u].row \in Rows

IInv ==
  /\ TypeOK
  /\ GeneratedRowIsAlone
  /\ AnswersAreTrue
  /\ Generating
  /\ Recorded
  /\ Reading
  /\ Places
=============================================================================
