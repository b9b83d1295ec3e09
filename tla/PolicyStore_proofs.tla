------------------------- MODULE PolicyStore_proofs -------------------------
(***************************************************************************)
(* What holds of the policies collection for every number of requests,      *)
(* rows, contexts and texts.                                                *)
(***************************************************************************)
EXTENDS PolicyStore, SequenceTheorems, TLAPS

\* An entry of the history is typed when its parts are.
LEMMA EntryTyped ==
  ASSUME NEW t \in Texts, NEW b \in Texts \cup {"none"}, NEW u \in Updaters \cup {NoRow}
  PROVE  Entry(t, b, u) \in Revision
BY DEF Entry, Revision

\* A handler moves on without touching the other handlers.
LEMMA AnswersTyped ==
  ASSUME TypeOK
  PROVE  /\ \A g \in Generators, reply \in GenReplies :
              [gen[g] EXCEPT !.at = "done", !.reply = reply] \in Generation
         /\ \A g \in Generators : [gen[g] EXCEPT !.at = "run"] \in Generation
         /\ \A u \in Updaters, reply \in UpdReplies :
              [upd[u] EXCEPT !.at = "done", !.reply = reply] \in Update
         /\ \A u \in Updaters, i \in Rows, n \in Nat :
              [upd[u] EXCEPT !.at = "run", !.row = i, !.revision = n] \in Update
<1>1. \A g \in Generators : gen[g] \in Generation  BY DEF TypeOK
<1>2. \A u \in Updaters : upd[u] \in Update  BY DEF TypeOK
<1>3. \A g \in Generators, reply \in GenReplies :
         [gen[g] EXCEPT !.at = "done", !.reply = reply] \in Generation
  BY <1>1 DEF Generation
<1>4. \A g \in Generators : [gen[g] EXCEPT !.at = "run"] \in Generation
  BY <1>1 DEF Generation
<1>5. \A u \in Updaters, reply \in UpdReplies :
         [upd[u] EXCEPT !.at = "done", !.reply = reply] \in Update
  BY <1>2 DEF Update
<1>6. \A u \in Updaters, i \in Rows, n \in Nat :
         [upd[u] EXCEPT !.at = "run", !.row = i, !.revision = n] \in Update
  BY <1>2 DEF Update
<1> QED  BY <1>3, <1>4, <1>5, <1>6

\* The two answers keep the types of gen and upd.
LEMMA GenAnswerTyped ==
  ASSUME TypeOK, NEW g \in Generators, NEW reply \in GenReplies, GenAnswer(g, reply)
  PROVE  gen' \in [Generators -> Generation]
<1>1. [gen[g] EXCEPT !.at = "done", !.reply = reply] \in Generation  BY AnswersTyped
<1>2. gen' = [gen EXCEPT ![g] = [gen[g] EXCEPT !.at = "done", !.reply = reply]]
  BY DEF GenAnswer
<1> QED  BY <1>1, <1>2 DEF TypeOK

\* The same of an update's answer.
LEMMA UpdAnswerTyped ==
  ASSUME TypeOK, NEW u \in Updaters, NEW reply \in UpdReplies, UpdAnswer(u, reply)
  PROVE  upd' \in [Updaters -> Update]
<1>1. [upd[u] EXCEPT !.at = "done", !.reply = reply] \in Update  BY AnswersTyped
<1>2. upd' = [upd EXCEPT ![u] = [upd[u] EXCEPT !.at = "done", !.reply = reply]]
  BY DEF UpdAnswer
<1> QED  BY <1>1, <1>2 DEF TypeOK

\* The initial states are typed.
LEMMA InitTypeOK == Init => TypeOK
<1> SUFFICES ASSUME Init PROVE TypeOK
  OBVIOUS
<1>1. rows \in [Rows -> Row]
  <2>1. [live : BOOLEAN, context : Contexts, guard : {FALSE}, authoritative : BOOLEAN,
         revision : {0}, text : Texts] \subseteq Row
    <3>1. {FALSE} \subseteq BOOLEAN /\ {0} \subseteq Nat  OBVIOUS
    <3> QED  BY <3>1, Zenon DEF Row
  <2> DEFINE New == [live : BOOLEAN, context : Contexts, guard : {FALSE},
                     authoritative : BOOLEAN, revision : {0}, text : Texts]
  <2>2. rows \in [Rows -> New]  BY DEF Init
  <2> HIDE DEF New
  <2>3. New \subseteq Row  BY <2>1 DEF New
  <2> QED  BY <2>2, <2>3
<1>2. gen \in [Generators -> Generation]
  <2>1. [at |-> "look", reply |-> "none"] \in Generation  BY DEF Generation, GenReplies
  <2>2. gen = [g \in Generators |-> [at |-> "look", reply |-> "none"]]  BY DEF Init
  <2> QED  BY <2>1, <2>2
<1>3. upd \in [Updaters -> Update]
  <2>1. PICK t \in [Updaters -> Texts] :
          upd = [u \in Updaters |-> [at |-> "read", reply |-> "none", text |-> t[u],
                                     row |-> NoRow, revision |-> 0]]
    BY DEF Init
  <2>2. ASSUME NEW u \in Updaters
        PROVE  [at |-> "read", reply |-> "none", text |-> t[u],
                row |-> NoRow, revision |-> 0] \in Update
    BY DEF Update, UpdReplies
  <2> QED  BY <2>1, <2>2
<1>4. history \in [Rows -> Seq(Revision)]
  <2>1. ASSUME NEW i \in Rows
        PROVE  Entry(rows[i].text, "none", NoRow) \in Revision
    <3>1. rows[i].text \in Texts  BY <1>1 DEF Row
    <3> QED  BY <3>1, EntryTyped
  <2>2. history = [i \in Rows |->
                  IF rows[i].live THEN <<Entry(rows[i].text, "none", NoRow)>> ELSE <<>>]
    BY DEF Init
  <2> QED  BY <2>1, <2>2
<1> QED  BY <1>1, <1>2, <1>3, <1>4 DEF TypeOK

\* Every step keeps the types.
LEMMA StepTypeOK == TypeOK /\ Places /\ [Next]_vars => TypeOK'
<1> SUFFICES ASSUME TypeOK, Places, [Next]_vars PROVE TypeOK'
  OBVIOUS
<1>0. /\ rows \in [Rows -> Row]
      /\ gen \in [Generators -> Generation]
      /\ upd \in [Updaters -> Update]
      /\ history \in [Rows -> Seq(Revision)]
  BY DEF TypeOK
<1>r. /\ {"none", "created", "exists", "failed", "unavailable"} \subseteq GenReplies
      /\ {"none", "revised", "not_found", "ambiguous", "not_authoritative",
          "conflict", "failed", "unavailable"} \subseteq UpdReplies
  BY DEF GenReplies, UpdReplies
<1>1. ASSUME NEW g \in Generators, GenStep(g) PROVE TypeOK'
  <2>1. CASE GenLook(g)
    <3>1. CASE gen' = [gen EXCEPT ![g].at = "run"]
      <4>1. [gen[g] EXCEPT !.at = "run"] \in Generation  BY AnswersTyped
      <4> QED  BY <4>1, <3>1, <2>1, <1>0 DEF GenLook, TypeOK
    <3>2. CASE GenAnswer(g, "exists")
      <4>1. gen' \in [Generators -> Generation]  BY <3>2, <1>r, GenAnswerTyped
      <4> QED  BY <4>1, <2>1, <1>0 DEF GenLook, TypeOK
    <3> QED  BY <2>1, <3>1, <3>2 DEF GenLook
  <2>2. ASSUME NEW reply \in {"created", "unavailable"}, GenInsert(g, reply) PROVE TypeOK'
    <3>1. PICK t \in Texts :
            /\ rows' = [rows EXCEPT ![g].live = TRUE, ![g].guard = TRUE,
                                    ![g].authoritative = TRUE, ![g].text = t]
            /\ history' = [history EXCEPT ![g] = <<Entry(t, "none", NoRow)>>]
      BY <2>2 DEF GenInsert
    <3>2. g \in Rows  BY DEF Rows
    <3>3. rows[g] \in Row  BY <3>2, <1>0
    <3>4. [rows[g] EXCEPT !.live = TRUE, !.guard = TRUE, !.authoritative = TRUE,
                          !.text = t] \in Row
      BY <3>3 DEF Row
    <3>5. rows' \in [Rows -> Row]
      BY <3>1, <3>4, <1>0
    <3>6. <<Entry(t, "none", NoRow)>> \in Seq(Revision)
      <4>1. Entry(t, "none", NoRow) \in Revision  BY EntryTyped
      <4> QED  BY <4>1
    <3>7. history' \in [Rows -> Seq(Revision)]
      BY <3>1, <3>6, <1>0
    <3>8. gen' \in [Generators -> Generation]
      BY <2>2, <1>r, GenAnswerTyped DEF GenInsert
    <3>9. UNCHANGED upd  BY <2>2 DEF GenInsert
    <3> QED  BY <1>0, <3>5, <3>7, <3>8, <3>9 DEF TypeOK
  <2>3. CASE GenDuplicate(g)
    <3>1. gen' \in [Generators -> Generation]
      BY <2>3, <1>r, GenAnswerTyped DEF GenDuplicate
    <3> QED  BY <3>1, <2>3, <1>0 DEF GenDuplicate, TypeOK
  <2>4. ASSUME NEW reply \in {"failed", "unavailable"}, GenFail(g, reply) PROVE TypeOK'
    <3>1. gen' \in [Generators -> Generation]
      BY <2>4, <1>r, GenAnswerTyped DEF GenFail
    <3> QED  BY <3>1, <2>4, <1>0 DEF GenFail, TypeOK
  <2> QED  BY <1>1, <2>1, <2>2, <2>3, <2>4 DEF GenStep
<1>2. ASSUME NEW u \in Updaters, UpdStep(u) PROVE TypeOK'
  <2>1. ASSUME NEW c \in Contexts, UpdRefuse(u, c) PROVE TypeOK'
    <3>1. PICK reply \in {"not_found", "ambiguous", "not_authoritative", "conflict"} :
            UpdAnswer(u, reply)
      BY <2>1 DEF UpdRefuse
    <3>2. upd' \in [Updaters -> Update]  BY <3>1, <1>r, UpdAnswerTyped
    <3> QED  BY <3>2, <2>1, <1>0 DEF UpdRefuse, TypeOK
  <2>2. ASSUME NEW c \in Contexts, UpdAccept(u, c) PROVE TypeOK'
    <3>1. PICK i \in Rows : upd' = [upd EXCEPT ![u].at = "run", ![u].row = i,
                                               ![u].revision = rows[i].revision]
      BY <2>2 DEF UpdAccept, RowsOf
    <3>2. rows[i].revision \in Nat  BY <1>0 DEF Row
    <3>3. [upd[u] EXCEPT !.at = "run", !.row = i, !.revision = rows[i].revision] \in Update
      BY <3>2, AnswersTyped
    <3>4. upd' \in [Updaters -> Update]  BY <3>1, <3>3, <1>0
    <3> QED  BY <2>2, <3>4, <1>0 DEF UpdAccept, TypeOK
  <2>3. ASSUME NEW reply \in {"revised", "unavailable"}, UpdStore(u, reply) PROVE TypeOK'
    <3> DEFINE i == upd[u].row
    <3>1. PICK t \in Texts :
            /\ rows' = [rows EXCEPT ![i].text = t, ![i].revision = upd[u].revision + 1]
            /\ history' = [history EXCEPT ![i] = Append(@, Entry(t, upd[u].text, u))]
      BY <2>3 DEF UpdStore
    <3>2. i \in Rows  BY <2>3 DEF UpdStore, Places
    <3>3. upd[u].revision \in Nat /\ upd[u].text \in Texts  BY <1>0 DEF Update
    <3>4. [rows[i] EXCEPT !.text = t, !.revision = upd[u].revision + 1] \in Row
      <4>1. rows[i] \in Row /\ upd[u].revision + 1 \in Nat  BY <3>2, <3>3, <1>0
      <4> QED  BY <4>1 DEF Row
    <3>5. rows' \in [Rows -> Row]
      BY <3>1, <3>4, <1>0
    <3>6. Append(history[i], Entry(t, upd[u].text, u)) \in Seq(Revision)
      <4>1. Entry(t, upd[u].text, u) \in Revision  BY <3>3, EntryTyped
      <4>2. history[i] \in Seq(Revision)  BY <3>2, <1>0
      <4> QED  BY <4>1, <4>2
    <3>7. history' \in [Rows -> Seq(Revision)]
      BY <3>1, <3>6, <1>0
    <3>8. upd' \in [Updaters -> Update]
      BY <2>3, <1>r, UpdAnswerTyped DEF UpdStore
    <3>9. UNCHANGED gen  BY <2>3 DEF UpdStore
    <3> QED  BY <1>0, <3>5, <3>7, <3>8, <3>9 DEF TypeOK
  <2>4. CASE UpdConflict(u)
    <3>1. upd' \in [Updaters -> Update]
      BY <2>4, <1>r, UpdAnswerTyped DEF UpdConflict
    <3> QED  BY <3>1, <2>4, <1>0 DEF UpdConflict, TypeOK
  <2>5. ASSUME NEW reply \in {"failed", "unavailable"}, UpdFail(u, reply) PROVE TypeOK'
    <3>1. upd' \in [Updaters -> Update]
      BY <2>5, <1>r, UpdAnswerTyped DEF UpdFail
    <3> QED  BY <3>1, <2>5, <1>0 DEF UpdFail, TypeOK
  <2> QED  BY <1>2, <2>1, <2>2, <2>3, <2>4, <2>5 DEF UpdStep
<1>3. CASE UNCHANGED vars
  BY <1>0, <1>3 DEF vars, TypeOK
<1> QED  BY <1>1, <1>2, <1>3 DEF Next

-----------------------------------------------------------------------------
(* What the three kinds of steps do to the rows. *)

\* A generator inserts into a context that has no row at that moment.
LEMMA InsertEffect ==
  ASSUME IInv, NEW g \in Generators, NEW reply, GenInsert(g, reply)
  PROVE  /\ g \in Rows
         /\ ~rows[g].live
         /\ history[g] = <<>>
         /\ \A i \in Rows : ~(rows[i].live /\ rows[i].context = rows[g].context)
         /\ \E t \in Texts :
              /\ rows'[g] = [rows[g] EXCEPT !.live = TRUE, !.guard = TRUE,
                                            !.authoritative = TRUE, !.text = t]
              /\ history'[g] = <<Entry(t, "none", NoRow)>>
              /\ history' = [history EXCEPT ![g] = <<Entry(t, "none", NoRow)>>]
         /\ \A i \in Rows : i # g => rows'[i] = rows[i] /\ history'[i] = history[i]
<1>1. g \in Rows  BY DEF Rows
<1>2. gen[g].at = "run"  BY DEF GenInsert
<1>3. ~rows[g].live  BY <1>2 DEF IInv, Generating
<1>4. history[g] = <<>>  BY <1>1, <1>3 DEF IInv, Recorded
<1>5. ASSUME NEW i \in Rows, rows[i].live, rows[i].context = rows[g].context
      PROVE  FALSE
  <2>1. i \in Generators  BY <1>2, <1>5 DEF IInv, Generating, RowsOf
  <2>2. rows[i].guard  BY <2>1, <1>5 DEF IInv, Generating
  <2> QED  BY <2>2, <1>5 DEF GenInsert, IndexAdmits, RowsOf
<1>6. PICK t \in Texts :
         /\ rows' = [rows EXCEPT ![g].live = TRUE, ![g].guard = TRUE,
                                 ![g].authoritative = TRUE, ![g].text = t]
         /\ history' = [history EXCEPT ![g] = <<Entry(t, "none", NoRow)>>]
  BY DEF GenInsert
<1>7. rows \in [Rows -> Row] /\ history \in [Rows -> Seq(Revision)]
  BY DEF IInv, TypeOK
<1>8. rows'[g] = [rows[g] EXCEPT !.live = TRUE, !.guard = TRUE,
                                 !.authoritative = TRUE, !.text = t]
  BY <1>1, <1>6, <1>7
<1>9. history'[g] = <<Entry(t, "none", NoRow)>>
  BY <1>1, <1>6, <1>7
<1>10. \A i \in Rows : i # g => rows'[i] = rows[i] /\ history'[i] = history[i]
  BY <1>1, <1>6, <1>7
<1> QED  BY <1>1, <1>3, <1>4, <1>5, <1>6, <1>8, <1>9, <1>10

\* An updater replaces the text it read, and appends what it stores.
LEMMA StoreEffect ==
  ASSUME IInv, NEW u \in Updaters, NEW reply, UpdStore(u, reply)
  PROVE  /\ upd[u].row \in Rows
         /\ rows[upd[u].row].live
         /\ rows[upd[u].row].revision = upd[u].revision
         /\ rows[upd[u].row].text = upd[u].text
         /\ \E t \in Texts :
              /\ rows'[upd[u].row] = [rows[upd[u].row] EXCEPT
                                        !.text = t, !.revision = upd[u].revision + 1]
              /\ history'[upd[u].row]
                   = Append(history[upd[u].row], Entry(t, upd[u].text, u))
              /\ history' = [history EXCEPT ![upd[u].row]
                               = Append(@, Entry(t, upd[u].text, u))]
         /\ \A i \in Rows : i # upd[u].row => rows'[i] = rows[i] /\ history'[i] = history[i]
<1> DEFINE i == upd[u].row
<1>1. upd[u].at = "run" /\ UpdMatches(u)  BY DEF UpdStore
<1>2. i \in Rows  BY <1>1 DEF IInv, Places
<1>3. i # NoRow  BY <1>2, DisjointAssumption
<1>4. rows[i].live /\ rows[i].text = upd[u].text
  BY <1>1, <1>3 DEF IInv, Reading
<1>5. PICK t \in Texts :
         /\ rows' = [rows EXCEPT ![i].text = t, ![i].revision = upd[u].revision + 1]
         /\ history' = [history EXCEPT ![i] = Append(@, Entry(t, upd[u].text, u))]
  BY DEF UpdStore
<1>6. rows \in [Rows -> Row] /\ history \in [Rows -> Seq(Revision)]
  BY DEF IInv, TypeOK
<1>7. rows'[i] = [rows[i] EXCEPT !.text = t, !.revision = upd[u].revision + 1]
  BY <1>2, <1>5, <1>6
<1>8. history'[i] = Append(history[i], Entry(t, upd[u].text, u))
  BY <1>2, <1>5, <1>6
<1>9. \A k \in Rows : k # i => rows'[k] = rows[k] /\ history'[k] = history[k]
  BY <1>2, <1>5, <1>6
<1> QED  BY <1>1, <1>2, <1>4, <1>5, <1>7, <1>8, <1>9 DEF UpdMatches

\* An update rewrites text and revision of one row at most, and nothing else.
LEMMA StoreKeeps ==
  ASSUME IInv, NEW u \in Updaters, NEW reply, UpdStore(u, reply), NEW n \in Rows
  PROVE  /\ rows'[n].live = rows[n].live
         /\ rows'[n].context = rows[n].context
         /\ rows'[n].guard = rows[n].guard
<1>1. rows[n] \in Row  BY DEF IInv, TypeOK
<1>2. CASE n = upd[u].row
  <2>1. PICK t \in Texts : rows'[upd[u].row] = [rows[upd[u].row] EXCEPT
                             !.text = t, !.revision = upd[u].revision + 1]
    BY StoreEffect
  <2>2. rows'[n] = [rows[n] EXCEPT !.text = t, !.revision = upd[u].revision + 1]
    BY <1>2, <2>1
  <2> QED  BY <1>1, <2>2 DEF Row
<1>3. CASE n # upd[u].row
  BY <1>3, StoreEffect
<1> QED  BY <1>2, <1>3

\* Every other step leaves the rows and their history alone.
Writes ==
  \/ \E g \in Generators : \E reply \in {"created", "unavailable"} : GenInsert(g, reply)
  \/ \E u \in Updaters : \E reply \in {"revised", "unavailable"} : UpdStore(u, reply)

\* The steps that write no row leave the rows and the history alone.
LEMMA OtherSteps == [Next]_vars /\ ~Writes => UNCHANGED <<rows, history>>
BY DEF Next, vars, Writes, GenStep, UpdStep, GenLook, GenDuplicate, GenFail,
       UpdRefuse, UpdAccept, UpdConflict, UpdFail

-----------------------------------------------------------------------------
(* The parts of the invariant. *)

\* Rows keep their context, and stay once they are there.
LEMMA RowsStay ==
  ASSUME IInv, [Next]_vars
  PROVE  \A i \in Rows : /\ rows'[i].context = rows[i].context
                         /\ rows[i].live => rows'[i].live
                         /\ rows[i].guard => rows'[i].guard
<1>0. rows \in [Rows -> Row]  BY DEF IInv, TypeOK
<1>1. ASSUME NEW g \in Generators, NEW reply \in {"created", "unavailable"},
             GenInsert(g, reply), NEW i \in Rows
      PROVE  /\ rows'[i].context = rows[i].context
             /\ rows[i].live => rows'[i].live
             /\ rows[i].guard => rows'[i].guard
  <2>1. rows[i] \in Row  BY <1>0
  <2>2. rows'[i] = rows[i] \/ \E t \in Texts : rows'[i] = [rows[i] EXCEPT
           !.live = TRUE, !.guard = TRUE, !.authoritative = TRUE, !.text = t]
    BY <1>1, InsertEffect
  <2> QED  BY <2>1, <2>2 DEF Row
<1>2. ASSUME NEW u \in Updaters, NEW reply \in {"revised", "unavailable"},
             UpdStore(u, reply), NEW i \in Rows
      PROVE  /\ rows'[i].context = rows[i].context
             /\ rows[i].live => rows'[i].live
             /\ rows[i].guard => rows'[i].guard
  BY <1>2, StoreKeeps
<1>3. CASE ~Writes
  BY <1>3, OtherSteps
<1> QED  BY <1>1, <1>2, <1>3 DEF Writes

\* A generated row stays alone.
LEMMA StepAlone == IInv /\ [Next]_vars => GeneratedRowIsAlone'
<1> SUFFICES ASSUME IInv, [Next]_vars,
                    NEW i \in Rows, rows'[i].live, rows'[i].guard,
                    NEW k \in Rows
             PROVE  rows'[k].live /\ rows'[k].context = rows'[i].context <=> k = i
  BY DEF GeneratedRowIsAlone, RowsOf
<1>0. GeneratedRowIsAlone /\ rows \in [Rows -> Row]  BY DEF IInv, TypeOK
<1>a. rows[i].live /\ rows[i].guard =>
        (rows[k].live /\ rows[k].context = rows[i].context <=> k = i)
  BY <1>0 DEF GeneratedRowIsAlone, RowsOf
<1>1. ASSUME NEW g \in Generators, NEW reply \in {"created", "unavailable"},
             GenInsert(g, reply)
      PROVE  rows'[k].live /\ rows'[k].context = rows'[i].context <=> k = i
  <2>1. /\ \A n \in Rows : ~(rows[n].live /\ rows[n].context = rows[g].context)
        /\ \A n \in Rows : n # g => rows'[n] = rows[n]
        /\ g \in Rows
    BY <1>1, InsertEffect
  <2>2. /\ rows'[g].context = rows[g].context
        /\ rows'[i].context = rows[i].context
        /\ rows'[k].context = rows[k].context
    BY <2>1, RowsStay
  <2> QED  BY <2>1, <2>2, <1>a
<1>2. ASSUME NEW u \in Updaters, NEW reply \in {"revised", "unavailable"},
             UpdStore(u, reply)
      PROVE  rows'[k].live /\ rows'[k].context = rows'[i].context <=> k = i
  <2>1. \A n \in Rows : rows'[n].live = rows[n].live /\ rows'[n].guard = rows[n].guard
                        /\ rows'[n].context = rows[n].context
    BY <1>2, StoreKeeps
  <2> QED  BY <2>1, <1>a
<1>3. CASE ~Writes
  BY <1>3, <1>a, OtherSteps
<1> QED  BY <1>1, <1>2, <1>3 DEF Writes

\* What a step does to the handler of a generator: it runs on only from a look
\* that found nothing, and is done once it has inserted.
LEMMA GeneratorMoves ==
  ASSUME IInv, [Next]_vars, NEW h \in Generators
  PROVE  /\ gen'[h].at = "run" => gen[h].at = "run" \/ RowsOf(rows[h].context) = {}
         /\ gen'[h].at \in {"look", "run"} => gen[h].at \in {"look", "run"}
<1>0. gen \in [Generators -> Generation]  BY DEF IInv, TypeOK
<1>1. ASSUME NEW g \in Generators, GenStep(g)
      PROVE  /\ gen'[h].at = "run" => gen[h].at = "run" \/ RowsOf(rows[h].context) = {}
             /\ gen'[h].at \in {"look", "run"} => gen[h].at \in {"look", "run"}
  <2>1. CASE gen' = [gen EXCEPT ![g].at = "run"] /\ gen[g].at = "look"
               /\ RowsOf(rows[g].context) = {}
    BY <2>1, <1>0 DEF Generation
  <2>2. CASE \E reply \in GenReplies : GenAnswer(g, reply)
    BY <2>2, <1>0 DEF GenAnswer, Generation
  <2> QED  BY <1>1, <2>1, <2>2 DEF GenStep, GenLook, GenInsert, GenDuplicate, GenFail,
                                   GenReplies
<1>2. CASE UNCHANGED gen
  BY <1>2
<1>3. ASSUME NEW u \in Updaters, UpdStep(u) PROVE UNCHANGED gen
  BY <1>3 DEF UpdStep, UpdRefuse, UpdAccept, UpdStore, UpdConflict, UpdFail
<1> QED  BY <1>1, <1>2, <1>3 DEF Next, vars

\* The generators' part of the invariant.
LEMMA StepGenerating == IInv /\ [Next]_vars => Generating'
<1> SUFFICES ASSUME IInv, [Next]_vars PROVE Generating'
  OBVIOUS
<1>0. Generating /\ rows \in [Rows -> Row] /\ gen \in [Generators -> Generation]
  BY DEF IInv, TypeOK
<1>r. Generators \subseteq Rows  BY DEF Rows
<1>1. ASSUME NEW g \in Generators, NEW reply \in {"created", "unavailable"},
             GenInsert(g, reply)
      PROVE  Generating'
  <2>1. /\ \A n \in Rows : n # g => rows'[n] = rows[n]
        /\ \E t \in Texts : rows'[g] = [rows[g] EXCEPT
             !.live = TRUE, !.guard = TRUE, !.authoritative = TRUE, !.text = t]
    BY <1>1, InsertEffect
  <2>2. rows'[g].guard
    <3>1. rows[g] \in Row  BY <1>0, <1>r
    <3> QED  BY <2>1, <3>1 DEF Row
  <2>3. gen'[g].at = "done" /\ \A h \in Generators : h # g => gen'[h] = gen[h]
    BY <1>1, <1>0 DEF GenInsert, GenAnswer, Generation
  <2>4. \A h \in Generators : gen'[h].at \in {"look", "run"} => ~rows'[h].live
    BY <2>1, <2>3, <1>0, <1>r DEF Generating
  <2>5. \A h \in Generators : rows'[h].live => rows'[h].guard
    BY <2>1, <2>2, <1>0, <1>r DEF Generating
  <2>6. ASSUME NEW h \in Generators, gen'[h].at = "run", NEW k \in Rows,
               rows'[k].live, rows'[k].context = rows'[h].context
        PROVE  k \in Generators
    <3>1. gen[h].at = "run"  BY <2>3, <2>6
    <3>2. rows'[h].context = rows[h].context  BY <1>r, RowsStay
    <3>3. k = g \/ (rows[k].live /\ rows[k].context = rows[h].context)
      BY <2>1, <2>6, <3>2
    <3> QED  BY <3>1, <3>3, <1>0 DEF Generating, RowsOf
  <2> QED  BY <2>4, <2>5, <2>6 DEF Generating, RowsOf
<1>2. ASSUME \A n \in Rows : /\ rows'[n].live = rows[n].live
                             /\ rows'[n].context = rows[n].context
                             /\ rows'[n].guard = rows[n].guard
      PROVE  Generating'
  <2>1. \A h \in Generators : gen'[h].at \in {"look", "run"} => ~rows'[h].live
    BY <1>2, <1>0, <1>r, GeneratorMoves DEF Generating
  <2>2. \A h \in Generators : rows'[h].live => rows'[h].guard
    BY <1>2, <1>0, <1>r DEF Generating
  <2>3. ASSUME NEW h \in Generators, gen'[h].at = "run", NEW k \in Rows,
               rows'[k].live, rows'[k].context = rows'[h].context
        PROVE  k \in Generators
    <3>1. rows[k].live /\ rows[k].context = rows[h].context
      BY <2>3, <1>2, <1>r
    <3>2. gen[h].at = "run"
      <4>1. k \in RowsOf(rows[h].context)  BY <3>1 DEF RowsOf
      <4> QED  BY <4>1, <2>3, GeneratorMoves
    <3> QED  BY <3>1, <3>2, <1>0 DEF Generating, RowsOf
  <2> QED  BY <2>1, <2>2, <2>3 DEF Generating, RowsOf
<1>3. CASE \E u \in Updaters : \E reply \in {"revised", "unavailable"} : UpdStore(u, reply)
  BY <1>2, <1>3, StoreKeeps
<1>4. CASE ~Writes
  BY <1>2, <1>4, OtherSteps
<1> QED  BY <1>1, <1>3, <1>4 DEF Writes

\* The history keeps recording the rows.
LEMMA StepRecorded == IInv /\ [Next]_vars => Recorded'
<1> SUFFICES ASSUME IInv, [Next]_vars, NEW i \in Rows
             PROVE  /\ rows'[i].live <=> history'[i] # <<>>
                    /\ ~rows'[i].live => rows'[i].revision = 0
                    /\ rows'[i].live =>
                         /\ Len(history'[i]) = rows'[i].revision + 1
                         /\ history'[i][Len(history'[i])].text = rows'[i].text
  BY DEF Recorded
<1>0. rows[i] \in Row /\ history[i] \in Seq(Revision)  BY DEF IInv, TypeOK
<1>a. /\ rows[i].live <=> history[i] # <<>>
      /\ ~rows[i].live => rows[i].revision = 0
      /\ rows[i].live => /\ Len(history[i]) = rows[i].revision + 1
                         /\ history[i][Len(history[i])].text = rows[i].text
  BY DEF IInv, Recorded
<1>1. CASE rows'[i] = rows[i] /\ history'[i] = history[i]
  BY <1>1, <1>a
<1>2. ASSUME NEW t \in Texts, ~rows[i].live,
             rows'[i] = [rows[i] EXCEPT !.live = TRUE, !.guard = TRUE,
                                        !.authoritative = TRUE, !.text = t],
             history'[i] = <<Entry(t, "none", NoRow)>>
      PROVE  /\ rows'[i].live /\ history'[i] # <<>>
             /\ Len(history'[i]) = rows'[i].revision + 1
             /\ history'[i][Len(history'[i])].text = rows'[i].text
  <2>1. rows'[i].live /\ rows'[i].text = t /\ rows'[i].revision = 0
    BY <1>2, <1>a, <1>0 DEF Row
  <2>2. Len(history'[i]) = 1 /\ history'[i] # <<>> /\ history'[i][1].text = t
    BY <1>2 DEF Entry
  <2> QED  BY <2>1, <2>2
<1>3. ASSUME NEW u \in Updaters, NEW t \in Texts, rows[i].live,
             upd[u].revision = rows[i].revision,
             rows'[i] = [rows[i] EXCEPT !.text = t, !.revision = upd[u].revision + 1],
             history'[i] = Append(history[i], Entry(t, upd[u].text, u))
      PROVE  /\ rows'[i].live /\ history'[i] # <<>>
             /\ Len(history'[i]) = rows'[i].revision + 1
             /\ history'[i][Len(history'[i])].text = rows'[i].text
  <2>1. /\ rows'[i].live /\ rows'[i].text = t
        /\ rows'[i].revision = rows[i].revision + 1 /\ rows[i].revision \in Nat
    BY <1>3, <1>0 DEF Row
  <2>2. /\ Len(history'[i]) = Len(history[i]) + 1
        /\ history'[i][Len(history[i]) + 1] = Entry(t, upd[u].text, u)
    BY <1>3, <1>0
  <2>3. history'[i] # <<>>
    BY <2>2, <1>0
  <2>4. Entry(t, upd[u].text, u).text = t  BY DEF Entry
  <2>5. Len(history[i]) = rows[i].revision + 1  BY <1>3, <1>a
  <2>6. history'[i][Len(history'[i])].text = t  BY <2>2, <2>4
  <2>7. Len(history'[i]) = rows'[i].revision + 1  BY <2>1, <2>2, <2>5
  <2> QED  BY <2>1, <2>3, <2>6, <2>7
<1>4. ASSUME NEW g \in Generators, NEW reply \in {"created", "unavailable"},
             GenInsert(g, reply)
      PROVE  \/ rows'[i] = rows[i] /\ history'[i] = history[i]
             \/ /\ ~rows[i].live
                /\ \E t \in Texts :
                     /\ rows'[i] = [rows[i] EXCEPT !.live = TRUE, !.guard = TRUE,
                                          !.authoritative = TRUE, !.text = t]
                     /\ history'[i] = <<Entry(t, "none", NoRow)>>
  <2>1. CASE i = g  BY <2>1, <1>4, InsertEffect
  <2>2. CASE i # g  BY <2>2, <1>4, InsertEffect
  <2> QED  BY <2>1, <2>2
<1>5. ASSUME NEW u \in Updaters, NEW reply \in {"revised", "unavailable"},
             UpdStore(u, reply)
      PROVE  \/ rows'[i] = rows[i] /\ history'[i] = history[i]
             \/ /\ rows[i].live
                /\ upd[u].revision = rows[i].revision
                /\ \E t \in Texts :
                     /\ rows'[i] = [rows[i] EXCEPT !.text = t,
                                                   !.revision = upd[u].revision + 1]
                     /\ history'[i] = Append(history[i], Entry(t, upd[u].text, u))
  <2>1. CASE i = upd[u].row  BY <2>1, <1>5, StoreEffect
  <2>2. CASE i # upd[u].row  BY <2>2, <1>5, StoreEffect
  <2> QED  BY <2>1, <2>2
<1>6. CASE ~Writes
  BY <1>6, <1>1, OtherSteps
<1>7. CASE \E g \in Generators : \E reply \in {"created", "unavailable"} : GenInsert(g, reply)
  BY <1>7, <1>1, <1>2, <1>4
<1>8. CASE \E u \in Updaters : \E reply \in {"revised", "unavailable"} : UpdStore(u, reply)
  BY <1>8, <1>1, <1>3, <1>5
<1> QED  BY <1>6, <1>7, <1>8 DEF Writes

\* What a step does to the handler of an updater: it stays as it is, or it
\* accepts the row it read, or it answers.
Accepts(u) ==
  \E i \in Rows : /\ upd[u].at = "read"
                  /\ rows[i].live /\ rows[i].text = upd[u].text
                  /\ upd' = [upd EXCEPT ![u].at = "run", ![u].row = i,
                                        ![u].revision = rows[i].revision]

\* An update that moves on keeps the types.
LEMMA UpdaterMoves ==
  ASSUME IInv, [Next]_vars, NEW v \in Updaters
  PROVE  \/ upd'[v] = upd[v]
         \/ /\ upd[v].at = "read"
            /\ UNCHANGED <<rows, history>>
            /\ \E i \in Rows :
                 /\ rows[i].live /\ rows[i].text = upd[v].text
                 /\ upd'[v] = [upd[v] EXCEPT !.at = "run", !.row = i,
                                             !.revision = rows[i].revision]
         \/ /\ upd[v].at # "done"
            /\ \E reply \in UpdReplies \ {"none"} :
                 /\ upd'[v] = [upd[v] EXCEPT !.at = "done", !.reply = reply]
                 /\ reply = "revised" => \E r \in {"revised", "unavailable"} : UpdStore(v, r)
<1> DEFINE Goal ==
         \/ upd'[v] = upd[v]
         \/ /\ upd[v].at = "read"
            /\ UNCHANGED <<rows, history>>
            /\ \E i \in Rows :
                 /\ rows[i].live /\ rows[i].text = upd[v].text
                 /\ upd'[v] = [upd[v] EXCEPT !.at = "run", !.row = i,
                                             !.revision = rows[i].revision]
         \/ /\ upd[v].at # "done"
            /\ \E reply \in UpdReplies \ {"none"} :
                 /\ upd'[v] = [upd[v] EXCEPT !.at = "done", !.reply = reply]
                 /\ reply = "revised" => \E r \in {"revised", "unavailable"} : UpdStore(v, r)
<1>0. upd \in [Updaters -> Update]  BY DEF IInv, TypeOK
<1>1. ASSUME NEW u \in Updaters, Accepts(u), UNCHANGED <<rows, history>> PROVE Goal
  BY <1>0, <1>1 DEF Accepts
<1>2. ASSUME NEW u \in Updaters, upd[u].at # "done",
             NEW reply \in UpdReplies \ {"none"}, UpdAnswer(u, reply),
             reply = "revised" => \E r \in {"revised", "unavailable"} : UpdStore(u, r)
      PROVE  Goal
  <2>1. CASE u = v
    <3>1. upd'[v] = [upd[v] EXCEPT !.at = "done", !.reply = reply]
      BY <1>0, <1>2, <2>1 DEF UpdAnswer
    <3> QED  BY <1>2, <2>1, <3>1
  <2>2. CASE u # v
    BY <1>0, <1>2, <2>2 DEF UpdAnswer
  <2> QED  BY <2>1, <2>2
<1>3. ASSUME NEW u \in Updaters, UpdStep(u) PROVE Goal
  <2>1. ASSUME NEW c \in Contexts, UpdRefuse(u, c) PROVE Goal
    <3>1. PICK reply \in {"not_found", "ambiguous", "not_authoritative", "conflict"} :
            UpdAnswer(u, reply)
      BY <2>1 DEF UpdRefuse
    <3>2. upd[u].at # "done"  BY <2>1 DEF UpdRefuse
    <3> QED  BY <3>1, <3>2, <1>2 DEF UpdReplies
  <2>2. ASSUME NEW c \in Contexts, UpdAccept(u, c) PROVE Goal
    <3>1. Accepts(u) /\ UNCHANGED <<rows, history>>
      BY <2>2 DEF UpdAccept, Accepts, RowsOf
    <3> QED  BY <3>1, <1>1
  <2>3. ASSUME NEW reply \in {"revised", "unavailable"}, UpdStore(u, reply) PROVE Goal
    <3>1. UpdAnswer(u, reply) /\ upd[u].at # "done"  BY <2>3 DEF UpdStore
    <3>2. reply \in UpdReplies \ {"none"}  BY DEF UpdReplies
    <3> QED  BY <3>1, <3>2, <2>3, <1>2
  <2>4. CASE UpdConflict(u)
    <3>1. UpdAnswer(u, "conflict") /\ upd[u].at # "done"  BY <2>4 DEF UpdConflict
    <3> QED  BY <3>1, <1>2 DEF UpdReplies
  <2>5. ASSUME NEW reply \in {"failed", "unavailable"}, UpdFail(u, reply) PROVE Goal
    <3>1. UpdAnswer(u, reply) /\ upd[u].at # "done"  BY <2>5 DEF UpdFail
    <3>2. reply \in UpdReplies \ {"none"} /\ reply # "revised"  BY DEF UpdReplies
    <3> QED  BY <3>1, <3>2, <1>2
  <2> QED  BY <1>3, <2>1, <2>2, <2>3, <2>4, <2>5 DEF UpdStep
<1>4. ASSUME NEW g \in Generators, GenStep(g) PROVE UNCHANGED upd
  BY <1>4 DEF GenStep, GenLook, GenInsert, GenDuplicate, GenFail
<1>5. CASE UNCHANGED vars
  BY <1>5 DEF vars
<1> QED  BY <1>3, <1>4, <1>5 DEF Next

\* Where an updater stands.
LEMMA StepPlaces == IInv /\ [Next]_vars => Places'
<1> SUFFICES ASSUME IInv, [Next]_vars, NEW v \in Updaters
             PROVE  /\ upd'[v].at # "done" => upd'[v].reply = "none"
                    /\ upd'[v].at = "read" => upd'[v].row = NoRow
                    /\ upd'[v].at = "run" => upd'[v].row \in Rows
                    /\ upd'[v].reply = "revised" => upd'[v].row \in Rows
  BY DEF Places
<1>0. upd[v] \in Update  BY DEF IInv, TypeOK
<1>1. /\ upd[v].at # "done" => upd[v].reply = "none"
      /\ upd[v].at = "read" => upd[v].row = NoRow
      /\ upd[v].at = "run" => upd[v].row \in Rows
      /\ upd[v].reply = "revised" => upd[v].row \in Rows
  BY DEF IInv, Places
<1>2. CASE upd'[v] = upd[v]
  BY <1>1, <1>2
<1>3. ASSUME NEW i \in Rows, upd[v].at = "read",
             upd'[v] = [upd[v] EXCEPT !.at = "run", !.row = i, !.revision = rows[i].revision]
      PROVE  upd'[v].reply = "none" /\ upd'[v].row \in Rows /\ upd'[v].at # "read"
  BY <1>0, <1>1, <1>3 DEF Update
<1>4. ASSUME NEW reply \in UpdReplies \ {"none"},
             upd'[v] = [upd[v] EXCEPT !.at = "done", !.reply = reply],
             reply = "revised" => \E r \in {"revised", "unavailable"} : UpdStore(v, r)
      PROVE  upd'[v].at = "done" /\ (upd'[v].reply = "revised" => upd'[v].row \in Rows)
  <2>1. upd'[v].at = "done" /\ upd'[v].reply = reply /\ upd'[v].row = upd[v].row
    BY <1>0, <1>4 DEF Update
  <2>2. CASE reply # "revised"
    BY <2>1, <2>2
  <2>3. CASE reply = "revised"
    BY <2>1, <2>3, <1>4, StoreEffect
  <2> QED  BY <2>1, <2>2, <2>3
<1> QED  BY <1>2, <1>3, <1>4, UpdaterMoves

\* Revisions only grow, and a row that keeps its revision keeps its text once
\* it is there.
LEMMA RevisionsGrow ==
  ASSUME IInv, [Next]_vars, NEW i \in Rows, rows[i].live
  PROVE  \/ rows'[i] = rows[i]
         \/ rows'[i].live /\ rows'[i].revision = rows[i].revision + 1
<1>0. rows[i] \in Row  BY DEF IInv, TypeOK
<1>1. ASSUME NEW g \in Generators, NEW reply \in {"created", "unavailable"},
             GenInsert(g, reply)
      PROVE  rows'[i] = rows[i]
  BY <1>1, InsertEffect
<1>2. ASSUME NEW u \in Updaters, NEW reply \in {"revised", "unavailable"},
             UpdStore(u, reply), i = upd[u].row
      PROVE  rows'[i].live /\ rows'[i].revision = rows[i].revision + 1
  <2>1. PICK t \in Texts : rows'[i] = [rows[i] EXCEPT
                             !.text = t, !.revision = upd[u].revision + 1]
    BY <1>2, StoreEffect
  <2>2. upd[u].revision = rows[i].revision  BY <1>2, StoreEffect
  <2> QED  BY <2>1, <2>2, <1>0 DEF Row
<1>3. ASSUME NEW u \in Updaters, NEW reply \in {"revised", "unavailable"},
             UpdStore(u, reply), i # upd[u].row
      PROVE  rows'[i] = rows[i]
  BY <1>3, StoreEffect
<1>4. CASE ~Writes
  BY <1>4, OtherSteps
<1> QED  BY <1>1, <1>2, <1>3, <1>4 DEF Writes

\* What an updater read stays true while the revision does.
LEMMA StepReading == IInv /\ [Next]_vars => Reading'
<1> SUFFICES ASSUME IInv, [Next]_vars, NEW v \in Updaters,
                    upd'[v].at # "read", upd'[v].row # NoRow
             PROVE  /\ rows'[upd'[v].row].live
                    /\ rows'[upd'[v].row].revision >= upd'[v].revision
                    /\ upd'[v].at = "run" /\ rows'[upd'[v].row].revision = upd'[v].revision
                         => rows'[upd'[v].row].text = upd'[v].text
  BY DEF Reading, UpdMatches
<1>0. upd[v] \in Update /\ rows \in [Rows -> Row]  BY DEF IInv, TypeOK
<1>1. CASE upd'[v] = upd[v]
  <2> DEFINE i == upd[v].row
  <2>1. i \in Rows  BY <1>0, <1>1 DEF Update
  <2>2. /\ rows[i].live
        /\ rows[i].revision >= upd[v].revision
        /\ upd[v].at = "run" /\ rows[i].revision = upd[v].revision
             => rows[i].text = upd[v].text
    BY <1>1 DEF IInv, Reading, UpdMatches
  <2>3. rows[i].revision \in Nat /\ upd[v].revision \in Nat
    BY <1>0, <2>1 DEF Row, Update
  <2>4. \/ rows'[i] = rows[i]
        \/ rows'[i].live /\ rows'[i].revision = rows[i].revision + 1
    BY <2>1, <2>2, RevisionsGrow
  <2>5. upd'[v].row = i  BY <1>1
  <2> HIDE DEF i
  <2> QED  BY <1>1, <2>2, <2>3, <2>4, <2>5
<1>2. ASSUME NEW i \in Rows, rows[i].live, rows[i].text = upd[v].text,
             UNCHANGED <<rows, history>>,
             upd'[v] = [upd[v] EXCEPT !.at = "run", !.row = i, !.revision = rows[i].revision]
      PROVE  /\ rows'[upd'[v].row].live
             /\ rows'[upd'[v].row].revision >= upd'[v].revision
             /\ rows'[upd'[v].row].text = upd'[v].text
  <2>1. /\ upd'[v].row = i /\ upd'[v].revision = rows[i].revision
        /\ upd'[v].text = upd[v].text
    BY <1>0, <1>2 DEF Update
  <2>2. rows[i].revision \in Nat  BY <1>0 DEF Row
  <2> QED  BY <1>2, <2>1, <2>2
<1>3. ASSUME NEW reply \in UpdReplies, upd[v].at # "done",
             upd'[v] = [upd[v] EXCEPT !.at = "done", !.reply = reply]
      PROVE  /\ rows'[upd'[v].row].live
             /\ rows'[upd'[v].row].revision >= upd'[v].revision
             /\ upd'[v].at # "run"
  <2> DEFINE i == upd[v].row
  <2>1. /\ upd'[v].row = i /\ upd'[v].revision = upd[v].revision /\ upd'[v].at = "done"
    BY <1>0, <1>3 DEF Update
  <2>2. i \in Rows /\ i # NoRow  BY <1>0, <2>1 DEF Update
  <2>3. upd[v].at = "run"
    <3>1. upd[v].at # "read"
      BY <2>1, <2>2, <1>0 DEF Update, IInv, Places
    <3> QED  BY <3>1, <1>3, <1>0 DEF Update
  <2>4. /\ rows[i].live
        /\ rows[i].revision >= upd[v].revision
    BY <2>2, <2>3 DEF IInv, Reading
  <2>5. rows[i].revision \in Nat /\ upd[v].revision \in Nat
    BY <1>0, <2>2 DEF Row, Update
  <2>6. \/ rows'[i] = rows[i]
        \/ rows'[i].live /\ rows'[i].revision = rows[i].revision + 1
    BY <2>2, <2>4, RevisionsGrow
  <2> HIDE DEF i
  <2> QED  BY <2>1, <2>4, <2>5, <2>6
<1> QED  BY <1>1, <1>2, <1>3, UpdaterMoves

\* The history only grows: an entry stays where it is.
LEMMA HistoryGrows ==
  ASSUME IInv, [Next]_vars, NEW i \in Rows, NEW n \in DOMAIN history[i]
  PROVE  n \in DOMAIN history'[i] /\ history'[i][n] = history[i][n]
<1>0. history[i] \in Seq(Revision)  BY DEF IInv, TypeOK
<1>1. ASSUME NEW g \in Generators, NEW reply \in {"created", "unavailable"},
             GenInsert(g, reply)
      PROVE  history'[i] = history[i]
  <2>1. CASE i = g
    <3>1. history[i] = <<>>  BY <2>1, <1>1, InsertEffect
    <3> QED  BY <3>1
  <2>2. CASE i # g  BY <2>2, <1>1, InsertEffect
  <2> QED  BY <2>1, <2>2
<1>2. ASSUME NEW u \in Updaters, NEW reply \in {"revised", "unavailable"},
             UpdStore(u, reply)
      PROVE  n \in DOMAIN history'[i] /\ history'[i][n] = history[i][n]
  <2>1. CASE i = upd[u].row
    <3>1. PICK t \in Texts :
            history'[upd[u].row] = Append(history[upd[u].row], Entry(t, upd[u].text, u))
      BY <1>2, StoreEffect
    <3>2. history'[i] = Append(history[i], Entry(t, upd[u].text, u))
      BY <2>1, <3>1
    <3>3. n \in 1..Len(history[i]) /\ Len(history[i]) \in Nat  BY <1>0
    <3> QED  BY <3>2, <3>3, <1>0
  <2>2. CASE i # upd[u].row  BY <2>2, <1>2, StoreEffect
  <2> QED  BY <2>1, <2>2
<1>3. CASE ~Writes
  BY <1>3, OtherSteps
<1> QED  BY <1>1, <1>2, <1>3 DEF Writes

\* An entry that was not there before was stored by the step's updater, one
\* past the revision it read; or it is the one a generator inserted.
LEMMA EntryAdded ==
  ASSUME IInv, [Next]_vars, NEW i \in Rows, NEW n \in DOMAIN history'[i]
  PROVE  \/ n \in DOMAIN history[i] /\ history'[i][n] = history[i][n]
         \/ history'[i][n].by = NoRow
         \/ \E u \in Updaters, reply \in {"revised", "unavailable"} :
              /\ UpdStore(u, reply)
              /\ i = upd[u].row
              /\ n = upd[u].revision + 2
              /\ history'[i][n].by = u
<1>0. history[i] \in Seq(Revision)  BY DEF IInv, TypeOK
<1>1. ASSUME NEW g \in Generators, NEW reply \in {"created", "unavailable"},
             GenInsert(g, reply)
      PROVE  history'[i] = history[i] \/ history'[i][n].by = NoRow
  <2>1. CASE i = g
    <3>1. \E t \in Texts : history'[i] = <<Entry(t, "none", NoRow)>>
      BY <2>1, <1>1, InsertEffect
    <3>2. n = 1  BY <3>1
    <3> QED  BY <3>1, <3>2 DEF Entry
  <2>2. CASE i # g  BY <2>2, <1>1, InsertEffect
  <2> QED  BY <2>1, <2>2
<1>2. ASSUME NEW u \in Updaters, NEW reply \in {"revised", "unavailable"},
             UpdStore(u, reply), i = upd[u].row
      PROVE  \/ n \in DOMAIN history[i] /\ history'[i][n] = history[i][n]
             \/ /\ n = upd[u].revision + 2
                /\ history'[i][n].by = u
  <2>1. PICK t \in Texts : history'[i] = Append(history[i], Entry(t, upd[u].text, u))
    <3>1. PICK t \in Texts :
            history'[upd[u].row] = Append(history[upd[u].row], Entry(t, upd[u].text, u))
      BY <1>2, StoreEffect
    <3> QED  BY <3>1, <1>2
  <2>2. rows[i].live /\ rows[i].revision = upd[u].revision  BY <1>2, StoreEffect
  <2>3. Len(history[i]) = upd[u].revision + 1
    BY <2>2 DEF IInv, Recorded
  <2>4. upd[u].revision \in Nat  BY DEF IInv, TypeOK, Update
  <2>5. n \in 1..(Len(history[i]) + 1)  BY <2>1, <1>0
  <2>6. CASE n \in 1..Len(history[i])
    BY <2>6, <2>1, <1>0
  <2>7. CASE n = Len(history[i]) + 1
    <3>1. history'[i][n] = Entry(t, upd[u].text, u)  BY <2>7, <2>1, <1>0
    <3>2. n = upd[u].revision + 2  BY <2>7, <2>3, <2>4
    <3> QED  BY <3>1, <3>2 DEF Entry
  <2>8. Len(history[i]) \in Nat  BY <1>0
  <2> QED  BY <2>5, <2>6, <2>7, <2>8
<1>3. ASSUME NEW u \in Updaters, NEW reply \in {"revised", "unavailable"},
             UpdStore(u, reply), i # upd[u].row
      PROVE  history'[i] = history[i]
  BY <1>3, StoreEffect
<1>4. CASE ~Writes
  BY <1>4, OtherSteps
<1> QED  BY <1>1, <1>2, <1>3, <1>4 DEF Writes

\* An updater that stores appends its entry at the number it answers.
LEMMA StoreRecorded ==
  ASSUME IInv, NEW u \in Updaters, NEW reply \in {"revised", "unavailable"},
         UpdStore(u, reply)
  PROVE  /\ upd[u].revision + 2 \in DOMAIN history'[upd[u].row]
         /\ history'[upd[u].row][upd[u].revision + 2].by = u
<1> DEFINE i == upd[u].row
<1>1. PICK t \in Texts : history'[i] = Append(history[i], Entry(t, upd[u].text, u))
  BY StoreEffect
<1>2. i \in Rows /\ rows[i].live /\ rows[i].revision = upd[u].revision  BY StoreEffect
<1>3. Len(history[i]) = upd[u].revision + 1
  BY <1>2 DEF IInv, Recorded
<1>4. upd[u].revision \in Nat  BY DEF IInv, TypeOK, Update
<1>5. history[i] \in Seq(Revision)  BY <1>2 DEF IInv, TypeOK
<1>6. Len(history[i]) + 1 = upd[u].revision + 2  BY <1>3, <1>4
<1>7. /\ Len(history[i]) + 1 \in DOMAIN history'[i]
      /\ history'[i][Len(history[i]) + 1] = Entry(t, upd[u].text, u)
  BY <1>1, <1>5
<1> QED  BY <1>6, <1>7 DEF Entry

\* The answers stay true.
LEMMA StepAnswers == IInv /\ [Next]_vars => AnswersAreTrue'
<1> SUFFICES ASSUME IInv, [Next]_vars, NEW v \in Updaters
             PROVE  /\ upd'[v].reply = "revised" =>
                         /\ upd'[v].revision + 2 \in DOMAIN history'[upd'[v].row]
                         /\ history'[upd'[v].row][upd'[v].revision + 2].by = v
                    /\ \A i \in Rows : \A n \in DOMAIN history'[i] :
                         history'[i][n].by = v =>
                           /\ upd'[v].reply \in {"revised", "unavailable"}
                           /\ i = upd'[v].row
                           /\ n = upd'[v].revision + 2
  BY DEF AnswersAreTrue
<1>0. upd[v] \in Update  BY DEF IInv, TypeOK
<1>a. /\ upd[v].reply = "revised" =>
           /\ upd[v].revision + 2 \in DOMAIN history[upd[v].row]
           /\ history[upd[v].row][upd[v].revision + 2].by = v
      /\ \A i \in Rows : \A n \in DOMAIN history[i] :
           history[i][n].by = v =>
             /\ upd[v].reply \in {"revised", "unavailable"}
             /\ i = upd[v].row
             /\ n = upd[v].revision + 2
  BY DEF IInv, AnswersAreTrue
<1>1. upd'[v].reply = "revised" =>
        /\ upd'[v].revision + 2 \in DOMAIN history'[upd'[v].row]
        /\ history'[upd'[v].row][upd'[v].revision + 2].by = v
  <2> SUFFICES ASSUME upd'[v].reply = "revised"
               PROVE  /\ upd'[v].revision + 2 \in DOMAIN history'[upd'[v].row]
                      /\ history'[upd'[v].row][upd'[v].revision + 2].by = v
    OBVIOUS
  <2>1. CASE upd'[v] = upd[v]
    <3>1. upd[v].row \in Rows
      BY <2>1 DEF IInv, Places
    <3> QED  BY <3>1, <2>1, <1>a, HistoryGrows
  <2>2. ASSUME NEW reply \in UpdReplies \ {"none"},
               upd'[v] = [upd[v] EXCEPT !.at = "done", !.reply = reply],
               reply = "revised" => \E r \in {"revised", "unavailable"} : UpdStore(v, r)
        PROVE  /\ upd'[v].revision + 2 \in DOMAIN history'[upd'[v].row]
               /\ history'[upd'[v].row][upd'[v].revision + 2].by = v
    <3>1. /\ upd'[v].revision = upd[v].revision
          /\ upd'[v].row = upd[v].row
          /\ reply = "revised"
      BY <2>2, <1>0 DEF Update
    <3> QED  BY <3>1, <2>2, StoreRecorded
  <2>3. ASSUME NEW i \in Rows, upd[v].at = "read",
               upd'[v] = [upd[v] EXCEPT !.at = "run", !.row = i, !.revision = rows[i].revision]
        PROVE  FALSE
    <3>1. upd'[v].reply = upd[v].reply  BY <2>3, <1>0 DEF Update
    <3> QED  BY <3>1, <2>3 DEF IInv, Places
  <2> QED  BY <2>1, <2>2, <2>3, UpdaterMoves
<1>2. ASSUME NEW i \in Rows, NEW n \in DOMAIN history'[i], history'[i][n].by = v
      PROVE  /\ upd'[v].reply \in {"revised", "unavailable"}
             /\ i = upd'[v].row
             /\ n = upd'[v].revision + 2
  <2>1. CASE n \in DOMAIN history[i] /\ history'[i][n] = history[i][n]
    <3>1. /\ upd[v].reply \in {"revised", "unavailable"}
          /\ i = upd[v].row
          /\ n = upd[v].revision + 2
      BY <2>1, <1>2, <1>a
    <3>2. upd[v].at = "done"
      BY <3>1 DEF IInv, Places
    <3>3. upd'[v] = upd[v]
      BY <3>2, UpdaterMoves
    <3> QED  BY <3>1, <3>3
  <2>2. CASE history'[i][n].by = NoRow
    BY <2>2, <1>2, DisjointAssumption
  <2>3. ASSUME NEW u \in Updaters, NEW reply \in {"revised", "unavailable"},
               UpdStore(u, reply), i = upd[u].row, n = upd[u].revision + 2,
               history'[i][n].by = u
        PROVE  /\ upd'[v].reply \in {"revised", "unavailable"}
               /\ i = upd'[v].row
               /\ n = upd'[v].revision + 2
    <3>1. u = v  BY <2>3, <1>2
    <3>2. upd'[v] = [upd[v] EXCEPT !.at = "done", !.reply = reply]
      <4>1. upd \in [Updaters -> Update]  BY DEF IInv, TypeOK
      <4> QED  BY <4>1, <3>1, <2>3 DEF UpdStore, UpdAnswer
    <3>3. /\ upd'[v].reply = reply /\ upd'[v].row = upd[v].row
          /\ upd'[v].revision = upd[v].revision
      BY <3>2, <1>0 DEF Update
    <3> QED  BY <3>1, <3>3, <2>3
  <2> QED  BY <2>1, <2>2, <2>3, <1>2, EntryAdded
<1> QED  BY <1>1, <1>2

-----------------------------------------------------------------------------
(* The invariant holds. *)

\* Initially nothing has been generated and no entry has an author.
LEMMA InitIInv == Init => IInv
<1> SUFFICES ASSUME Init PROVE IInv
  OBVIOUS
<1>0. TypeOK  BY InitTypeOK
<1>1. rows \in [Rows -> [live : BOOLEAN, context : Contexts, guard : {FALSE},
                         authoritative : BOOLEAN, revision : {0}, text : Texts]]
  BY DEF Init
<1>2. \A i \in Rows : rows[i].guard = FALSE /\ rows[i].revision = 0
  BY <1>1
<1>3. \A g \in Generators : g \in Rows /\ ~rows[g].live /\ gen[g].at = "look"
  BY DEF Init, Rows
<1>4. \A u \in Updaters : /\ upd[u].at = "read" /\ upd[u].reply = "none"
                          /\ upd[u].row = NoRow
  BY DEF Init
<1>5. \A i \in Rows : history[i] = IF rows[i].live
                                     THEN <<Entry(rows[i].text, "none", NoRow)>> ELSE <<>>
  BY DEF Init
<1>6. GeneratedRowIsAlone  BY <1>2 DEF GeneratedRowIsAlone
<1>7. Generating  BY <1>3 DEF Generating
<1>8. Recorded
  <2> SUFFICES ASSUME NEW i \in Rows
               PROVE  /\ rows[i].live <=> history[i] # <<>>
                      /\ ~rows[i].live => rows[i].revision = 0
                      /\ rows[i].live =>
                           /\ Len(history[i]) = rows[i].revision + 1
                           /\ history[i][Len(history[i])].text = rows[i].text
    BY DEF Recorded
  <2>1. CASE rows[i].live
    <3>1. history[i] = <<Entry(rows[i].text, "none", NoRow)>>  BY <2>1, <1>5
    <3>2. Len(history[i]) = 1 /\ history[i] # <<>> /\ history[i][1].text = rows[i].text
      BY <3>1 DEF Entry
    <3> QED  BY <2>1, <3>2, <1>2
  <2>2. CASE ~rows[i].live
    BY <2>2, <1>2, <1>5
  <2> QED  BY <2>1, <2>2
<1>9. Reading  BY <1>4 DEF Reading
<1>10. Places  BY <1>4 DEF Places
<1>11. AnswersAreTrue
  <2>1. ASSUME NEW u \in Updaters, NEW i \in Rows, NEW n \in DOMAIN history[i]
        PROVE  history[i][n].by # u
    <3>1. history[i] = <<Entry(rows[i].text, "none", NoRow)>>
      <4>1. CASE rows[i].live  BY <4>1, <1>5
      <4>2. CASE ~rows[i].live
        <5>1. history[i] = <<>>  BY <4>2, <1>5
        <5> QED  BY <5>1
      <4> QED  BY <4>1, <4>2
    <3>2. n = 1  BY <3>1
    <3>3. history[i][n].by = NoRow  BY <3>1, <3>2 DEF Entry
    <3> QED  BY <3>3, DisjointAssumption
  <2>2. \A u \in Updaters : upd[u].reply # "revised"  BY <1>4
  <2> QED  BY <2>1, <2>2 DEF AnswersAreTrue
<1> QED  BY <1>0, <1>6, <1>7, <1>8, <1>9, <1>10, <1>11 DEF IInv

\* Every step keeps the inductive invariant.
LEMMA StepIInv == IInv /\ [Next]_vars => IInv'
<1> SUFFICES ASSUME IInv, [Next]_vars PROVE IInv'
  OBVIOUS
<1>1. TypeOK'  BY StepTypeOK DEF IInv
<1> QED  BY <1>1, StepAlone, StepGenerating, StepRecorded, StepReading, StepPlaces,
            StepAnswers DEF IInv

\* generate_policy_payload and update_policy_payload keep the invariant,
\* however many requests run at once.
THEOREM Invariance == Spec => []IInv
<1>1. Init => IInv  BY InitIInv
<1>2. IInv /\ [Next]_vars => IInv'  BY StepIInv
<1> QED  BY <1>1, <1>2, PTL DEF Spec

\* The documents and what each handler holds of them keep their form.
THEOREM TypeCorrect == Spec => []TypeOK
<1>1. IInv => TypeOK  BY DEF IInv
<1> QED  BY <1>1, Invariance, PTL

\* However many requests looked before any of them inserted, the policy that
\* was generated is the only one of its context.
THEOREM OneGeneratedPolicy == Spec => []GeneratedRowIsAlone
<1>1. IInv => GeneratedRowIsAlone  BY DEF IInv
<1> QED  BY <1>1, Invariance, PTL

\* An acknowledged revision is in the history under the number that was
\* answered, and a refused request left no trace.
THEOREM TrueAnswers == Spec => []AnswersAreTrue
<1>1. IInv => AnswersAreTrue  BY DEF IInv
<1> QED  BY <1>1, Invariance, PTL

-----------------------------------------------------------------------------
(* The collection implements the versioned policies. *)

\* The versions of an extended history are the versions of the history,
\* extended.
LEMMA VersionsOfAppend ==
  ASSUME NEW h \in Seq(Revision), NEW e
  PROVE  [n \in 1..Len(Append(h, e)) |-> Version(Append(h, e)[n])]
           = Append([n \in 1..Len(h) |-> Version(h[n])], Version(e))
<1> DEFINE V == [n \in 1..Len(h) |-> Version(h[n])]
           W == [n \in 1..Len(Append(h, e)) |-> Version(Append(h, e)[n])]
           S == {Version(h[n]) : n \in 1..Len(h)} \cup {Version(e)}
<1>1. /\ Len(h) \in Nat /\ Len(Append(h, e)) = Len(h) + 1
      /\ \A n \in 1..(Len(h) + 1) : n = Len(h) + 1 \/ n \in 1..Len(h)
  OBVIOUS
<1>2. V \in Seq(S) /\ Len(V) = Len(h)
  BY <1>1
<1>3. \A n \in 1..Len(h) : V[n] = Version(h[n]) /\ W[n] = Version(h[n])
  BY <1>1
<1>4. W[Len(h) + 1] = Version(e)
  BY <1>1
<1>5. W \in Seq(S) /\ Len(W) = Len(h) + 1
  <2>1. \A n \in 1..(Len(h) + 1) : W[n] \in S
    BY <1>1, <1>3, <1>4
  <2>2. W = [n \in 1..(Len(h) + 1) |-> W[n]]
    BY <1>1
  <2> HIDE DEF W, S
  <2> QED  BY <2>1, <2>2, <1>1
<1>6. Version(e) \in S
  OBVIOUS
<1> HIDE DEF V, W, S
<1>7. /\ Append(V, Version(e)) \in Seq(S)
      /\ Len(Append(V, Version(e))) = Len(V) + 1
      /\ \A n \in 1..Len(V) : Append(V, Version(e))[n] = V[n]
      /\ Append(V, Version(e))[Len(V) + 1] = Version(e)
  BY <1>2, <1>6, AppendProperties
<1>8. \A n \in 1..(Len(h) + 1) : W[n] = Append(V, Version(e))[n]
  BY <1>1, <1>2, <1>3, <1>4, <1>7
<1>9. W = Append(V, Version(e))
  BY <1>2, <1>5, <1>7, <1>8, SeqEqual
<1> QED  BY <1>9 DEF V, W

\* One row's history changes, one policy's versions change.
LEMMA VersionsExcept ==
  ASSUME TypeOK, NEW i \in Rows, NEW h, history' = [history EXCEPT ![i] = h]
  PROVE  Versions' = [Versions EXCEPT ![i] = [n \in 1..Len(h) |-> Version(h[n])]]
<1>1. history \in [Rows -> Seq(Revision)]  BY DEF TypeOK
<1>2. \A k \in Rows : history'[k] = IF k = i THEN h ELSE history[k]
  BY <1>1
<1>3. \A k \in Rows : Versions'[k] = [n \in 1..Len(history'[k]) |-> Version(history'[k][n])]
  BY DEF Versions
<1>4. \A k \in Rows : Versions[k] = [n \in 1..Len(history[k]) |-> Version(history[k][n])]
  BY DEF Versions
<1> DEFINE w == [n \in 1..Len(h) |-> Version(h[n])]
<1>5. ASSUME NEW k \in Rows PROVE Versions'[k] = IF k = i THEN w ELSE Versions[k]
  <2>1. CASE k = i
    <3>1. history'[k] = h  BY <2>1, <1>2
    <3>2. Versions'[k] = [n \in 1..Len(history'[k]) |-> Version(history'[k][n])]  BY <1>3
    <3> QED  BY <2>1, <3>1, <3>2
  <2>2. CASE k # i
    <3>1. history'[k] = history[k]  BY <2>2, <1>2
    <3>2. Versions'[k] = [n \in 1..Len(history'[k]) |-> Version(history'[k][n])]  BY <1>3
    <3>3. Versions[k] = [n \in 1..Len(history[k]) |-> Version(history[k][n])]  BY <1>4
    <3> QED  BY <2>2, <3>1, <3>2, <3>3
  <2> QED  BY <2>1, <2>2
<1>6. Versions = [k \in Rows |-> Versions[k]]
  BY DEF Versions
<1>7. Versions' = [k \in Rows |-> Versions'[k]]
  <2>1. Versions' = [k \in Rows |-> [n \in 1..Len(history'[k]) |-> Version(history'[k][n])]]
    BY DEF Versions
  <2> QED  BY <2>1
<1> HIDE DEF w
<1>8. Versions' = [Versions EXCEPT ![i] = w]
  BY <1>5, <1>6, <1>7
<1> QED  BY <1>8 DEF w

\* No step hands a row to another context.
LEMMA OwnersStay == IInv /\ [Next]_vars => UNCHANGED Owners
<1> SUFFICES ASSUME IInv, [Next]_vars PROVE Owners' = Owners
  OBVIOUS
<1>1. \A i \in Rows : rows'[i].context = rows[i].context  BY RowsStay
<1>2. /\ Owners = [i \in Rows |-> rows[i].context]
      /\ Owners' = [i \in Rows |-> rows'[i].context]
  BY DEF Owners
<1> QED  BY <1>1, <1>2

\* An insert generates a policy for a context that has none.
LEMMA InsertGenerates ==
  ASSUME IInv, [Next]_vars, NEW g \in Generators,
         NEW reply \in {"created", "unavailable"}, GenInsert(g, reply)
  PROVE  \E p \in Rows, t \in Texts : Promise!Generate(p, t)
<1>1. /\ g \in Rows
      /\ \A i \in Rows : ~(rows[i].live /\ rows[i].context = rows[g].context)
  BY InsertEffect
<1>2. PICK t \in Texts : history' = [history EXCEPT ![g] = <<Entry(t, "none", NoRow)>>]
  BY InsertEffect
<1>3. ~Promise!HasPolicy(Owners[g])
  <2>1. ASSUME NEW i \in Rows, Owners[i] = Owners[g], Versions[i] # <<>>
        PROVE  FALSE
    <3>1. rows[i].context = rows[g].context  BY <1>1, <2>1 DEF Owners
    <3>2. history[i] = <<>>  BY <1>1, <3>1 DEF IInv, Recorded
    <3>3. Versions[i] = [n \in 1..0 |-> Version(history[i][n])]  BY <3>2 DEF Versions
    <3> QED  BY <3>3, <2>1
  <2> QED  BY <2>1 DEF Promise!HasPolicy
<1>4. Versions' = [Versions EXCEPT ![g] = <<[text |-> t, basis |-> "none"]>>]
  <2> DEFINE h == <<Entry(t, "none", NoRow)>>
  <2>1. [n \in 1..Len(h) |-> Version(h[n])] = <<[text |-> t, basis |-> "none"]>>
    <3>1. Len(h) = 1 /\ h[1] = Entry(t, "none", NoRow)  OBVIOUS
    <3>2. Version(h[1]) = [text |-> t, basis |-> "none"]  BY <3>1 DEF Version, Entry
    <3> HIDE DEF h
    <3>3. \A n \in 1..1 : n = 1  OBVIOUS
    <3> DEFINE v == [text |-> t, basis |-> "none"]
               W == [n \in 1..Len(h) |-> Version(h[n])]
    <3>4. W \in Seq({v}) /\ Len(W) = 1 /\ W[1] = v
      BY <3>1, <3>2, <3>3
    <3>5. <<v>> \in Seq({v}) /\ Len(<<v>>) = 1 /\ <<v>>[1] = v
      OBVIOUS
    <3> HIDE DEF W, v
    <3>6. W = <<v>>
      BY <3>3, <3>4, <3>5, SeqEqual
    <3> QED  BY <3>6 DEF W, v
  <2>2. Versions' = [Versions EXCEPT ![g] = [n \in 1..Len(h) |-> Version(h[n])]]
    <3> HIDE DEF h
    <3>1. history' = [history EXCEPT ![g] = h]  BY <1>2 DEF h
    <3>2. TypeOK  BY DEF IInv
    <3> QED  BY <1>1, <3>1, <3>2, VersionsExcept
  <2> HIDE DEF h
  <2> QED  BY <2>1, <2>2
<1>5. UNCHANGED Owners  BY OwnersStay
<1> QED  BY <1>1, <1>3, <1>4, <1>5 DEF Promise!Generate

\* A stored update revises a policy, from the text it replaces.
LEMMA StoreRevises ==
  ASSUME IInv, [Next]_vars, NEW u \in Updaters,
         NEW reply \in {"revised", "unavailable"}, UpdStore(u, reply)
  PROVE  \E p \in Rows, t \in Texts : Promise!Revise(p, t)
<1> DEFINE i == upd[u].row
<1>1. i \in Rows /\ rows[i].live /\ rows[i].text = upd[u].text  BY StoreEffect
<1>2. PICK t \in Texts : history' = [history EXCEPT ![i] = Append(@, Entry(t, upd[u].text, u))]
  BY StoreEffect
<1>3. /\ history[i] \in Seq(Revision) /\ rows[i].revision \in Nat
  BY <1>1 DEF IInv, TypeOK, Row
<1>4. /\ Len(history[i]) = rows[i].revision + 1
      /\ history[i][Len(history[i])].text = upd[u].text
  BY <1>1 DEF IInv, Recorded
<1>5. /\ Versions[i] = [n \in 1..Len(history[i]) |-> Version(history[i][n])]
      /\ Len(Versions[i]) = Len(history[i])
  BY <1>1, <1>3 DEF Versions
<1>6. Versions[i] # <<>>
  BY <1>3, <1>4, <1>5
<1>7. Promise!LastText(i) = upd[u].text
  <2>1. Len(history[i]) \in 1..Len(history[i])  BY <1>3, <1>4
  <2>2. Versions[i][Len(Versions[i])] = Version(history[i][Len(history[i])])
    BY <1>5, <2>1
  <2> QED  BY <2>2, <1>4 DEF Promise!LastText, Version
<1>8. Versions' = [Versions EXCEPT ![i] = Append(@, [text |-> t, basis |-> upd[u].text])]
  <2> DEFINE e == Entry(t, upd[u].text, u)
             h == Append(history[i], e)
  <2>0. history \in [Rows -> Seq(Revision)]  BY DEF IInv, TypeOK
  <2>1. history' = [history EXCEPT ![i] = h]  BY <1>1, <1>2, <2>0
  <2>2. [n \in 1..Len(h) |-> Version(h[n])] = Append(Versions[i], Version(e))
    BY <1>3, <1>5, VersionsOfAppend
  <2>3. Version(e) = [text |-> t, basis |-> upd[u].text]  BY DEF Version, Entry
  <2>4. Versions' = [Versions EXCEPT ![i] = [n \in 1..Len(h) |-> Version(h[n])]]
    <3> HIDE DEF h, i
    <3> QED  BY <1>1, <2>1, VersionsExcept DEF IInv
  <2>5. i \in DOMAIN Versions  BY <1>1 DEF Versions
  <2> HIDE DEF h, e
  <2> QED  BY <2>2, <2>3, <2>4, <2>5
<1>9. UNCHANGED Owners  BY OwnersStay
<1> HIDE DEF i
<1>10. Promise!Revise(i, t)
  BY <1>6, <1>7, <1>8, <1>9 DEF Promise!Revise
<1> QED  BY <1>1, <1>10

\* The handlers implement the versioned policies: a policy is generated only
\* for a context that has none, and every revision is derived from the one it
\* replaces, so none is lost.
THEOREM Refinement == Spec => ImplementsPromise
<1>1. IInv /\ [Next]_vars => [Promise!Next]_<<Owners, Versions>>
  <2> SUFFICES ASSUME IInv, [Next]_vars PROVE [Promise!Next]_<<Owners, Versions>>
    OBVIOUS
  <2>1. ASSUME NEW g \in Generators, NEW reply \in {"created", "unavailable"},
               GenInsert(g, reply)
        PROVE  Promise!Next
    BY <2>1, InsertGenerates DEF Promise!Next
  <2>2. ASSUME NEW u \in Updaters, NEW reply \in {"revised", "unavailable"},
               UpdStore(u, reply)
        PROVE  Promise!Next
    BY <2>2, StoreRevises DEF Promise!Next
  <2>3. CASE ~Writes
    BY <2>3, OtherSteps DEF Owners, Versions
  <2> QED  BY <2>1, <2>2, <2>3 DEF Writes
<1> QED  BY <1>1, Invariance, PTL DEF Spec, ImplementsPromise, Promise!Spec, Promise!vars
=============================================================================
