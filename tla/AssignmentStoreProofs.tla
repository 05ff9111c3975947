------------------------ MODULE AssignmentStoreProofs ------------------------
(***************************************************************************)
(* Theorems about the worker assignment store, for any number of actors,   *)
(* issues, deliverables and publications.                                  *)
(***************************************************************************)
EXTENDS AssignmentStore, FiniteSetTheorems, TLAPS

(* Ids are made in order, so that a published row has a new one.           *)
Minted ==
    /\ \A k \in Taken : rows[k].id <= minted
    /\ \A a \in Actors : seen[a] # NoRow => seen[a].id <= minted
    /\ primary # NoPointer => primary.id <= minted

(* An id is at one key.                                                    *)
Distinct == \A j, k \in Taken : rows[j].id = rows[k].id => j = k

(* What was read of an assignment's issue is still so, if the assignment   *)
(* is still there.                                                         *)
SeenIssue == \A a \in Actors, k \in Taken :
    seen[a] # NoRow /\ rows[k].id = seen[a].id
        => seen[a].issue \in {None, rows[k].issue}

(* A publisher that names a predecessor publishes for its issue.           *)
GoalOfSeen == \A a \in Actors :
    stage[a] \in {"publish", "admit"} /\ seen[a] # NoRow
        => seen[a].issue = goal[a] /\ goal[a] # None

Inv == TypeOK /\ Minted /\ Distinct /\ SeenIssue /\ GoalOfSeen /\ IssueUnique /\ FenceHolds

(* NoRow and NoPointer are told apart from rows and pointers.              *)
LEMMA NoneApart == NoRow \notin Row /\ NoPointer \notin Pointer
  BY DEF NoRow, NoPointer, Row, Pointer

(* The fields of a row, and of the pointer to it. *)
LEMMA RowFields ==
  ASSUME NEW r \in Row
  PROVE  /\ r # NoRow
         /\ r.key \in Keys /\ r.id \in Nat \ {0} /\ r.gen \in Nat \ {0}
         /\ r.issue \in Issues \cup {None} /\ r.ticks \in 0 .. Bound
         /\ bindingFor(r) \in Pointer /\ bindingFor(r) # NoPointer
         /\ bindingFor(r).key = r.key /\ bindingFor(r).id = r.id
  BY DEF Row, NoRow, bindingFor, Pointer, NoPointer

(* The initial state has the types and satisfies the invariant.            *)
LEMMA InitInv == Init => Inv
  BY AssignmentStoreAssumption, NoneApart
  DEF Init, Inv, TypeOK, Minted, Distinct, SeenIssue, GoalOfSeen, IssueUnique, FenceHolds,
      Taken, Has, Stages, InFence, Current

(* Only the actor that acts changes its own part of the state.             *)
LEMMA ViewOf ==
  ASSUME TypeOK, NEW a \in Actors, NEW s, NEW r, NEW i, NEW p, View(a, s, r, i, p)
  PROVE  /\ stage'[a] = s /\ seen'[a] = r /\ goal'[a] = i /\ ptr'[a] = p
         /\ \A b \in Actors \ {a} : /\ stage'[b] = stage[b] /\ seen'[b] = seen[b]
                                    /\ goal'[b] = goal[b] /\ ptr'[b] = ptr[b]
  BY DEF TypeOK, View

(* It keeps the types of what actors own.                                  *)
LEMMA ViewType ==
  ASSUME TypeOK, NEW a \in Actors, NEW s \in Stages, NEW r \in Row \cup {NoRow},
         NEW i \in Issues \cup {None}, NEW p \in Pointer \cup {NoPointer}, View(a, s, r, i, p)
  PROVE  /\ stage' \in [Actors -> Stages]
         /\ seen' \in [Actors -> Row \cup {NoRow}]
         /\ goal' \in [Actors -> Issues \cup {None}]
         /\ ptr' \in [Actors -> Pointer \cup {NoPointer}]
  BY DEF TypeOK, View

(* What a publisher reads: a row of its issue, or none.                    *)
LEMMA ReadIssueReads ==
  ASSUME TypeOK, NEW a \in Actors, NEW i \in Issues \cup {None}, ReadIssue(a, i)
  PROVE  \E r \in Row \cup {NoRow} :
           /\ View(a, "publish", r, i, NoPointer)
           /\ r # NoRow => i # None /\ r.issue = i /\ r.key \in Taken /\ rows[r.key] = r
<1>1. CASE \E k \in Keys : Holders(i) = {k}
  <2>1. PICK k \in Keys : /\ Holders(i) = {k}
                          /\ k = CHOOSE j \in Keys : Holders(i) = {j}
    BY <1>1
  <2>2. k \in Taken /\ i # None /\ rows[k].issue = i
    BY <2>1 DEF Holders
  <2>3. rows[k] \in Row /\ rows[k].key = k
    BY <2>2 DEF TypeOK, Taken, Has
  <2>4. View(a, "publish", rows[k], i, NoPointer)
    BY <1>1, <2>1 DEF ReadIssue
  <2> QED
    BY <2>2, <2>3, <2>4
<1>2. CASE ~ \E k \in Keys : Holders(i) = {k}
  BY <1>2 DEF ReadIssue
<1> QED
  BY <1>1, <1>2

(* The step of one actor, its inputs left out.                             *)
Step(a) ==
    \/ \E i \in Issues \cup {None} : ReadIssue(a, i)
    \/ \E k \in Keys : ReadRow(a, k)
    \/ ReadPrimary(a)
    \/ \E k \in Keys, kind \in {"local", "remote"} : Publish(a, k, kind)
    \/ \E i \in Issues : Attach(a, i)
    \/ \E t \in 0 .. Bound : SetTicks(a, t)
    \/ Retire(a)
    \/ \E k \in Keys : Bind(a, k)
    \/ Unbind(a)
    \/ Enter(a)
    \/ EnterAdmission(a)
    \/ EnterPrimary(a)
    \/ Leave(a)
    \/ Fail(a)

(* What a step does to the rows.  A publication puts a new assignment at   *)
(* its key and removes nothing else but its predecessor; every other       *)
(* change leaves a row its identity, or retires it.                        *)
Published(a, k) ==
    /\ stage[a] = "publish" /\ Free /\ Publishable(a, k)
    /\ minted' = minted + 1 /\ minted' \in 0 .. MaxIds
    /\ rows'[k] \in Row /\ rows'[k].key = k /\ rows'[k].id = minted'
    /\ rows'[k].issue = goal[a]
    /\ \A j \in Keys \ {k} :
         rows'[j] = IF seen[a] # NoRow /\ j \in expectedEntry(seen[a]) THEN NoRow ELSE rows[j]
    /\ primary' = primary /\ fence' = fence
    /\ Done(a)

(* The facts of a publication. *)
LEMMA PublishDoes ==
  ASSUME TypeOK, NEW a \in Actors, NEW k \in Keys, NEW kind \in {"local", "remote"},
         Publish(a, k, kind)
  PROVE  Published(a, k) /\ rows' \in [Keys -> Row \cup {NoRow}]
<1>1. minted' = minted + 1 /\ minted' \in 0 .. MaxIds /\ minted' \in Nat \ {0}
  BY AssignmentStoreAssumption DEF Publish, TypeOK
<1>2. PICK g \in Nat \ {0} :
        /\ rows'[k] = [key |-> k, id |-> minted + 1, gen |-> g,
                       issue |-> goal[a], kind |-> kind, ticks |-> 0]
        /\ \A j \in Keys \ {k} : rows'[j] =
             IF seen[a] # NoRow /\ j \in expectedEntry(seen[a]) THEN NoRow ELSE rows[j]
  <2>1. (IF seen[a] = NoRow THEN 1 ELSE seen[a].gen + 1) \in Nat \ {0}
    BY RowFields DEF TypeOK
  <2> QED
    BY <2>1 DEF Publish
<1>3. rows'[k] \in Row
  BY <1>1, <1>2, AssignmentStoreAssumption DEF Row, TypeOK
<1>4. rows'[k].key = k /\ rows'[k].id = minted' /\ rows'[k].issue = goal[a]
  BY <1>1, <1>2
<1>5. rows' \in [Keys -> Row \cup {NoRow}]
  <2>1. \A j \in Keys : rows'[j] \in Row \cup {NoRow}
    BY <1>2, <1>3 DEF TypeOK
  <2>2. rows' = [j \in Keys |-> rows'[j]]
    BY DEF Publish
  <2> QED
    BY <2>1, <2>2
<1> QED
  BY <1>1, <1>2, <1>3, <1>4, <1>5 DEF Published, Publish, Usable

(* A change of the issue or the ticks of a row keeps its key and identity. *)
LEMMA Edited ==
  ASSUME NEW r \in Row
  PROVE  /\ \A i \in Issues \cup {None} :
              LET s == [r EXCEPT !.issue = i]
              IN  s \in Row /\ s.key = r.key /\ s.id = r.id /\ s.gen = r.gen /\ s.issue = i
         /\ \A t \in 0 .. Bound :
              LET s == [r EXCEPT !.ticks = t]
              IN  s \in Row /\ s.key = r.key /\ s.id = r.id /\ s.gen = r.gen /\ s.issue = r.issue
  BY DEF Row

(* An edit of one row by an actor: it keeps its key and its identity, its  *)
(* issue too if it had one, and gets no issue another row has.             *)
EditedAt(a, k) ==
    /\ stage[a] = "edit" /\ Free /\ k \in Taken
    /\ rows'[k] \in Row /\ rows'[k].key = k
    /\ rows'[k].id = rows[k].id /\ rows'[k].gen = rows[k].gen
    /\ rows[k].issue \in {None, rows'[k].issue}
    /\ \A j \in Taken \ {k} : rows'[k].issue = None \/ rows'[k].issue # rows[j].issue
                                \/ rows'[k].issue = rows[k].issue
    /\ rows' = [rows EXCEPT ![k] = rows'[k]]
    /\ minted' = minted /\ primary' = primary /\ fence' = fence

(* The facts of an attachment. *)
LEMMA AttachDoes ==
  ASSUME TypeOK, NEW a \in Actors, NEW i \in Issues, Attach(a, i)
  PROVE  EditedAt(a, seen[a].key) /\ Done(a)
<1>1. seen[a] \in Row /\ rows[seen[a].key] = seen[a] /\ seen[a].key \in Taken
  BY NoneApart, RowFields DEF TypeOK, Attach, Current, Taken, Has
<1>2. rows' = [rows EXCEPT ![seen[a].key] = [rows[seen[a].key] EXCEPT !.issue = i]]
  BY DEF Attach
<1>3. rows'[seen[a].key] = [rows[seen[a].key] EXCEPT !.issue = i]
  BY <1>1, <1>2 DEF TypeOK, Taken
<1>4. \A j \in Taken \ {seen[a].key} : rows[j].issue # i
  BY AssignmentStoreAssumption DEF Attach, Holders
<1>5. stage[a] = "edit" /\ Free /\ seen[a].issue \in {None, i} /\ Done(a)
      /\ minted' = minted /\ primary' = primary /\ fence' = fence
  BY DEF Attach, Usable
<1>6. /\ rows'[seen[a].key] \in Row
      /\ rows'[seen[a].key].key = seen[a].key
      /\ rows'[seen[a].key].id = seen[a].id /\ rows'[seen[a].key].gen = seen[a].gen
      /\ rows'[seen[a].key].issue = i
  BY <1>1, <1>3, Edited
<1> QED
  BY <1>1, <1>2, <1>3, <1>4, <1>5, <1>6 DEF EditedAt

(* The facts of a change of the dead observation ticks. *)
LEMMA SetTicksDoes ==
  ASSUME TypeOK, NEW a \in Actors, NEW t \in 0 .. Bound, SetTicks(a, t)
  PROVE  /\ EditedAt(a, seen[a].key)
         /\ View(a, "edit", rows'[seen[a].key], None, NoPointer)
<1>1. seen[a].key \in Taken
  BY RowFields DEF TypeOK, SetTicks, Taken
<1>2. rows' = [rows EXCEPT ![seen[a].key] = [rows[seen[a].key] EXCEPT !.ticks = t]]
  BY DEF SetTicks
<1>3. rows'[seen[a].key] = [rows[seen[a].key] EXCEPT !.ticks = t]
  BY <1>1, <1>2 DEF TypeOK, Taken
<1>4. stage[a] = "edit" /\ Free
      /\ minted' = minted /\ primary' = primary /\ fence' = fence
  BY DEF SetTicks, Usable
<1>5. View(a, "edit", rows'[seen[a].key], None, NoPointer)
  BY DEF SetTicks
<1>6. rows[seen[a].key] \in Row /\ rows[seen[a].key].key = seen[a].key
  BY <1>1 DEF TypeOK, Taken, Has
<1>7. /\ rows'[seen[a].key] \in Row
      /\ rows'[seen[a].key].key = seen[a].key
      /\ rows'[seen[a].key].id = rows[seen[a].key].id
      /\ rows'[seen[a].key].gen = rows[seen[a].key].gen
      /\ rows'[seen[a].key].issue = rows[seen[a].key].issue
  BY <1>3, <1>6, Edited
<1> QED
  BY <1>1, <1>2, <1>3, <1>4, <1>5, <1>7 DEF EditedAt

(* A retirement. *)
RetiredAt(a, k) ==
    /\ stage[a] = "edit" /\ Free /\ k \in Taken
    /\ primary # bindingFor(rows[k])
    /\ rows' = [rows EXCEPT ![k] = NoRow]
    /\ minted' = minted /\ primary' = primary /\ fence' = fence

(* The facts of a retirement. *)
LEMMA RetireDoes ==
  ASSUME TypeOK, NEW a \in Actors, Retire(a)
  PROVE  RetiredAt(a, seen[a].key) /\ Done(a)
<1>1. seen[a] \in Row /\ rows[seen[a].key] = seen[a] /\ seen[a].key \in Taken
  BY NoneApart, RowFields DEF TypeOK, Retire, Retirable, Current, Taken, Has
<1> QED
  BY <1>1 DEF Retire, Retirable, RetiredAt, Usable

(* Every step publishes, edits or retires one row, or leaves the rows.     *)
LEMMA RowsStep ==
  ASSUME TypeOK, NEW a \in Actors, Step(a)
  PROVE  \/ \E k \in Keys : Published(a, k) /\ rows' \in [Keys -> Row \cup {NoRow}]
         \/ \E k \in Taken : EditedAt(a, k)
         \/ \E k \in Taken : RetiredAt(a, k)
         \/ rows' = rows /\ minted' = minted
<1>1. CASE \E k \in Keys, kind \in {"local", "remote"} : Publish(a, k, kind)
  BY <1>1, PublishDoes
<1>2. CASE \E i \in Issues : Attach(a, i)
  BY <1>2, AttachDoes DEF EditedAt
<1>3. CASE \E t \in 0 .. Bound : SetTicks(a, t)
  BY <1>3, SetTicksDoes DEF EditedAt
<1>4. CASE Retire(a)
  BY <1>4, RetireDoes DEF RetiredAt
<1>5. CASE \/ \E i \in Issues \cup {None} : ReadIssue(a, i)
           \/ \E k \in Keys : ReadRow(a, k)
           \/ ReadPrimary(a)
           \/ \E k \in Keys : Bind(a, k)
           \/ Unbind(a)
           \/ Enter(a)
           \/ EnterAdmission(a)
           \/ EnterPrimary(a)
           \/ Leave(a)
           \/ Fail(a)
  BY <1>5 DEF ReadIssue, ReadRow, ReadPrimary, Bind, Unbind, Enter, EnterAdmission,
     EnterPrimary, Leave, Fail
<1> QED
  BY <1>1, <1>2, <1>3, <1>4, <1>5 DEF Step

(* An actor keeps what it read, drops it, or reads what is in the file.    *)
LEMMA SeenStep ==
  ASSUME TypeOK, NEW a \in Actors, Step(a)
  PROVE  /\ \A b \in Actors \ {a} : /\ stage'[b] = stage[b] /\ seen'[b] = seen[b]
                                    /\ goal'[b] = goal[b] /\ ptr'[b] = ptr[b]
         /\ \/ seen'[a] \in {NoRow, seen[a]}
            \/ seen'[a] \in Row /\ seen'[a].key \in Taken' /\ rows'[seen'[a].key] = seen'[a]
<1>1. CASE \E i \in Issues \cup {None} : ReadIssue(a, i)
  <2>1. PICK i \in Issues \cup {None} : ReadIssue(a, i)
    BY <1>1
  <2>2. PICK r \in Row \cup {NoRow} :
          /\ View(a, "publish", r, i, NoPointer)
          /\ r # NoRow => r.key \in Taken /\ rows[r.key] = r
    BY <2>1, ReadIssueReads
  <2>3. rows' = rows
    BY <2>1 DEF ReadIssue
  <2> QED
    BY <2>2, <2>3, ViewOf DEF Taken, Has
<1>2. CASE \E k \in Keys : ReadRow(a, k)
  <2>1. PICK k \in Keys : ReadRow(a, k)
    BY <1>2
  <2>2. View(a, "edit", rows[k], None, NoPointer) /\ rows' = rows
    BY <2>1 DEF ReadRow
  <2>3. rows[k] \in Row /\ rows[k].key = k /\ k \in Taken
    BY <2>1 DEF ReadRow, TypeOK, Taken, Has
  <2> QED
    BY <2>2, <2>3, ViewOf DEF Taken, Has
<1>3. CASE \E t \in 0 .. Bound : SetTicks(a, t)
  <2>1. PICK t \in 0 .. Bound : SetTicks(a, t)
    BY <1>3
  <2>2. EditedAt(a, seen[a].key) /\ View(a, "edit", rows'[seen[a].key], None, NoPointer)
    BY <2>1, SetTicksDoes
  <2>3. seen'[a] = rows'[seen[a].key] /\ seen'[a] \in Row /\ seen'[a].key = seen[a].key
    BY <2>2, ViewOf DEF EditedAt
  <2>4. seen[a].key \in Taken'
    BY <2>2, NoneApart DEF EditedAt, Taken, Has
  <2> QED
    BY <2>2, <2>3, <2>4, ViewOf
<1>4. CASE EnterPrimary(a)
  <2>1. View(a, "primary", Target(primary), None, primary) /\ rows' = rows
    BY <1>4 DEF EnterPrimary
  <2>2. Target(primary) # NoRow
    BY <1>4 DEF EnterPrimary
  <2>3. Has(primary.key) /\ primary \in Pointer /\ Target(primary) = rows[primary.key]
    BY <2>2 DEF Target, TypeOK
  <2>4. primary.key \in Taken /\ rows[primary.key] \in Row /\ rows[primary.key].key = primary.key
    BY <2>3 DEF TypeOK, Taken, Has, Pointer
  <2> QED
    BY <2>1, <2>3, <2>4, ViewOf DEF Taken, Has
<1>5. CASE \/ ReadPrimary(a)
           \/ \E k \in Keys, kind \in {"local", "remote"} : Publish(a, k, kind)
           \/ \E i \in Issues : Attach(a, i)
           \/ Retire(a)
           \/ \E k \in Keys : Bind(a, k)
           \/ Unbind(a)
           \/ Fail(a)
  <2>1. (\E p \in Pointer \cup {NoPointer} : View(a, "bind", NoRow, None, p)) \/ Done(a)
    BY <1>5 DEF ReadPrimary, Publish, Attach, Retire, Bind, Unbind, Fail, TypeOK
  <2> QED
    BY <2>1, ViewOf DEF Done
<1>6. CASE Enter(a) \/ EnterAdmission(a)
  BY <1>6, ViewOf DEF Enter, EnterAdmission
<1>7. CASE Leave(a)
  BY <1>7, ViewOf DEF Leave, After, InFence, Done
<1> QED
  BY <1>1, <1>2, <1>3, <1>4, <1>5, <1>6, <1>7 DEF Step

(* The ids in use were made, and a new one is new.                         *)
LEMMA MintedStep == ASSUME Inv, NEW a \in Actors, Step(a) PROVE Minted'
<1> USE DEF Inv
<1>1. minted \in Nat /\ minted' \in Nat /\ minted <= minted'
  BY RowsStep, AssignmentStoreAssumption DEF TypeOK, Published, EditedAt, RetiredAt
<1>2. \A k \in Taken' : rows'[k].id <= minted'
  <2>1. CASE \E k \in Keys : Published(a, k)
    BY <2>1, <1>1, RowFields DEF Published, Minted, TypeOK, Taken, Has
  <2>2. CASE \E k \in Taken : EditedAt(a, k)
    BY <2>2, <1>1 DEF EditedAt, Minted, TypeOK, Taken, Has
  <2>3. CASE \E k \in Taken : RetiredAt(a, k)
    BY <2>3, <1>1 DEF RetiredAt, Minted, TypeOK, Taken, Has
  <2>4. CASE rows' = rows /\ minted' = minted
    BY <2>4 DEF Minted, Taken, Has
  <2> QED
    BY <2>1, <2>2, <2>3, <2>4, RowsStep
<1>3. \A b \in Actors : seen'[b] # NoRow => seen'[b].id <= minted'
  <2> SUFFICES ASSUME NEW b \in Actors, seen'[b] # NoRow PROVE seen'[b].id <= minted'
    OBVIOUS
  <2>1. CASE seen'[b] = seen[b]
    BY <2>1, <1>1, RowFields DEF Minted, TypeOK
  <2>2. CASE seen'[b].key \in Taken' /\ rows'[seen'[b].key] = seen'[b]
    BY <2>2, <1>2
  <2> QED
    BY <2>1, <2>2, SeenStep
<1>4. primary' # NoPointer => primary'.id <= minted'
  <2>1. CASE primary' = primary
    BY <2>1, <1>1 DEF Minted, TypeOK, Pointer
  <2>2. CASE \E k \in Keys : Bind(a, k)
    <3>1. PICK k \in Keys : Bind(a, k)
      BY <2>2
    <3>2. primary' = bindingFor(rows[k]) /\ minted' = minted /\ k \in Taken
      BY <3>1 DEF Bind, Taken
    <3> QED
      BY <3>2, RowFields DEF Minted, TypeOK, Taken, Has
  <2>3. CASE Unbind(a)
    BY <2>3 DEF Unbind
  <2> QED
    BY <2>1, <2>2, <2>3 DEF Step, ReadIssue, ReadRow, ReadPrimary, Publish, Attach, SetTicks,
       Retire, Enter, EnterAdmission, EnterPrimary, Leave, Fail
<1> QED
  BY <1>2, <1>3, <1>4 DEF Minted

(* No two rows have one id.                                                *)
LEMMA DistinctStep == ASSUME Inv, NEW a \in Actors, Step(a) PROVE Distinct'
<1> USE DEF Inv
<1>1. CASE \E k \in Keys : Published(a, k)
  <2>1. PICK k \in Keys : Published(a, k)
    BY <1>1
  <2>2. \A j \in Taken' : j # k => j \in Taken /\ rows'[j] = rows[j] /\ rows'[j].id < minted'
    BY <2>1, RowFields, AssignmentStoreAssumption DEF Published, Minted, TypeOK, Taken, Has
  <2>3. rows'[k].id = minted' /\ minted' \in Nat
    BY <2>1 DEF Published, TypeOK
  <2>4. \A j \in Taken' : j # k => rows'[j].id \in Nat
    BY <2>2, RowFields DEF TypeOK, Taken, Has
  <2> QED
    BY <2>2, <2>3, <2>4 DEF Distinct
<1>2. CASE \E k \in Taken : EditedAt(a, k)
  BY <1>2 DEF EditedAt, Distinct, TypeOK, Taken, Has
<1>3. CASE \E k \in Taken : RetiredAt(a, k)
  BY <1>3 DEF RetiredAt, Distinct, TypeOK, Taken, Has
<1>4. CASE rows' = rows
  BY <1>4 DEF Distinct, Taken, Has
<1> QED
  BY <1>1, <1>2, <1>3, <1>4, RowsStep

(* What actors know of issues stays true: a new row has a new id, an       *)
(* edited one keeps its issue if it had one.                               *)
LEMMA SeenIssueStep == ASSUME Inv, NEW a \in Actors, Step(a) PROVE SeenIssue'
<1> USE DEF Inv
<1> SUFFICES ASSUME NEW b \in Actors, NEW k \in Taken', seen'[b] # NoRow,
                    rows'[k].id = seen'[b].id
             PROVE  seen'[b].issue \in {None, rows'[k].issue}
  BY DEF SeenIssue
<1>1. CASE seen'[b] = seen[b]
  <2>1. seen[b] \in Row /\ seen[b].id <= minted /\ seen[b].id \in Nat /\ minted \in Nat
    BY <1>1, RowFields DEF TypeOK, Minted
  <2>2. CASE \E j \in Keys : Published(a, j)
    BY <1>1, <2>1, <2>2 DEF Published, SeenIssue, Taken, Has
  <2>3. CASE \E j \in Taken : EditedAt(a, j)
    BY <1>1, <2>1, <2>3 DEF EditedAt, SeenIssue, TypeOK, Taken, Has
  <2>4. CASE \E j \in Taken : RetiredAt(a, j)
    BY <1>1, <2>4 DEF RetiredAt, SeenIssue, TypeOK, Taken, Has
  <2>5. CASE rows' = rows
    BY <1>1, <2>5 DEF SeenIssue, Taken, Has
  <2> QED
    BY <2>2, <2>3, <2>4, <2>5, RowsStep
<1>2. CASE seen'[b].key \in Taken' /\ rows'[seen'[b].key] = seen'[b]
  BY <1>2, DistinctStep DEF Distinct
<1> QED
  BY <1>1, <1>2, SeenStep

(* A publisher got its goal together with its predecessor. *)
LEMMA GoalStep == ASSUME Inv, NEW a \in Actors, Step(a) PROVE GoalOfSeen'
<1> USE DEF Inv
<1> SUFFICES ASSUME NEW b \in Actors, stage'[b] \in {"publish", "admit"}, seen'[b] # NoRow
             PROVE  seen'[b].issue = goal'[b] /\ goal'[b] # None
  BY DEF GoalOfSeen
<1>1. CASE b # a
  BY <1>1, SeenStep DEF GoalOfSeen
<1>2. CASE b = a /\ \E i \in Issues \cup {None} : ReadIssue(a, i)
  BY <1>2, ReadIssueReads, ViewOf
<1>3. CASE b = a /\ EnterAdmission(a)
  BY <1>3, ViewOf DEF EnterAdmission, GoalOfSeen
<1>4. CASE b = a /\ Leave(a)
  <2>1. ~Done(a) /\ ~View(a, "edit", seen[a], None, NoPointer)
    BY <1>4, ViewOf DEF Done
  <2>2. stage[a] = "admit"
    BY <1>4, <2>1 DEF Leave, After, InFence
  <2> QED
    BY <1>4, <2>2, ViewOf DEF Leave, After, GoalOfSeen
<1>5. CASE /\ b = a
           /\ ~ \/ \E i \in Issues \cup {None} : ReadIssue(a, i)
                \/ EnterAdmission(a)
                \/ Leave(a)
  <2>1. \A s, r, g, p : View(a, s, r, g, p) => s \in {"publish", "admit"}
    BY <1>5, ViewOf
  <2>2. ~Done(a)
    BY <2>1 DEF Done
  <2>3. ~ \/ \E k \in Keys : ReadRow(a, k)
          \/ ReadPrimary(a)
          \/ \E t \in 0 .. Bound : SetTicks(a, t)
    <3>1. ~ \E r, g, p : View(a, "edit", r, g, p) \/ View(a, "bind", r, g, p)
      BY <2>1
    <3> QED
      BY <3>1 DEF ReadRow, ReadPrimary, SetTicks
  <2>4. ~ (Enter(a) \/ EnterPrimary(a))
    BY <2>1 DEF Enter, EnterPrimary
  <2> QED
    BY <1>5, <2>2, <2>3, <2>4 DEF Step, Publish, Attach, Retire, Bind, Unbind, Fail
<1> QED
  BY <1>1, <1>2, <1>3, <1>4, <1>5, SeenStep

(* An issue does not get a second assignment: a publisher without a        *)
(* predecessor finds none, one with a predecessor takes its place, and an  *)
(* attachment finds no other.                                              *)
LEMMA IssueStep == ASSUME Inv, NEW a \in Actors, Step(a) PROVE IssueUnique'
<1> USE DEF Inv
<1>1. CASE \E k \in Keys : Published(a, k)
  <2>1. PICK k \in Keys : Published(a, k)
    BY <1>1
  <2>2. \A j \in Taken' : j # k => /\ j \in Taken /\ rows'[j] = rows[j]
                                  /\ ~(seen[a] # NoRow /\ j \in expectedEntry(seen[a]))
    BY <2>1 DEF Published, Taken, Has
  <2>3. \A j \in Taken' : j # k /\ goal[a] # None => rows'[j].issue # goal[a]
    <3>1. CASE seen[a] # NoRow
      <4>1. PICK e \in Keys : expectedEntry(seen[a]) = {e}
        BY <2>1, <3>1 DEF Published, Publishable
      <4>2. e \in Taken /\ rows[e].id = seen[a].id
        BY <4>1 DEF expectedEntry
      <4>3. rows[e].issue = goal[a] /\ goal[a] # None
        BY <2>1, <3>1, <4>2 DEF Published, SeenIssue, GoalOfSeen
      <4> QED
        BY <2>2, <3>1, <4>1, <4>2, <4>3 DEF IssueUnique
    <3>2. CASE seen[a] = NoRow
      BY <2>1, <2>2, <3>2 DEF Published, Publishable, Holders
    <3> QED
      BY <3>1, <3>2
  <2> QED
    BY <2>1, <2>2, <2>3 DEF IssueUnique, Published
<1>2. CASE \E k \in Taken : EditedAt(a, k)
  <2>1. PICK k \in Taken : EditedAt(a, k)
    BY <1>2
  <2>2. \A j \in Taken' : j \in Taken /\ (j # k => rows'[j] = rows[j])
    BY <2>1 DEF EditedAt, TypeOK, Taken, Has
  <2>3. \A j \in Taken' : j # k /\ rows'[k].issue # None => rows[j].issue # rows'[k].issue
    BY <2>1, <2>2 DEF EditedAt, IssueUnique
  <2> QED
    BY <2>1, <2>2, <2>3 DEF IssueUnique
<1>3. CASE \E k \in Taken : RetiredAt(a, k)
  BY <1>3 DEF RetiredAt, IssueUnique, TypeOK, Taken, Has
<1>4. CASE rows' = rows
  BY <1>4 DEF IssueUnique, Taken, Has
<1> QED
  BY <1>1, <1>2, <1>3, <1>4, RowsStep

(* The lock of a fence keeps every writer out, and only its holder gives   *)
(* it back.                                                                *)
LEMMA FenceStep == ASSUME Inv, NEW a \in Actors, Step(a) PROVE FenceHolds'
<1> USE DEF Inv
<1> SUFFICES ASSUME NEW b \in Actors, stage'[b] \in InFence
             PROVE  /\ Current(seen[b])'
                    /\ stage'[b] = "primary" => primary' = ptr'[b] /\ Target(primary)' = seen'[b]
  BY DEF FenceHolds, InFence
<1>1. CASE stage'[b] = stage[b] /\ seen'[b] = seen[b] /\ ptr'[b] = ptr[b]
  <2>1. fence = b /\ fence # None
    BY <1>1, AssignmentStoreAssumption DEF TypeOK
  <2>2. rows' = rows
    BY <2>1, RowsStep DEF Published, EditedAt, RetiredAt, Free
  <2>3. primary' = primary
    BY <2>1 DEF Step, ReadIssue, ReadRow, ReadPrimary, Publish, Attach, SetTicks, Retire, Bind,
       Unbind, Enter, EnterAdmission, EnterPrimary, Leave, Fail, Usable, Free
  <2> QED
    BY <1>1, <2>2, <2>3 DEF FenceHolds, Current, Target, Has
<1>2. CASE b = a /\ (Enter(a) \/ EnterAdmission(a))
  BY <1>2, ViewOf DEF Enter, EnterAdmission, Current
<1>3. CASE b = a /\ EnterPrimary(a)
  <2>1. /\ Target(primary) # NoRow /\ primary' = primary /\ rows' = rows
        /\ View(a, "primary", Target(primary), None, primary)
    BY <1>3 DEF EnterPrimary
  <2>2. stage'[b] = "primary" /\ seen'[b] = Target(primary) /\ ptr'[b] = primary
    BY <1>3, <2>1, ViewOf
  <2>3. Target(primary) = rows[primary.key] /\ primary.key \in Taken
    BY <2>1 DEF Target, TypeOK, Pointer, Taken
  <2>4. rows[primary.key].key = primary.key
    BY <2>3 DEF TypeOK
  <2> QED
    BY <2>1, <2>2, <2>3, <2>4 DEF Current, Target, Has
<1>4. CASE b = a /\ ~Enter(a) /\ ~EnterAdmission(a) /\ ~EnterPrimary(a)
  <2>1. \A s, r, g, p : View(a, s, r, g, p) => s \in InFence
    BY <1>4, ViewOf
  <2>2. ~Done(a) /\ ~ \E r, g, p : View(a, "edit", r, g, p) \/ View(a, "bind", r, g, p)
                                   \/ View(a, "publish", r, g, p)
    BY <2>1 DEF Done, InFence
  <2>3. ~Leave(a)
    BY <2>2 DEF Leave, After, InFence
  <2> QED
    BY <1>4, <2>2, <2>3 DEF Step, ReadIssue, ReadRow, ReadPrimary, Publish, Attach, SetTicks, Retire,
       Bind, Unbind, Fail
<1> QED
  BY <1>1, <1>2, <1>3, <1>4, SeenStep

(* Every step keeps the types, and gives the lock only to a fenced actor.  *)
LEMMA TypeStep == ASSUME Inv, NEW a \in Actors, Step(a) PROVE TypeOK'
<1> USE DEF Inv
<1>1. rows' \in [Keys -> Row \cup {NoRow}] /\ \A k \in Taken' : rows'[k].key = k
  <2>1. CASE \E k \in Keys : Published(a, k) /\ rows' \in [Keys -> Row \cup {NoRow}]
    BY <2>1 DEF Published, TypeOK, Taken, Has
  <2>2. CASE \E k \in Taken : EditedAt(a, k)
    BY <2>2 DEF EditedAt, TypeOK, Taken, Has
  <2>3. CASE \E k \in Taken : RetiredAt(a, k)
    BY <2>3 DEF RetiredAt, TypeOK, Taken, Has
  <2>4. CASE rows' = rows
    BY <2>4 DEF TypeOK, Taken, Has
  <2> QED
    BY <2>1, <2>2, <2>3, <2>4, RowsStep
<1>2. minted' \in 0 .. MaxIds
  BY RowsStep DEF Published, EditedAt, RetiredAt, TypeOK
<1>3. primary' \in Pointer \cup {NoPointer}
  <2>1. CASE \E k \in Keys : Bind(a, k)
    BY <2>1, RowFields DEF Bind, TypeOK, Has
  <2>2. CASE Unbind(a)
    BY <2>2 DEF Unbind
  <2> QED
    BY <2>1, <2>2 DEF Step, ReadIssue, ReadRow, ReadPrimary, Publish, Attach, SetTicks,
       Retire, Enter, EnterAdmission, EnterPrimary, Leave, Fail, TypeOK
<1>4. \E s \in Stages, r \in Row \cup {NoRow}, i \in Issues \cup {None},
         p \in Pointer \cup {NoPointer} :
        View(a, s, r, i, p) /\ (s \in InFence <=> fence' = a)
        /\ \A b \in Actors \ {a} : fence' = b <=> fence = b
  <2>1. CASE \E i \in Issues \cup {None} : ReadIssue(a, i)
    BY <2>1, ReadIssueReads DEF ReadIssue, TypeOK, Stages, InFence
  <2>2. CASE \E k \in Keys : ReadRow(a, k)
    BY <2>2 DEF ReadRow, TypeOK, Stages, InFence
  <2>3. CASE ReadPrimary(a)
    BY <2>3 DEF ReadPrimary, TypeOK, Stages, InFence
  <2>4. CASE \E t \in 0 .. Bound : SetTicks(a, t)
    <3>1. PICK t \in 0 .. Bound : SetTicks(a, t)
      BY <2>4
    <3>2. EditedAt(a, seen[a].key) /\ View(a, "edit", rows'[seen[a].key], None, NoPointer)
      BY <3>1, SetTicksDoes
    <3>3. rows'[seen[a].key] \in Row /\ fence' = fence /\ stage[a] = "edit"
      BY <3>2 DEF EditedAt
    <3> QED
      BY <3>2, <3>3 DEF TypeOK, Stages, InFence
  <2>5. CASE Enter(a) \/ EnterAdmission(a)
    BY <2>5, AssignmentStoreAssumption DEF Enter, EnterAdmission, Usable, Free, TypeOK, Stages, InFence
  <2>6. CASE EnterPrimary(a)
    <3>1. Target(primary) \in Row /\ primary \in Pointer
      BY <2>6, NoneApart DEF EnterPrimary, Target, TypeOK, Pointer, Has
    <3> QED
      BY <2>6, <3>1, AssignmentStoreAssumption DEF EnterPrimary, Usable, Free, TypeOK, Stages, InFence
  <2>7. CASE Leave(a)
    BY <2>7, AssignmentStoreAssumption DEF Leave, After, Done, TypeOK, Stages, InFence
  <2>8. CASE Fail(a)
    BY <2>8, AssignmentStoreAssumption DEF Fail, Done, TypeOK, Stages, InFence
  <2>9. CASE \/ \E k \in Keys, kind \in {"local", "remote"} : Publish(a, k, kind)
             \/ \E i \in Issues : Attach(a, i)
             \/ Retire(a)
             \/ \E k \in Keys : Bind(a, k)
             \/ Unbind(a)
    BY <2>9 DEF Publish, Attach, Retire, Bind, Unbind, Done, TypeOK, Stages, InFence
  <2> QED
    BY <2>1, <2>2, <2>3, <2>4, <2>5, <2>6, <2>7, <2>8, <2>9 DEF Step
<1>5. /\ stage' \in [Actors -> Stages]
      /\ seen' \in [Actors -> Row \cup {NoRow}]
      /\ goal' \in [Actors -> Issues \cup {None}]
      /\ ptr' \in [Actors -> Pointer \cup {NoPointer}]
  BY <1>4, ViewType
<1>6. fence' \in Actors \cup {None}
  BY DEF Step, ReadIssue, ReadRow, ReadPrimary, Publish, Attach, SetTicks, Retire, Bind, Unbind,
     Enter, EnterAdmission, EnterPrimary, Leave, Fail, TypeOK
<1>7. \A b \in Actors : stage'[b] \in InFence <=> fence' = b
  BY <1>4, ViewOf DEF TypeOK
<1> QED
  BY <1>1, <1>2, <1>3, <1>5, <1>6, <1>7 DEF TypeOK

(* A step of the store is the step of an actor or leaves everything.       *)
LEMMA NextStep == Next => \E a \in Actors : Step(a)
  BY DEF Next, Step

(* Every step keeps the invariant.                                         *)
LEMMA InvStep == Inv /\ [Next]_vars => Inv'
<1>1. ASSUME Inv, NEW a \in Actors, Step(a) PROVE Inv'
  <2>1. TypeOK' /\ Minted' /\ Distinct'
    BY <1>1, TypeStep, MintedStep, DistinctStep
  <2>2. SeenIssue' /\ GoalOfSeen'
    BY <1>1, SeenIssueStep, GoalStep
  <2>3. IssueUnique' /\ FenceHolds'
    BY <1>1, IssueStep, FenceStep
  <2> QED
    BY <2>1, <2>2, <2>3 DEF Inv
<1>2. ASSUME Inv, UNCHANGED vars PROVE Inv'
  BY <1>2 DEF vars, Inv, TypeOK, Minted, Distinct, SeenIssue, GoalOfSeen, IssueUnique, FenceHolds,
     Taken, Has, Current, Target
<1> QED
  BY <1>1, <1>2, NextStep

(* The invariant holds in every state.                                     *)
THEOREM Invariance == Spec => []Inv
  BY InitInv, InvStep, PTL DEF Spec

(* The state stays well formed: rows are at their own keys, and the lock   *)
(* belongs to the one actor whose fenced action runs.                      *)
THEOREM TypeCorrect == Spec => []TypeOK
  BY Invariance, PTL DEF Inv

(* Whatever publishers and attachments race for it, an issue has at most   *)
(* one assignment.                                                         *)
THEOREM OneHolder == Spec => []IssueUnique
  BY Invariance, PTL DEF Inv

(* A fenced action runs only while the assignment it was admitted for is   *)
(* the current one.                                                        *)
THEOREM FenceKept == Spec => []FenceHolds
  BY Invariance, PTL DEF Inv

(* An attached issue is never lost to a writer that read the row earlier.  *)
THEOREM IssueKept == Spec => IssueSticks
<1>1. ASSUME Inv, NEW a \in Actors, Step(a), NEW k \in Keys, Has(k), Has(k)', rows[k].id = rows'[k].id
      PROVE  rows[k].issue \in {None, rows'[k].issue}
  <2> USE <1>1 DEF Inv
  <2>1. k \in Taken /\ rows[k].id <= minted /\ rows[k].id \in Nat /\ minted \in Nat
    BY RowFields DEF Minted, TypeOK, Taken, Has
  <2>2. CASE \E j \in Keys : Published(a, j)
    BY <2>1, <2>2 DEF Published, Has
  <2>3. CASE \E j \in Taken : EditedAt(a, j)
    BY <2>1, <2>3 DEF EditedAt, TypeOK
  <2>4. CASE \E j \in Taken : RetiredAt(a, j)
    BY <2>1, <2>4 DEF RetiredAt, TypeOK, Has
  <2>5. CASE rows' = rows
    BY <2>5
  <2> QED
    BY <2>2, <2>3, <2>4, <2>5, RowsStep
<1>2. Inv /\ [Next]_vars => [\A k \in Keys :
        Has(k) /\ Has(k)' /\ rows[k].id = rows'[k].id
            => rows[k].issue \in {None, rows'[k].issue}]_vars
  BY <1>1, NextStep
<1> QED
  BY <1>2, Invariance, PTL DEF Spec, IssueSticks

(* The assignment of the operator primary is never retired under the       *)
(* pointer: only a publication takes it away.                              *)
THEOREM TargetProtected == Spec => TargetKept
<1>1. ASSUME Inv, NEW a \in Actors, Step(a),
             Target(primary) # NoRow, primary' = primary, minted' = minted
      PROVE  (Target(primary) # NoRow)'
  <2> USE <1>1 DEF Inv
  <2> DEFINE k == primary.key
  <2>1. k \in Taken /\ bindingFor(rows[k]) = primary /\ primary # NoPointer
    BY DEF Target, TypeOK, Pointer, Taken
  <2>2. CASE \E j \in Keys : Published(a, j)
    BY <2>2 DEF Published, TypeOK
  <2>3. CASE \E j \in Taken : EditedAt(a, j)
    <3>1. k \in Taken' /\ rows'[k] \in Row /\ bindingFor(rows'[k]) = primary
      BY <2>1, <2>3, NoneApart DEF EditedAt, TypeOK, bindingFor, Taken, Has
    <3> QED
      BY <2>1, <3>1, RowFields DEF Target, Taken
  <2>4. CASE \E j \in Taken : RetiredAt(a, j)
    <3>1. rows'[k] = rows[k]
      BY <2>1, <2>4 DEF RetiredAt, TypeOK, Taken
    <3> QED
      BY <2>1, <3>1 DEF Target, Taken, Has
  <2>5. CASE rows' = rows
    BY <2>5 DEF Target, Has
  <2> QED
    BY <2>2, <2>3, <2>4, <2>5, RowsStep
<1>2. Inv /\ [Next]_vars => [
        Target(primary) # NoRow /\ primary' = primary /\ minted' = minted
            => (Target(primary) # NoRow)']_vars
  BY <1>1, NextStep
<1> QED
  BY <1>2, Invariance, PTL DEF Spec, TargetKept

(* A stale pointer never comes to name another assignment, however often   *)
(* its deliverable is published again.                                     *)
THEOREM PointerStaysStale == Spec => StaleStays
<1>1. ASSUME Inv, NEW a \in Actors, Step(a),
             primary # NoPointer, Target(primary) = NoRow, primary' = primary
      PROVE  (Target(primary) = NoRow)'
  <2> USE <1>1 DEF Inv
  <2> DEFINE k == primary.key
  <2>1. k \in Keys /\ primary.id \in Nat /\ primary.id <= minted /\ minted \in Nat
    BY DEF TypeOK, Pointer, Minted
  <2>2. ~(Has(k) /\ bindingFor(rows[k]) = primary)
    BY DEF Target, Has
  <2>3. SUFFICES ~(Has(k)' /\ bindingFor(rows'[k]) = primary)
    BY DEF Target, Has
  <2>4. CASE \E j \in Keys : Published(a, j)
    BY <2>1, <2>2, <2>4 DEF Published, Has, bindingFor
  <2>5. CASE \E j \in Taken : EditedAt(a, j)
    BY <2>1, <2>2, <2>5 DEF EditedAt, TypeOK, bindingFor, Taken, Has
  <2>6. CASE \E j \in Taken : RetiredAt(a, j)
    BY <2>1, <2>2, <2>6 DEF RetiredAt, TypeOK, Has
  <2>7. CASE rows' = rows
    BY <2>2, <2>7 DEF Has
  <2> QED
    BY <2>4, <2>5, <2>6, <2>7, RowsStep
<1>2. Inv /\ [Next]_vars => [
        primary # NoPointer /\ Target(primary) = NoRow /\ primary' = primary
            => (Target(primary) = NoRow)']_vars
  BY <1>1, NextStep
<1> QED
  BY <1>2, Invariance, PTL DEF Spec, StaleStays

----------------------------------------------------------------------------
(* How far the file gets over its cap.                                     *)

AlmostInCap == IsFiniteSet(Taken) /\ Cardinality(Taken) <= MaxRows + 1

(* Nobody writes a file with too many rows. *)
LEMMA OverfullStep == ASSUME ~Readable, Next PROVE rows' = rows
  BY DEF Next, Usable, ReadIssue, ReadRow, ReadPrimary, Publish, Attach, SetTicks, Retire, Bind,
     Unbind, Enter, EnterAdmission, EnterPrimary, Leave, Fail

(* A step takes the key of one publication at most. *)
LEMMA TakenStep ==
  ASSUME TypeOK, Next
  PROVE  \E k : Taken' \in SUBSET (Taken \cup {k})
<1>1. PICK a \in Actors : Step(a)
  BY NextStep
<1>2. ASSUME NEW k \in Keys, Published(a, k) PROVE Taken' \in SUBSET (Taken \cup {k})
  BY <1>2 DEF Published, Taken, Has
<1>3. ASSUME NEW k \in Taken, EditedAt(a, k) \/ RetiredAt(a, k)
      PROVE  Taken' \in SUBSET (Taken \cup {k})
  BY <1>3 DEF EditedAt, RetiredAt, Taken, Has, TypeOK
<1>4. rows' = rows => Taken' = Taken
  BY DEF Taken, Has
<1> QED
  BY <1>1, <1>2, <1>3, <1>4, RowsStep

(* A set that gains one element at most stays finite and is larger by one  *)
(* at most.                                                                *)
LEMMA OneMore ==
  ASSUME NEW S, IsFiniteSet(S), NEW x, NEW T \in SUBSET (S \cup {x})
  PROVE  IsFiniteSet(T) /\ Cardinality(T) <= Cardinality(S) + 1
<1>1. Cardinality(S) \in Nat
  BY FS_CardinalityType
<1>2. /\ IsFiniteSet(S \cup {x})
      /\ Cardinality(S \cup {x}) \in {Cardinality(S), Cardinality(S) + 1}
  BY FS_AddElement
<1>3. IsFiniteSet(T) /\ Cardinality(T) <= Cardinality(S \cup {x})
  BY <1>2, FS_Subset
<1>4. Cardinality(T) \in Nat
  BY <1>3, FS_CardinalityType
<1> QED
  BY <1>1, <1>2, <1>3, <1>4

(* A publication does not look at the cap (finding CapHolds), but it does  *)
(* not write what it could not read: the file is over its cap by one row   *)
(* at most.                                                                *)
THEOREM OverByOne == Spec => []AlmostInCap
<1>1. Init => AlmostInCap
  <2>1. Init => Taken = {}
    BY DEF Init, Taken, Has
  <2> QED
    BY <2>1, FS_EmptySet, AssignmentStoreAssumption DEF AlmostInCap
<1>2. ASSUME Inv, AlmostInCap, Next PROVE AlmostInCap'
  <2>1. CASE Readable
    <3>1. PICK k : Taken' \in SUBSET (Taken \cup {k})
      BY <1>2, TakenStep DEF Inv
    <3>2. IsFiniteSet(Taken') /\ Cardinality(Taken') <= Cardinality(Taken) + 1
      BY <1>2, <3>1, OneMore DEF AlmostInCap
    <3>3. Cardinality(Taken) \in Nat /\ Cardinality(Taken') \in Nat
      BY <1>2, <3>2, FS_CardinalityType DEF AlmostInCap
    <3> QED
      BY <2>1, <3>2, <3>3, AssignmentStoreAssumption DEF AlmostInCap, Readable
  <2>2. CASE ~Readable
    BY <1>2, <2>2, OverfullStep DEF AlmostInCap, Taken, Has
  <2> QED
    BY <2>1, <2>2
<1>3. AlmostInCap /\ UNCHANGED vars => AlmostInCap'
  BY DEF vars, AlmostInCap, Taken, Has
<1> QED
  BY <1>1, <1>2, <1>3, Invariance, PTL DEF Spec

(* Once over its cap the file is over it for good: every reader and every  *)
(* writer refuses it, the retirement of a row too, and no program of the   *)
(* store makes it smaller.                                                 *)
THEOREM OverfullForGood == Spec => [](~Readable => []~Readable)
<1>1. ~Readable /\ [Next]_vars => ~Readable'
  BY OverfullStep DEF vars, Readable, Taken, Has
<1> QED
  BY <1>1, PTL DEF Spec

=============================================================================
