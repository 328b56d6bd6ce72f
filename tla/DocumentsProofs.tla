--------------------------- MODULE DocumentsProofs ---------------------------
(***************************************************************************)
(* Theorems about what is stored and what clients are told of it.          *)
(*   Collections, for any number of documents, transactions and pages of   *)
(* any size: a commit keeps what it was not to change, and a listing has   *)
(* every row that was there all the time.                                  *)
(*   Blobs, for any number of Submodels, handlers and elements: a Submodel *)
(* has all its files and no other one's.                                   *)
(*   Packages, for any number of packages and requests: a history has all  *)
(* its versions, and the files go with the rows.                           *)
(*   Operations, for any paths, arguments, documents and number of         *)
(* requests in flight: a handle that a client was given holds.             *)
(*   Registry, for any descriptors and number of requests in flight:       *)
(* rows are typed, identifiers differ, and a lookup finds what the         *)
(* documents say as long as no two requests overlap.                       *)
(* And that all that was proved of the parts of MCDocuments holds of their *)
(* composition.                                                            *)
(***************************************************************************)
EXTENDS MCDocuments, RepositoryProofs, NumberSets, TLAPS

-----------------------------------------------------------------------------
(* The collection of documents.  Two transactions in flight never change    *)
(* the same document, and an insert is of a document that is not stored.    *)

RowEffect == {"none", "insert", "update", "delete"}

Transaction == [start : Nat, todo : Seq(Item), how : Resolution,
                write : {Nothing} \cup [op : {"insert", "update", "delete"}, id : Item],
                effect : [Item -> RowEffect]]

CommittedDocument == [created : Nat, written : Nat]

Running(w) == batch[w] # Nothing

\* A transaction's changes are what its request asks for.
Fits(t) ==
    /\ \A i \in Item :
          /\ t.effect[i] = "insert" => t.how # "delete"
          /\ t.effect[i] = "update" => t.how = "overwrite"
          /\ t.effect[i] = "delete" => t.how = "delete"
    /\ t.write # Nothing =>
          /\ t.write.op = "insert" => t.how # "delete"
          /\ t.write.op = "update" => t.how = "overwrite"
          /\ t.write.op = "delete" => t.how = "delete"

\* And they can be made to the documents as they are.
Applicable(t) ==
    \A i \in Item :
        /\ t.effect[i] = "insert" => i \notin Present
        /\ t.effect[i] \in {"update", "delete"} => i \in Present

BatchTypes ==
    /\ clock \in Nat
    /\ documents \in [Item -> {Nothing} \cup CommittedDocument]
    /\ batch \in [Writer -> {Nothing} \cup Transaction]

BatchesFit == \A w \in Writer : Running(w) => Fits(batch[w]) /\ Applicable(batch[w])

Exclusive ==
    \A w, o \in Writer : w # o /\ Running(w) /\ Running(o) =>
        \A i \in Item : batch[w].effect[i] = "none" \/ batch[o].effect[i] = "none"

\* Transactions start at different times, and no committed row is of one in flight.
StartsDiffer ==
    /\ \A w \in Writer : Running(w) => batch[w].start \in 1 .. clock
    /\ \A w, o \in Writer : w # o /\ Running(w) /\ Running(o) => batch[w].start # batch[o].start
    /\ \A i \in Present : documents[i].created \in 1 .. clock
    /\ \A w \in Writer, i \in Present : Running(w) => documents[i].created # batch[w].start

BatchInv == BatchTypes /\ BatchesFit /\ Exclusive /\ StartsDiffer

LEMMA NothingElse ==
    /\ Nothing \notin Nat /\ Limit \in Nat \ {0} /\ MaxItems \in Nat
    /\ IsFiniteSet(Item) /\ FreshItem \subseteq Item /\ Nothing \notin CommittedDocument
BY CollectionsAssumption DEF CommittedDocument

LEMMA InFlightType ==
    ASSUME BatchTypes, NEW w \in Writer, Running(w) PROVE batch[w] \in Transaction
BY DEF BatchTypes, Running

LEMMA StoredType ==
    ASSUME BatchTypes, NEW i \in Present PROVE documents[i] \in CommittedDocument /\ i \in Item
BY DEF BatchTypes, Present

\* A transaction goes on: it may change one more document, which nobody else has
\* changed and which is there, or is not, as the change asks.
LEMMA GoesOn ==
    ASSUME BatchInv, NEW w \in Writer, Running(w), NEW t \in Transaction, Put(w, t),
           UNCHANGED <<documents, clock>>, Fits(t), t.start = batch[w].start, NEW j \in Item,
           \A i \in Item \ {j} : t.effect[i] = batch[w].effect[i],
           t.effect[j] # batch[w].effect[j] =>
              /\ ~Locked(w, j)
              /\ t.effect[j] = "insert" => j \notin Present
              /\ t.effect[j] \in {"update", "delete"} => j \in Present
    PROVE  BatchInv'
<1>1. /\ batch \in [Writer -> {Nothing} \cup Transaction] /\ batch[w] \in Transaction
      /\ batch' = [batch EXCEPT ![w] = t] /\ Present' = Present
  BY InFlightType DEF BatchInv, BatchTypes, Put, Present
<1>2. /\ batch'[w] = t /\ \A o \in Writer \ {w} : batch'[o] = batch[o]
      /\ \A o \in Writer : Running(o)' => Running(o)
  BY <1>1 DEF Running
<1>3. BatchTypes'
  BY <1>1 DEF BatchInv, BatchTypes
<1>4. Applicable(t)
  BY <1>1 DEF BatchInv, BatchesFit, Applicable
<1>5. BatchesFit'
  BY <1>1, <1>2, <1>4 DEF BatchInv, BatchesFit, Applicable, Fits, Running
<1>6. ASSUME NEW o \in Writer \ {w}, Running(o), NEW i \in Item
      PROVE  t.effect[i] = "none" \/ batch[o].effect[i] = "none"
  <2>1. batch[w].effect[i] = "none" \/ batch[o].effect[i] = "none"
    BY <1>6 DEF BatchInv, Exclusive
  <2>2. CASE t.effect[i] = batch[w].effect[i]
    BY <2>1, <2>2
  <2>3. CASE t.effect[i] # batch[w].effect[i]
    <3>1. i = j /\ ~Locked(w, j)
      BY <2>3
    <3> QED
      BY <1>6, <3>1 DEF Locked, Running
  <2> QED
    BY <2>2, <2>3
<1>7. Exclusive'
  BY <1>2, <1>6 DEF BatchInv, Exclusive, Running
<1>8. StartsDiffer'
  BY <1>1, <1>2 DEF BatchInv, StartsDiffer, Running
<1> QED
  BY <1>3, <1>5, <1>7, <1>8 DEF BatchInv

\* A transaction is over, and nothing has come of it.
LEMMA GivesUpBatch ==
    ASSUME BatchInv, NEW w \in Writer, Put(w, Nothing), UNCHANGED <<documents, clock>>
    PROVE  BatchInv'
<1>1. /\ batch \in [Writer -> {Nothing} \cup Transaction] /\ Present' = Present
      /\ batch' = [batch EXCEPT ![w] = Nothing]
  BY DEF BatchInv, BatchTypes, Put, Present
<1>2. /\ batch'[w] = Nothing /\ \A o \in Writer \ {w} : batch'[o] = batch[o]
      /\ \A o \in Writer : Running(o)' => Running(o) /\ o # w
  BY <1>1 DEF Running
<1>3. BatchTypes'
  BY <1>1 DEF BatchInv, BatchTypes
<1>4. BatchesFit'
  BY <1>1, <1>2 DEF BatchInv, BatchesFit, Applicable, Fits, Running
<1>5. Exclusive' /\ StartsDiffer'
  BY <1>1, <1>2 DEF BatchInv, Exclusive, StartsDiffer, Running
<1> QED
  BY <1>3, <1>4, <1>5 DEF BatchInv

LEMMA BeginBatchKeeps ==
    ASSUME BatchInv, NEW w \in Writer, BeginBatch(w) PROVE BatchInv'
<1>1. PICK todo \in BoundedSeq(Item \ FreshItem, MaxItems), how \in Resolution :
         Put(w, [start |-> clock + 1, todo |-> todo, how |-> how, write |-> Nothing,
                 effect |-> [i \in Item |-> "none"]])
  BY DEF BeginBatch
<1> DEFINE t == [start |-> clock + 1, todo |-> todo, how |-> how, write |-> Nothing,
                 effect |-> [i \in Item |-> "none"]]
<1>2. todo \in Seq(Item)
  <2>1. PICK m \in 0 .. MaxItems : todo \in [1 .. m -> Item \ FreshItem]
    BY DEF BoundedSeq, SeqOf
  <2>2. m \in Nat /\ todo \in [1 .. m -> Item]
    BY <2>1, NothingElse
  <2> QED
    BY <2>2
<1>3. clock \in Nat /\ clock' = clock + 1 /\ ~Running(w) /\ documents' = documents
  BY DEF BatchInv, BatchTypes, BeginBatch, Running
<1>4. t \in Transaction /\ t.start = clock + 1 /\ \A i \in Item : t.effect[i] = "none"
  BY <1>2, <1>3 DEF Transaction, RowEffect
<1>5. Fits(t) /\ Applicable(t)
  BY <1>4 DEF Fits, Applicable
<1>6. /\ batch \in [Writer -> {Nothing} \cup Transaction] /\ Present' = Present
      /\ batch' = [batch EXCEPT ![w] = t]
  BY <1>1, <1>3 DEF BatchInv, BatchTypes, Put, Present
<1> HIDE DEF t
<1>7. batch'[w] = t /\ \A o \in Writer \ {w} : batch'[o] = batch[o]
  BY <1>6
<1>8. BatchTypes'
  BY <1>3, <1>4, <1>6 DEF BatchInv, BatchTypes
<1>9. BatchesFit'
  BY <1>3, <1>5, <1>6, <1>7 DEF BatchInv, BatchesFit, Applicable, Fits, Running
<1>10. Exclusive'
  BY <1>4, <1>7 DEF BatchInv, Exclusive, Running
<1>11. StartsDiffer'
  <2>1. \A o \in Writer \ {w} : Running(o)' => Running(o) /\ batch'[o] = batch[o]
    BY <1>7 DEF Running
  <2>2. \A o \in Writer : Running(o) => batch[o].start \in 1 .. clock
    BY DEF BatchInv, StartsDiffer
  <2>3. \A i \in Present : documents[i].created \in 1 .. clock
    BY DEF BatchInv, StartsDiffer
  <2>4. \A o \in Writer : Running(o)' => batch'[o].start \in 1 .. clock'
    BY <1>3, <1>4, <1>7, <2>1, <2>2
  <2>5. \A o \in Writer \ {w} : Running(o)' => batch'[o].start # batch'[w].start
    BY <1>3, <1>4, <1>7, <2>1, <2>2
  <2>6. \A i \in Present : documents[i].created \in 1 .. clock' /\ documents[i].created # t.start
    BY <1>3, <1>4, <2>3
  <2> QED
    BY <1>3, <1>6, <1>7, <2>1, <2>4, <2>5, <2>6 DEF BatchInv, StartsDiffer
<1> QED
  BY <1>8, <1>9, <1>10, <1>11 DEF BatchInv

LEMMA CheckItemKeeps ==
    ASSUME BatchInv, NEW w \in Writer, Running(w), CheckItem(w) PROVE BatchInv'
<1> PICK s : s = batch[w]
  OBVIOUS
<1>1. s \in Transaction /\ Fits(s) /\ s.todo # <<>> /\ UNCHANGED <<documents, clock>>
  BY InFlightType DEF BatchInv, BatchesFit, CheckItem
<1>2. PICK change \in WritesOf(s.how, Head(s.todo), Sees(w, Head(s.todo))) :
         Put(w, [s EXCEPT !.todo = Tail(@), !.write = change])
  BY DEF CheckItem
<1>3. s.todo \in Seq(Item) /\ Head(s.todo) \in Item /\ Tail(s.todo) \in Seq(Item)
  BY <1>1 DEF Transaction
<1>4. change \in {Nothing} \cup [op : {"insert", "update", "delete"}, id : Item]
  BY <1>1, <1>3, NothingElse DEF WritesOf, Resolution, Transaction
<1>5. change # Nothing => /\ change.op = "insert" => s.how # "delete"
                          /\ change.op = "update" => s.how = "overwrite"
                          /\ change.op = "delete" => s.how = "delete"
  BY <1>1, <1>2 DEF WritesOf, Resolution, Transaction
<1> DEFINE t == [s EXCEPT !.todo = Tail(@), !.write = change]
<1>6. /\ t \in Transaction /\ t.write = change /\ t.how = s.how /\ t.effect = s.effect
      /\ t.start = s.start
  BY <1>1, <1>3, <1>4 DEF Transaction
<1>7. Put(w, t)
  BY <1>2
<1> HIDE DEF t
<1>8. Fits(t)
  BY <1>1, <1>5, <1>6 DEF Fits
<1> QED
  BY <1>1, <1>3, <1>6, <1>7, <1>8, GoesOn

LEMMA WriteItemKeeps ==
    ASSUME BatchInv, NEW w \in Writer, Running(w), InsertItem(w) \/ UpdateItem(w) \/ DeleteItem(w)
    PROVE  BatchInv'
<1> PICK s : s = batch[w]
  OBVIOUS
<1>1. /\ s \in Transaction /\ Fits(s) /\ Applicable(s) /\ s.write # Nothing
      /\ UNCHANGED <<documents, clock>>
  BY InFlightType DEF BatchInv, BatchesFit, InsertItem, UpdateItem, DeleteItem
<1> PICK j : j = s.write.id
  OBVIOUS
<1>2. /\ s.write \in [op : {"insert", "update", "delete"}, id : Item] /\ j \in Item
      /\ s.effect \in [Item -> RowEffect]
  BY <1>1 DEF Transaction
<1>3. CASE Put(w, Nothing)
  BY <1>1, <1>3, GivesUpBatch
<1>4. CASE Put(w, [s EXCEPT !.write = Nothing])
  <2> DEFINE t == [s EXCEPT !.write = Nothing]
  <2>1. /\ t \in Transaction /\ t.write = Nothing /\ t.how = s.how /\ t.effect = s.effect
        /\ t.start = s.start
    BY <1>1 DEF Transaction
  <2>2. Put(w, t)
    BY <1>4
  <2> HIDE DEF t
  <2>3. Fits(t)
    BY <1>1, <2>1 DEF Fits
  <2> QED
    BY <1>1, <1>2, <2>1, <2>2, <2>3, GoesOn
<1>5. ASSUME NEW e \in RowEffect, Put(w, [s EXCEPT !.write = Nothing, !.effect[j] = e]),
             e # s.effect[j] => /\ ~Locked(w, j)
                                /\ e = "insert" => j \notin Present
                                /\ e \in {"update", "delete"} => j \in Present,
             e = "insert" => s.how # "delete", e = "update" => s.how = "overwrite",
             e = "delete" => s.how = "delete"
      PROVE  BatchInv'
  <2> DEFINE t == [s EXCEPT !.write = Nothing, !.effect[j] = e]
  <2>1. /\ t \in Transaction /\ t.write = Nothing /\ t.how = s.how
        /\ t.effect = [s.effect EXCEPT ![j] = e] /\ t.start = s.start
    BY <1>1, <1>2, <1>5 DEF Transaction
  <2>2. Put(w, t)
    BY <1>5
  <2> HIDE DEF t
  <2>3. t.effect[j] = e /\ \A i \in Item \ {j} : t.effect[i] = s.effect[i]
    BY <1>2, <2>1
  <2>4. Fits(t)
    BY <1>1, <1>5, <2>1, <2>3 DEF Fits
  <2> QED
    BY <1>1, <1>2, <1>5, <2>1, <2>2, <2>3, <2>4, GoesOn
<1>6. Sees(w, j) <=> IF s.effect[j] = "none" THEN j \in Present ELSE s.effect[j] \in {"insert", "update"}
  BY DEF Sees
<1>7. CASE InsertItem(w)
  <2>1. s.write.op = "insert" /\ s.how # "delete" /\ ~Locked(w, j)
    BY <1>1, <1>7 DEF InsertItem, Fits
  <2>2. CASE ~Sees(w, j) /\ Put(w, [s EXCEPT !.write = Nothing, !.effect[j] = "insert"])
    <3>1. s.effect[j] = "none" /\ j \notin Present
      BY <1>1, <1>2, <1>6, <2>1, <2>2 DEF Fits, RowEffect
    <3>2. "insert" \in RowEffect
      BY DEF RowEffect
    <3> QED
      BY <1>5, <2>1, <2>2, <3>1, <3>2
  <2> QED
    BY <1>3, <1>7, <2>2 DEF InsertItem, InsertRefused, RollsBack
<1>8. CASE UpdateItem(w)
  <2>1. s.write.op = "update" /\ s.how = "overwrite"
    BY <1>1, <1>8 DEF UpdateItem, Fits
  <2>2. CASE /\ Sees(w, j) /\ ~Locked(w, j)
             /\ Put(w, [s EXCEPT !.write = Nothing,
                                 !.effect[j] = IF @ = "insert" THEN @ ELSE "update"])
    <3> DEFINE e == IF s.effect[j] = "insert" THEN "insert" ELSE "update"
    <3>1. e \in RowEffect
      BY DEF RowEffect
    <3>2. Put(w, [s EXCEPT !.write = Nothing, !.effect[j] = e])
      BY <1>1, <1>2, <2>2
    <3>3. e # s.effect[j] => e = "update" /\ j \in Present
      BY <1>1, <1>2, <1>6, <2>2 DEF RowEffect, Applicable
    <3>4. e = "insert" => s.how # "delete"
      BY <2>1
    <3> QED
      BY <1>5, <2>1, <2>2, <3>1, <3>2, <3>3, <3>4
  <2> QED
    BY <1>4, <1>8, <2>2 DEF UpdateItem
<1>9. CASE DeleteItem(w)
  <2>1. s.write.op = "delete" /\ s.how = "delete"
    BY <1>1, <1>9 DEF DeleteItem, Fits
  <2>2. CASE /\ Sees(w, j) /\ ~Locked(w, j)
             /\ Put(w, [s EXCEPT !.write = Nothing, !.effect[j] = "delete"])
    <3>1. j \in Present
      BY <1>1, <1>2, <1>6, <2>1, <2>2 DEF Fits, Applicable
    <3>2. "delete" \in RowEffect
      BY DEF RowEffect
    <3> QED
      BY <1>5, <2>1, <2>2, <3>1, <3>2
  <2> QED
    BY <1>4, <1>9, <2>2 DEF DeleteItem
<1> QED
  BY <1>7, <1>8, <1>9

\* What a commit makes of the documents.
LEMMA CommittedRows ==
    ASSUME BatchInv, NEW w \in Writer, Running(w), CommitBatch(w), NEW i \in Item
    PROVE  /\ documents' \in [Item -> {Nothing} \cup CommittedDocument]
           /\ batch[w].effect[i] = "none" => documents'[i] = documents[i]
           /\ batch[w].effect[i] = "insert" =>
                 /\ i \notin Present /\ i \in Present'
                 /\ documents'[i].created = batch[w].start
                 /\ documents'[i].written = batch[w].start
           /\ batch[w].effect[i] = "update" =>
                 /\ i \in Present /\ i \in Present' /\ batch[w].how = "overwrite"
                 /\ documents'[i].created = documents[i].created
                 /\ documents'[i].written = batch[w].start
           /\ batch[w].effect[i] = "delete" =>
                 i \in Present /\ i \notin Present' /\ batch[w].how = "delete"
           /\ batch[w].effect[i] \in RowEffect
<1> PICK t : t = batch[w]
  OBVIOUS
<1>1. /\ t \in Transaction /\ Fits(t) /\ Applicable(t) /\ t.start \in Nat
      /\ t.effect \in [Item -> RowEffect]
  BY InFlightType DEF BatchInv, BatchesFit, Transaction
<1>2. documents' = [j \in Item |-> CommittedRow(t, j)]
  BY DEF CommitBatch
<1>3. \A j \in Present : documents[j] \in CommittedDocument
  BY StoredType DEF BatchInv
<1>5. documents \in [Item -> {Nothing} \cup CommittedDocument]
  BY DEF BatchInv, BatchTypes
<1>6. ASSUME NEW j \in Item
      PROVE  /\ CommittedRow(t, j) \in {Nothing} \cup CommittedDocument
             /\ t.effect[j] = "none" => CommittedRow(t, j) = documents[j]
             /\ t.effect[j] = "insert" => CommittedRow(t, j) = [created |-> t.start, written |-> t.start]
             /\ t.effect[j] = "update" => CommittedRow(t, j) = [documents[j] EXCEPT !.written = t.start]
             /\ t.effect[j] = "delete" => CommittedRow(t, j) = Nothing
             /\ t.effect[j] \in {"update", "delete"} => j \in Present
             /\ t.effect[j] = "insert" => j \notin Present
             /\ t.effect[j] \in RowEffect
  <2>1. t.effect[j] \in RowEffect
    BY <1>1
  <2>2. t.effect[j] = "none" => CommittedRow(t, j) = documents[j]
    BY DEF CommittedRow
  <2>3. t.effect[j] = "insert" => CommittedRow(t, j) = [created |-> t.start, written |-> t.start]
    BY DEF CommittedRow
  <2>4. t.effect[j] = "update" => CommittedRow(t, j) = [documents[j] EXCEPT !.written = t.start]
    BY DEF CommittedRow
  <2>5. t.effect[j] = "delete" => CommittedRow(t, j) = Nothing
    BY DEF CommittedRow
  <2>6. /\ t.effect[j] \in {"update", "delete"} => j \in Present
        /\ t.effect[j] = "insert" => j \notin Present
    BY <1>1 DEF Applicable
  <2>7. CommittedRow(t, j) \in {Nothing} \cup CommittedDocument
    <3>1. CASE t.effect[j] = "none"
      BY <1>5, <2>2, <3>1
    <3>2. CASE t.effect[j] = "insert"
      BY <1>1, <2>3, <3>2 DEF CommittedDocument
    <3>3. CASE t.effect[j] = "update"
      <4>1. documents[j] \in CommittedDocument
        BY <1>3, <2>6, <3>3
      <4> QED
        BY <1>1, <2>4, <3>3, <4>1 DEF CommittedDocument
    <3>4. CASE t.effect[j] = "delete"
      BY <2>5, <3>4
    <3> QED
      BY <2>1, <3>1, <3>2, <3>3, <3>4 DEF RowEffect
  <2> QED
    BY <2>1, <2>2, <2>3, <2>4, <2>5, <2>6, <2>7
<1>7. documents' \in [Item -> {Nothing} \cup CommittedDocument] /\ documents'[i] = CommittedRow(t, i)
  BY <1>2, <1>6
<1>8. Present' = {j \in Item : documents'[j] # Nothing}
  BY DEF Present
<1>9. ASSUME t.effect[i] = "insert"
      PROVE  /\ documents'[i] # Nothing
             /\ documents'[i].created = t.start /\ documents'[i].written = t.start
  <2>1. documents'[i] = [created |-> t.start, written |-> t.start]
    BY <1>6, <1>7, <1>9
  <2>2. documents'[i] \in CommittedDocument
    BY <1>1, <2>1 DEF CommittedDocument
  <2> QED
    BY <2>1, <2>2, NothingElse
<1>10. ASSUME t.effect[i] = "update"
       PROVE  /\ documents'[i] # Nothing
              /\ documents'[i].created = documents[i].created /\ documents'[i].written = t.start
  <2>1. documents'[i] = [documents[i] EXCEPT !.written = t.start] /\ documents[i] \in CommittedDocument
    BY <1>3, <1>6, <1>7, <1>10
  <2>2. /\ documents'[i] \in CommittedDocument
        /\ documents'[i].created = documents[i].created /\ documents'[i].written = t.start
    BY <1>1, <2>1 DEF CommittedDocument
  <2> QED
    BY <2>2, NothingElse
<1>11. /\ t.effect[i] = "update" => t.how = "overwrite"
       /\ t.effect[i] = "delete" => t.how = "delete"
  BY <1>1 DEF Fits
<1> QED
  BY <1>6, <1>7, <1>8, <1>9, <1>10, <1>11

\* A commit: what it inserts was not stored, and no other transaction in flight
\* depends on it.
LEMMA CommitBatchKeeps ==
    ASSUME BatchInv, NEW w \in Writer, Running(w), CommitBatch(w) PROVE BatchInv'
<1>1. /\ batch \in [Writer -> {Nothing} \cup Transaction] /\ clock \in Nat /\ clock' = clock
      /\ batch' = [batch EXCEPT ![w] = Nothing]
  BY DEF BatchInv, BatchTypes, CommitBatch, Put
<1>2. /\ batch'[w] = Nothing /\ \A o \in Writer \ {w} : batch'[o] = batch[o]
      /\ \A o \in Writer : Running(o)' => Running(o) /\ o # w
  BY <1>1 DEF Running
<1>3. BatchTypes'
  <2>1. CASE Item = {}
    BY <1>1, <2>1 DEF BatchTypes, CommitBatch
  <2>2. CASE Item # {}
    BY <1>1, <2>2, CommittedRows DEF BatchTypes
  <2> QED
    BY <2>1, <2>2
<1>4. \A i \in Item : batch[w].effect[i] = "none" => documents'[i] = documents[i]
  BY CommittedRows
<1>5. ASSUME NEW o \in Writer \ {w}, Running(o), NEW i \in Item, batch[o].effect[i] # "none"
      PROVE  documents'[i] = documents[i]
  BY <1>4, <1>5 DEF BatchInv, Exclusive
<1>6. BatchesFit'
  <2>1. ASSUME NEW o \in Writer \ {w}, Running(o) PROVE Applicable(batch[o])'
    <3>1. Applicable(batch[o])
      BY <2>1 DEF BatchInv, BatchesFit
    <3>2. batch'[o] = batch[o]
      BY <1>2
    <3> QED
      BY <1>5, <2>1, <3>1, <3>2 DEF Applicable, Present
  <2> QED
    BY <1>2, <2>1 DEF BatchInv, BatchesFit, Fits, Running
<1>7. Exclusive'
  BY <1>2 DEF BatchInv, Exclusive, Running
<1>8. StartsDiffer'
  <2>1. ASSUME NEW i \in Present'
        PROVE  \/ i \in Present /\ documents'[i].created = documents[i].created
               \/ documents'[i].created = batch[w].start
    <3>1. i \in Item
      BY DEF Present
    <3>2. batch[w].effect[i] = "none" => i \in Present /\ documents'[i] = documents[i]
      BY <1>4, <3>1 DEF Present
    <3> QED
      BY <3>1, <3>2, CommittedRows DEF RowEffect
  <2>2. /\ \A o \in Writer : Running(o) => batch[o].start \in 1 .. clock
        /\ \A o \in Writer \ {w} : Running(o) => batch[o].start # batch[w].start
        /\ \A i \in Present : documents[i].created \in 1 .. clock
        /\ \A o \in Writer, i \in Present : Running(o) => documents[i].created # batch[o].start
    BY DEF BatchInv, StartsDiffer
  <2>3. \A i \in Present' : documents'[i].created \in 1 .. clock'
    BY <1>1, <2>1, <2>2
  <2>4. \A o \in Writer, i \in Present' : Running(o)' => documents'[i].created # batch'[o].start
    BY <1>2, <2>1, <2>2
  <2> QED
    BY <1>1, <1>2, <2>2, <2>3, <2>4 DEF BatchInv, StartsDiffer
<1> QED
  BY <1>3, <1>6, <1>7, <1>8 DEF BatchInv

LEMMA BatchStep ==
    ASSUME BatchInv, [CollectionsNext]_collectionVars PROVE BatchInv'
<1>1. CASE \E w \in Writer : BeginBatch(w)
  BY <1>1, BeginBatchKeeps
<1>2. ASSUME NEW w \in Writer, Running(w),
             \/ CheckItem(w) \/ InsertItem(w) \/ UpdateItem(w) \/ DeleteItem(w)
             \/ CommitBatch(w) \/ Fail(w)
      PROVE  BatchInv'
  <2>1. CASE Fail(w)
    BY <1>2, <2>1, GivesUpBatch DEF Fail, RollsBack
  <2> QED
    BY <1>2, <2>1, CheckItemKeeps, WriteItemKeeps, CommitBatchKeeps
<1>3. CASE UNCHANGED <<documents, batch, clock>>
  BY <1>3 DEF BatchInv, BatchTypes, BatchesFit, Applicable, Exclusive, StartsDiffer, Running,
     Present
<1> QED
  BY <1>1, <1>2, <1>3 DEF CollectionsNext, Running, GetFirstPage, GetNextPage, collectionVars

LEMMA BatchInitially ==
    ASSUME CollectionsInit PROVE BatchInv
BY DEF CollectionsInit, BatchInv, BatchTypes, BatchesFit, Exclusive, StartsDiffer, Running, Present

\* Two transactions in flight change different documents, of different times, always.
LEMMA BatchInvariance == CollectionsSpec => []BatchInv
<1>1. CollectionsInit => BatchInv
  BY BatchInitially
<1>2. BatchInv /\ [CollectionsNext]_collectionVars => BatchInv'
  BY BatchStep
<1> QED
  BY <1>1, <1>2, PTL DEF CollectionsSpec

\* What a commit changes in a stored document, and who may.
LEMMA KeepsStep ==
    ASSUME BatchInv, [CollectionsNext]_collectionVars, NEW i \in Present,
           documents'[i] # documents[i]
    PROVE  /\ documents'[i] # Nothing => documents'[i].created = documents[i].created
           /\ \E w \in Writer : batch[w] # Nothing /\ batch'[w] = Nothing
                                /\ batch[w].how \in {"overwrite", "delete"}
<1>1. PICK w \in Writer : Running(w) /\ CommitBatch(w)
  BY DEF CollectionsNext, Running, BeginBatch, CheckItem, InsertItem, UpdateItem, DeleteItem, Fail,
     GetFirstPage, GetNextPage, collectionVars
<1>2. i \in Item /\ documents' = [j \in Item |-> CommittedRow(batch[w], j)]
  BY <1>1 DEF Present, CommitBatch
<1>3. batch[w].effect[i] \in {"update", "delete"}
  BY <1>1, <1>2, CommittedRows DEF RowEffect
<1>4. /\ batch[w].effect[i] = "update" =>
            batch[w].how = "overwrite" /\ documents'[i].created = documents[i].created
      /\ batch[w].effect[i] = "delete" => batch[w].how = "delete" /\ i \notin Present'
  BY <1>1, <1>2, CommittedRows
<1>5. batch'[w] = Nothing
  BY <1>1 DEF CommitBatch, Put, BatchInv, BatchTypes
<1>6. i \notin Present' => documents'[i] = Nothing
  BY <1>2 DEF Present
<1> QED
  BY <1>1, <1>3, <1>4, <1>5, <1>6 DEF Running

\* A commit that is neither an overwriting import nor a deletion leaves what is stored
\* alone, and no document gets another created_at, for any number of imports, deletions
\* and documents: although an import looks for a document in an earlier statement than
\* the one that inserts it, what it inserts is not there when it commits (import_package,
\* _import_shells, _import_submodels).
THEOREM CommitsKeep == CollectionsSpec => ImportsKeep
<1>1. BatchInv /\ [CollectionsNext]_collectionVars =>
        [\A i \in Present : documents'[i] # documents[i] =>
            /\ documents'[i] # Nothing => documents'[i].created = documents[i].created
            /\ \E w \in Writer : batch[w] # Nothing /\ batch'[w] = Nothing
                                 /\ batch[w].how \in {"overwrite", "delete"}]_collectionVars
  BY KeepsStep
<1> QED
  BY <1>1, BatchInvariance, PTL DEF CollectionsSpec, ImportsKeep

-----------------------------------------------------------------------------
(* Listing: what lies between the cursor of a page and that of the next one *)
(* was on the page, but for rows that share their time.                     *)

LEMMA StoredRowsFinite ==
    ASSUME BatchInv
    PROVE  /\ IsFiniteSet(StoredRows)
           /\ \A r \in StoredRows : r.created \in 1 .. clock
           /\ \A r \in StoredRows : \E i \in Present : r = RowListed(i)
<1> DEFINE rowOf == [i \in Present |-> RowListed(i)]
<1>1. IsFiniteSet(Present)
  BY NothingElse, FS_Subset DEF Present
<1>2. rowOf \in Surjection(Present, StoredRows)
  BY DEF Surjection, StoredRows
<1>3. IsFiniteSet(StoredRows)
  BY <1>1, <1>2, FS_Surjection
<1>4. \A i \in Present : documents[i].created \in 1 .. clock /\ RowListed(i).created = documents[i].created
  BY DEF BatchInv, StartsDiffer, RowListed
<1> QED
  BY <1>3, <1>4 DEF StoredRows

LEMMA PageRows ==
    ASSUME BatchInv, NEW c \in Nat, NEW page \in Pages(c)
    PROVE  /\ page \subseteq StoredRows /\ \A r \in page : r.created > c
           /\ \A s \in StoredRows \ page, r \in page : s.created > c => r.created <= s.created
           /\ page = {} => \A r \in StoredRows : ~(r.created > c)
<1> DEFINE rest == {r \in StoredRows : r.created > c}
           k == Min({Limit, Cardinality(rest)})
<1>1. IsFiniteSet(rest) /\ Cardinality(rest) \in Nat
  BY StoredRowsFinite, FS_Subset, FS_CardinalityType
<1>2. /\ page \in kSubset(k, rest)
      /\ \A r \in page, s \in rest \ page : r.created <= s.created
  BY DEF Pages
<1>3. page \in SUBSET rest /\ Cardinality(page) = k
  BY <1>2 DEF kSubset
<1>4. ASSUME page = {} PROVE rest = {}
  <2>1. k = 0
    BY <1>3, <1>4, FS_EmptySet
  <2>2. k \in {Limit, Cardinality(rest)}
    <3>1. {Limit, Cardinality(rest)} \in SUBSET Nat /\ {Limit, Cardinality(rest)} # {}
      BY <1>1, NothingElse
    <3> HIDE DEF rest
    <3> QED
      BY <3>1, MinOf
  <2>3. Cardinality(rest) = 0
    BY <2>1, <2>2, NothingElse
  <2> QED
    BY <1>1, <2>3, FS_EmptySet
<1> QED
  BY <1>2, <1>3, <1>4

LEMMA LastTimeOf ==
    ASSUME BatchInv, NEW page \in SUBSET StoredRows, page # {}
    PROVE  /\ \E r \in page : LastTime(page) = r.created
           /\ LastTime(page) \in 1 .. clock
           /\ \A r \in page : r.created <= LastTime(page)
<1> DEFINE times == {r.created : r \in page}
<1>1. clock \in Nat /\ times # {} /\ times \in SUBSET (0 .. clock)
  <2>1. clock \in Nat /\ \A r \in page : r.created \in 0 .. clock
    BY StoredRowsFinite DEF BatchInv, BatchTypes
  <2> QED
    BY <2>1
<1>2. LastTime(page) = Max(times)
  BY DEF LastTime
<1> HIDE DEF times
<1>3. LastTime(page) \in times /\ \A x \in times : x <= LastTime(page)
  BY <1>1, <1>2, MaxOf
<1>4. (\E r \in page : LastTime(page) = r.created) /\ \A r \in page : r.created <= LastTime(page)
  BY <1>3 DEF times
<1> QED
  BY <1>4, StoredRowsFinite

\* Where the next page starts, and that no row before it was left out.
LEMMA PageReads ==
    ASSUME BatchInv, NEW c \in Nat, NEW page \in Pages(c), NEW route \in {"zero_copy", "models"},
           NEW next, next = NextCursor(route, page, c)
    PROVE  /\ next # Nothing => /\ next \in 1 .. clock /\ c < next
                                /\ \A r \in page : r.created <= next
           /\ \A r \in StoredRows :
                 /\ r.created > c
                 /\ next = Nothing \/ r.created <= next
                 /\ \A s \in StoredRows \ {r} : s.created # r.created
                 => r \in page
<1>1. /\ page \in SUBSET StoredRows /\ \A r \in page : r.created > c
      /\ \A s \in StoredRows \ page, r \in page : s.created > c => r.created <= s.created
      /\ page = {} => \A r \in StoredRows : ~(r.created > c)
  BY PageRows
<1>2. /\ clock \in Nat /\ \A r \in StoredRows : r.created \in 1 .. clock
      /\ Nothing \notin Nat
  BY StoredRowsFinite, NothingElse DEF BatchInv, BatchTypes
<1>3. next = LastTime(page) \/ next = Nothing
  BY DEF NextCursor, CursorZeroCopy, CursorOfModels
<1>4. ASSUME next # Nothing
      PROVE  next \in 1 .. clock /\ c < next /\ \A r \in page : r.created <= next
  <2>1. page # {}
    BY <1>1, <1>4 DEF NextCursor, CursorZeroCopy, CursorOfModels
  <2>2. next = LastTime(page) /\ next \in 1 .. clock /\ \A r \in page : r.created <= next
    BY <1>1, <1>3, <1>4, <2>1, LastTimeOf
  <2>3. PICK r \in page : TRUE
    BY <2>1
  <2>4. r.created > c /\ r.created <= next /\ r.created \in 1 .. clock
    BY <1>1, <1>2, <2>2
  <2> QED
    BY <1>2, <2>2, <2>4
<1>5. ASSUME NEW r \in StoredRows, r.created > c, next = Nothing \/ r.created <= next,
             \A s \in StoredRows \ {r} : s.created # r.created, r \notin page
      PROVE  FALSE
  <2>1. page # {}
    BY <1>1, <1>5
  <2>2. PICK m \in page : LastTime(page) = m.created
    BY <1>1, <2>1, LastTimeOf
  <2>3. m.created < r.created
    <3>1. m \in StoredRows \ {r} /\ m.created <= r.created
      BY <1>1, <1>5
    <3>2. m.created # r.created /\ m.created \in Nat /\ r.created \in Nat
      BY <1>2, <1>5, <3>1
    <3> QED
      BY <3>1, <3>2
  <2>4. r.created \in Nat /\ m.created \in Nat
    BY <1>1, <1>2
  <2>5. next = Nothing
    BY <1>3, <1>5, <2>2, <2>3, <2>4
  <2>6. r \in StoredRows /\ r.created > LastTime(page) /\ r \in StoredRows \ page
    BY <1>5, <2>2, <2>3, <2>4
  <2>7. LastTime(page) # Nothing
    BY <1>2, <2>2, <2>4
  <2>8. CASE route = "zero_copy"
    BY <2>1, <2>5, <2>6, <2>7, <2>8 DEF NextCursor, CursorZeroCopy
  <2>9. CASE route = "models"
    BY <1>5, <2>5, <2>6, <2>7, <2>9 DEF NextCursor, CursorOfModels
  <2> QED
    BY <2>8, <2>9
<1> QED
  BY <1>4, <1>5

Untied(r, rs) == \A s \in rs \ {r} : s.created # r.created

RowsRead == [id : Item, created : Nat]

Listing == [route : {"zero_copy", "models", "filtered"}, cursor : {Nothing} \cup Nat,
            seen : SUBSET RowsRead, twice : BOOLEAN, first : SUBSET RowsRead]

LEMMA StoredRowsType ==
    ASSUME BatchInv PROVE StoredRows \in SUBSET RowsRead
BY StoredType DEF BatchInv, StoredRows, RowListed, RowsRead, CommittedDocument

\* What a listing has read: nothing after its cursor, and all that it had to before it.
ListingFits(l) ==
    /\ l \in Listing
    /\ \A r \in l.first : r.created \in 1 .. clock
    /\ \A w \in Writer, r \in l.first : Running(w) => r.created # batch[w].start
    /\ \A r \in l.first, s \in StoredRows : s.created = r.created => s \in l.first
    /\ l.route = "filtered" => l.cursor = Nothing
    /\ l.cursor # Nothing => l.cursor \in Nat /\ \A r \in l.seen : r.created <= l.cursor
    /\ l.route # "filtered" =>
          /\ ~l.twice
          /\ \A r \in l.first \cap StoredRows :
                Untied(r, l.first) /\ (l.cursor = Nothing \/ r.created <= l.cursor) => r \in l.seen

ListingInv == listing # Nothing => ListingFits(listing)

LEMMA FirstPageFits ==
    ASSUME BatchInv, GetFirstPage PROVE ListingInv'
<1>1. PICK route \in {"zero_copy", "models", "filtered"}, page \in Pages(0) :
         listing' = [route |-> route, cursor |-> NextCursor(route, page, 0), seen |-> page,
                     twice |-> FALSE, first |-> StoredRows]
  BY DEF GetFirstPage
<1> PICK next : next = NextCursor(route, page, 0)
  OBVIOUS
<1>2. /\ listing'.route = route /\ listing'.cursor = next /\ listing'.seen = page
      /\ listing'.twice = FALSE /\ listing'.first = StoredRows
  BY <1>1
<1>3. UNCHANGED <<documents, batch, clock>> /\ StoredRows' = StoredRows
  BY DEF GetFirstPage, StoredRows, Present, RowListed
<1>4. /\ \A r \in StoredRows : r.created \in 1 .. clock /\ r.created > 0
      /\ clock \in Nat
  BY StoredRowsFinite DEF BatchInv, BatchTypes
<1>5. \A w \in Writer, r \in StoredRows : Running(w) => r.created # batch[w].start
  BY StoredRowsFinite DEF BatchInv, StartsDiffer, RowListed
<1>6. route = "filtered" => next = Nothing
  BY DEF NextCursor
<1>9. page \in SUBSET StoredRows
  BY PageRows, 0 \in Nat
<1>7. CASE route = "filtered"
  <2>1. listing' \in Listing
    BY <1>1, <1>6, <1>7, <1>9, StoredRowsType DEF Listing
  <2> QED
    BY <1>2, <1>3, <1>4, <1>5, <1>6, <1>7, <2>1 DEF ListingInv, ListingFits, Running
<1>8. CASE route # "filtered"
  <2>1. /\ next # Nothing => next \in 1 .. clock /\ \A r \in page : r.created <= next
        /\ \A r \in StoredRows :
              (next = Nothing \/ r.created <= next) /\ Untied(r, StoredRows) => r \in page
    BY <1>4, <1>8, PageReads, 0 \in Nat DEF Untied
  <2>2. next # Nothing => next \in Nat
    BY <1>4, <2>1
  <2>3. listing' \in Listing
    BY <1>1, <1>9, <2>2, StoredRowsType DEF Listing
  <2> QED
    BY <1>2, <1>3, <1>4, <1>5, <1>8, <2>1, <2>2, <2>3 DEF ListingInv, ListingFits, Running, Untied
<1> QED
  BY <1>7, <1>8

LEMMA NextPageFits ==
    ASSUME BatchInv, ListingInv, GetNextPage PROVE ListingInv'
<1> PICK l : l = listing
  OBVIOUS
<1> PICK c : c = l.cursor
  OBVIOUS
<1>1. /\ c # Nothing /\ ListingFits(l) /\ l.route \in {"zero_copy", "models"} /\ c \in Nat
      /\ UNCHANGED <<documents, batch, clock>> /\ StoredRows' = StoredRows
  BY DEF GetNextPage, ListingInv, ListingFits, Listing, StoredRows, Present, RowListed
<1>2. PICK page \in Pages(c) :
         listing' = [l EXCEPT !.cursor = NextCursor(l.route, page, @), !.seen = @ \cup page,
                              !.twice = @ \/ page \cap l.seen # {}]
  BY DEF GetNextPage
<1> PICK next : next = NextCursor(l.route, page, c)
  OBVIOUS
<1>3. /\ next # Nothing => /\ next \in 1 .. clock /\ c < next
                           /\ \A r \in page : r.created <= next
      /\ \A r \in StoredRows :
            /\ r.created > c
            /\ next = Nothing \/ r.created <= next
            /\ Untied(r, StoredRows)
            => r \in page
  BY <1>1, PageReads DEF Untied
<1>4. /\ page \subseteq StoredRows /\ \A r \in page : r.created > c
      /\ \A r \in StoredRows : r.created \in 1 .. clock
      /\ clock \in Nat
  BY <1>1, PageRows, StoredRowsFinite DEF BatchInv, BatchTypes
<1>5. next \in {Nothing} \cup Nat
  BY <1>3, <1>4
<1>6. /\ listing' \in Listing
      /\ listing'.route = l.route /\ listing'.cursor = next /\ listing'.seen = l.seen \cup page
      /\ listing'.twice = (l.twice \/ page \cap l.seen # {}) /\ listing'.first = l.first
  <2>1. l \in Listing /\ page \in SUBSET RowsRead
    BY <1>1, <1>4, StoredRowsType DEF ListingFits
  <2> QED
    BY <1>2, <1>5, <2>1 DEF Listing
<1>7. /\ l.cursor = c /\ l.route # "filtered" /\ ~l.twice
      /\ \A r \in l.seen : r.created <= c
      /\ \A r \in l.first : r.created \in 1 .. clock
      /\ \A w \in Writer, r \in l.first : Running(w) => r.created # batch[w].start
      /\ \A r \in l.first, s \in StoredRows : s.created = r.created => s \in l.first
      /\ \A r \in l.first \cap StoredRows :
            Untied(r, l.first) /\ r.created <= c => r \in l.seen
  BY <1>1 DEF ListingFits
<1>8. page \cap l.seen = {}
  <2>1. ASSUME NEW r \in page \cap l.seen PROVE FALSE
    <3>1. r.created > c /\ r.created <= c /\ r.created \in Nat
      BY <1>4, <1>7
    <3> QED
      BY <1>1, <3>1
  <2> QED
    BY <2>1
<1>9. next # Nothing => next \in Nat /\ \A r \in l.seen \cup page : r.created <= next
  <2>1. ASSUME next # Nothing, NEW r \in l.seen PROVE r.created <= next
    <3>1. r.created \in Nat /\ r.created <= c /\ c < next
      BY <1>1, <1>3, <1>7, <2>1 DEF ListingFits, Listing, RowsRead
    <3> QED
      BY <1>1, <1>3, <2>1, <3>1
  <2> QED
    BY <1>3, <1>4, <2>1
<1>10. ASSUME NEW r \in l.first \cap StoredRows, Untied(r, l.first),
              next = Nothing \/ r.created <= next
       PROVE  r \in l.seen \cup page
  <2>1. Untied(r, StoredRows)
    BY <1>7, <1>10 DEF Untied
  <2>2. r.created \in Nat
    BY <1>4
  <2>3. CASE r.created > c
    BY <1>3, <1>10, <2>1, <2>3
  <2>4. CASE r.created <= c
    BY <1>7, <1>10, <2>4
  <2> QED
    BY <1>1, <2>2, <2>3, <2>4
<1> QED
  BY <1>1, <1>6, <1>7, <1>8, <1>9, <1>10 DEF ListingInv, ListingFits, Running

\* What a transaction does to the rows: those that it makes are of its own time, which
\* no row of the listing has.
LEMMA NewRows ==
    ASSUME BatchInv, [CollectionsNext]_collectionVars, NEW r \in StoredRows'
    PROVE  \/ r \in StoredRows
           \/ \E w \in Writer : Running(w) /\ r.created = batch[w].start
<1>1. CASE StoredRows' = StoredRows
  BY <1>1
<1>2. CASE \E w \in Writer : Running(w) /\ CommitBatch(w)
  <2>1. PICK w \in Writer : Running(w) /\ CommitBatch(w)
    BY <1>2
  <2>2. PICK i \in Present' : r = [id |-> i, created |-> documents'[i].created]
    BY DEF StoredRows, RowListed
  <2>3. i \in Item /\ batch[w].effect[i] \in RowEffect
    BY <2>1, CommittedRows DEF Present
  <2>4. batch[w].effect[i] # "delete"
    BY <2>1, <2>2, <2>3, CommittedRows
  <2>5. CASE batch[w].effect[i] = "insert"
    BY <2>1, <2>2, <2>3, <2>5, CommittedRows
  <2>6. CASE batch[w].effect[i] \in {"none", "update"}
    <3>1. i \in Present /\ documents'[i].created = documents[i].created
      <4>1. documents'[i] # Nothing
        BY <2>2 DEF Present
      <4>2. CASE batch[w].effect[i] = "none"
        BY <2>1, <2>3, <4>1, <4>2, CommittedRows DEF Present
      <4>3. CASE batch[w].effect[i] = "update"
        BY <2>1, <2>3, <4>3, CommittedRows
      <4> QED
        BY <2>6, <4>2, <4>3
    <3>2. r = RowListed(i)
      BY <2>2, <3>1 DEF RowListed
    <3> QED
      BY <3>1, <3>2 DEF StoredRows
  <2> QED
    BY <2>3, <2>4, <2>5, <2>6 DEF RowEffect
<1>3. CASE documents' = documents
  BY <1>1, <1>3 DEF StoredRows, Present, RowListed
<1> QED
  BY <1>2, <1>3 DEF CollectionsNext, Running, BeginBatch, CheckItem, InsertItem, UpdateItem,
     DeleteItem, Fail, GetFirstPage, GetNextPage, collectionVars

\* A transaction keeps the time of its start.
LEMMA StartsKept ==
    ASSUME BatchInv, [CollectionsNext]_collectionVars, NEW w \in Writer, Running(w)'
    PROVE  \/ /\ Running(w) /\ batch'[w].start = batch[w].start
              /\ Len(batch'[w].todo) <= Len(batch[w].todo)
           \/ /\ batch'[w].start = clock + 1
              /\ Len(batch'[w].todo) <= MaxItems
<1>1. batch \in [Writer -> {Nothing} \cup Transaction]
  BY DEF BatchInv, BatchTypes
<1>2. CASE batch'[w] = batch[w]
  <2>1. batch[w] \in Transaction /\ Running(w)
    BY <1>1, <1>2 DEF Running
  <2>2. Len(batch[w].todo) \in Nat
    BY <2>1 DEF Transaction
  <2> QED
    BY <1>2, <2>1, <2>2
<1>3. CASE batch'[w] # batch[w]
  <2>1. CASE BeginBatch(w)
    <3>1. PICK todo \in BoundedSeq(Item \ FreshItem, MaxItems), how \in Resolution :
             Put(w, [start |-> clock + 1, todo |-> todo, how |-> how, write |-> Nothing,
                     effect |-> [i \in Item |-> "none"]])
      BY <2>1 DEF BeginBatch
    <3>2. PICK m \in 0 .. MaxItems : todo \in [1 .. m -> Item \ FreshItem]
      BY DEF BoundedSeq, SeqOf
    <3>3. Len(todo) <= MaxItems
      BY <3>2, NothingElse
    <3> QED
      BY <1>1, <3>1, <3>3 DEF Put
  <2>2. ASSUME Running(w), CheckItem(w) \/ InsertItem(w) \/ UpdateItem(w) \/ DeleteItem(w)
        PROVE  /\ batch'[w].start = batch[w].start
               /\ Len(batch'[w].todo) <= Len(batch[w].todo)
    <3>1. batch[w] \in Transaction /\ batch'[w] # Nothing
      BY <2>2, InFlightType DEF BatchInv, Running
    <3> PICK t : t = batch[w]
      OBVIOUS
    <3>2. CASE CheckItem(w)
      <4>1. PICK change : Put(w, [t EXCEPT !.todo = Tail(@), !.write = change])
        BY <3>2 DEF CheckItem
      <4>2. batch'[w].start = t.start /\ batch'[w].todo = Tail(t.todo)
        BY <1>1, <3>1, <4>1 DEF Put, Transaction
      <4>3. t.todo \in Seq(Item) /\ t.todo # <<>>
        BY <3>1, <3>2 DEF CheckItem, Transaction
      <4>4. Len(Tail(t.todo)) <= Len(t.todo)
        BY <4>3
      <4> QED
        BY <4>2, <4>4
    <3>4. /\ [t EXCEPT !.write = Nothing].start = t.start
          /\ [t EXCEPT !.write = Nothing].todo = t.todo
      BY <3>1 DEF Transaction
    <3>5. CASE ~CheckItem(w)
      <4>1. PICK x : Put(w, x) /\ (\/ x = Nothing
                                   \/ x = [t EXCEPT !.write = Nothing]
                                   \/ \E e, j : x = [t EXCEPT !.write = Nothing, !.effect[j] = e])
        <5>1. CASE InsertItem(w)
          BY <5>1 DEF InsertItem, RollsBack
        <5>2. CASE UpdateItem(w)
          <6>1. [t EXCEPT !.write = Nothing, !.effect[t.write.id] = IF @ = "insert" THEN @ ELSE "update"]
                = [t EXCEPT !.write = Nothing,
                            !.effect[t.write.id] = IF t.effect[t.write.id] = "insert"
                                                   THEN t.effect[t.write.id] ELSE "update"]
            BY <3>1 DEF Transaction
          <6> QED
            BY <5>2, <6>1 DEF UpdateItem
        <5>3. CASE DeleteItem(w)
          BY <5>3 DEF DeleteItem
        <5> QED
          BY <2>2, <3>5, <5>1, <5>2, <5>3
      <4>2. batch'[w] = x
        BY <1>1, <4>1 DEF Put
      <4>3. x # Nothing
        BY <3>1, <4>2
      <4>4. x.start = t.start /\ x.todo = t.todo
        <5>1. CASE x = [t EXCEPT !.write = Nothing]
          BY <3>4, <5>1
        <5>2. ASSUME NEW e, NEW j, x = [t EXCEPT !.write = Nothing, !.effect[j] = e]
              PROVE  x.start = t.start /\ x.todo = t.todo
          BY <3>1, <5>2 DEF Transaction
        <5> QED
          BY <4>1, <4>3, <5>1, <5>2
      <4>5. Len(t.todo) \in Nat
        BY <3>1 DEF Transaction
      <4> QED
        BY <4>2, <4>4, <4>5
    <3> QED
      BY <3>2, <3>5
  <2>3. ASSUME CommitBatch(w) \/ Fail(w) PROVE FALSE
    BY <1>1, <2>3 DEF CommitBatch, Fail, RollsBack, Put, Running
  <2>4. ASSUME NEW v \in Writer \ {w},
               \/ BeginBatch(v) \/ CheckItem(v) \/ InsertItem(v) \/ UpdateItem(v)
               \/ DeleteItem(v) \/ CommitBatch(v) \/ Fail(v)
        PROVE  FALSE
    BY <1>1, <1>3, <2>4 DEF BeginBatch, CheckItem, InsertItem, UpdateItem, DeleteItem, CommitBatch,
       Fail, RollsBack, Put
  <2> QED
    BY <1>3, <2>1, <2>2, <2>3, <2>4 DEF CollectionsNext, Running, GetFirstPage, GetNextPage,
       collectionVars
<1> QED
  BY <1>2, <1>3

\* Between the pages.
LEMMA ListingGoesOn ==
    ASSUME BatchInv, ListingInv, [CollectionsNext]_collectionVars, listing' = listing
    PROVE  ListingInv'
<1> SUFFICES ASSUME listing # Nothing PROVE ListingFits(listing)'
  BY DEF ListingInv
<1>1. ListingFits(listing) /\ listing \in Listing
  BY DEF ListingInv, ListingFits
<1> PICK l : l = listing
  OBVIOUS
<1>2. /\ \A r \in l.first : r.created \in 1 .. clock
      /\ \A w \in Writer, r \in l.first : Running(w) => r.created # batch[w].start
      /\ \A r \in l.first, s \in StoredRows : s.created = r.created => s \in l.first
      /\ \A r \in l.first \cap StoredRows :
            /\ l.route # "filtered"
            /\ Untied(r, l.first) /\ (l.cursor = Nothing \/ r.created <= l.cursor)
            => r \in l.seen
  BY <1>1 DEF ListingFits
<1>3. clock \in Nat /\ (clock' = clock \/ clock' = clock + 1)
  BY DEF BatchInv, BatchTypes, CollectionsNext, BeginBatch, CheckItem, InsertItem, UpdateItem,
     DeleteItem, CommitBatch, Fail, GetFirstPage, GetNextPage, collectionVars
<1>4. \A r \in l.first : r.created \in 1 .. clock'
  BY <1>2, <1>3
<1>5. ASSUME NEW w \in Writer, Running(w)'
      PROVE  \/ Running(w) /\ batch'[w].start = batch[w].start
             \/ batch'[w].start = clock + 1
  BY <1>5, StartsKept
<1>6. \A w \in Writer, r \in l.first : Running(w)' => r.created # batch'[w].start
  BY <1>2, <1>3, <1>5
<1>7. \A r \in l.first, s \in StoredRows' : s.created = r.created => s \in StoredRows
  BY <1>2, NewRows
<1>8. \A r \in l.first \cap StoredRows' : r \in StoredRows
  BY <1>7
<1> QED
  BY <1>1, <1>2, <1>4, <1>6, <1>7, <1>8 DEF ListingFits, Running

\* Every step keeps what is known of the listing: first page, next page, or a commit.
LEMMA ListingInvariance == CollectionsSpec => []ListingInv
<1>1. CollectionsInit => ListingInv
  BY DEF CollectionsInit, ListingInv
<1>2. BatchInv /\ ListingInv /\ [CollectionsNext]_collectionVars => ListingInv'
  <2>1. ASSUME BatchInv, ListingInv, [CollectionsNext]_collectionVars
        PROVE  GetFirstPage \/ GetNextPage \/ listing' = listing
    BY <2>1 DEF CollectionsNext, BeginBatch, CheckItem, InsertItem, UpdateItem,
       DeleteItem, CommitBatch, Fail, collectionVars
  <2> QED
    BY <2>1, FirstPageFits, NextPageFits, ListingGoesOn
<1> QED
  BY <1>1, <1>2, BatchInvariance, PTL DEF CollectionsSpec

\* What is left of the types: the bounds, the times of the last writes, and the cursor.
CollectionsCounted ==
    /\ clock <= MaxClock
    /\ \A i \in Present : documents[i].written \in 1 .. clock
    /\ \A w \in Writer : Running(w) => Len(batch[w].todo) <= MaxItems
    /\ listing # Nothing /\ listing.cursor # Nothing => listing.cursor \in 1 .. clock

\* The cursor of a page is the time of a row that is there.
LEMMA CursorInTime ==
    ASSUME BatchInv, ListingInv, CollectionsCounted, GetFirstPage \/ GetNextPage
    PROVE  listing' # Nothing /\ listing'.cursor # Nothing => listing'.cursor \in 1 .. clock
<1>1. CASE GetFirstPage
  <2>1. PICK route \in {"zero_copy", "models", "filtered"}, page \in Pages(0) :
           listing' = [route |-> route, cursor |-> NextCursor(route, page, 0), seen |-> page,
                       twice |-> FALSE, first |-> StoredRows]
    BY <1>1 DEF GetFirstPage
  <2> PICK next : next = NextCursor(route, page, 0)
    OBVIOUS
  <2>2. listing'.cursor = next
    BY <2>1
  <2>3. CASE route = "filtered"
    BY <2>2, <2>3 DEF NextCursor
  <2>4. CASE route \in {"zero_copy", "models"}
    BY <2>2, <2>4, PageReads, 0 \in Nat
  <2> QED
    BY <2>3, <2>4
<1>2. CASE GetNextPage
  <2> PICK l : l = listing
    OBVIOUS
  <2>1. /\ l.cursor \in Nat /\ l.route \in {"zero_copy", "models"} /\ l \in Listing
    BY <1>2 DEF GetNextPage, ListingInv, ListingFits, Listing
  <2>2. PICK page \in Pages(l.cursor) :
           listing' = [l EXCEPT !.cursor = NextCursor(l.route, page, @), !.seen = @ \cup page,
                                !.twice = @ \/ page \cap l.seen # {}]
    BY <1>2 DEF GetNextPage
  <2> PICK next : next = NextCursor(l.route, page, l.cursor)
    OBVIOUS
  <2>3. listing'.cursor = next
    BY <2>1, <2>2 DEF Listing
  <2> QED
    BY <2>1, <2>3, PageReads
<1> QED
  BY <1>1, <1>2

LEMMA CountedStep ==
    ASSUME BatchInv, ListingInv, CollectionsCounted, [CollectionsNext]_collectionVars
    PROVE  CollectionsCounted'
<1>1. /\ clock \in Nat /\ MaxClock \in Nat /\ MaxItems \in Nat
      /\ \/ clock' = clock
         \/ clock' = clock + 1 /\ clock < MaxClock
  BY CollectionsAssumption DEF BatchInv, BatchTypes, CollectionsNext, BeginBatch, CheckItem,
     InsertItem, UpdateItem, DeleteItem, CommitBatch, Fail, GetFirstPage, GetNextPage,
     collectionVars
<1>2. clock' <= MaxClock
  BY <1>1 DEF CollectionsCounted
<1>3. ASSUME NEW i \in Present' PROVE documents'[i].written \in 1 .. clock'
  <2>1. CASE documents' = documents
    BY <1>1, <2>1 DEF CollectionsCounted, Present
  <2>2. ASSUME NEW w \in Writer, Running(w), CommitBatch(w)
        PROVE  documents'[i].written \in 1 .. clock'
    <3>1. i \in Item /\ clock' = clock /\ batch[w].start \in 1 .. clock
      BY <2>2 DEF Present, CommitBatch, BatchInv, StartsDiffer
    <3>2. CASE batch[w].effect[i] = "none"
      BY <2>2, <3>1, <3>2, CommittedRows DEF Present, CollectionsCounted
    <3>3. CASE batch[w].effect[i] # "none"
      BY <2>2, <3>1, <3>3, CommittedRows DEF RowEffect
    <3> QED
      BY <3>2, <3>3
  <2>3. documents' = documents \/ \E w \in Writer : Running(w) /\ CommitBatch(w)
    BY DEF CollectionsNext, BeginBatch, CheckItem, InsertItem, UpdateItem, DeleteItem, Fail,
       GetFirstPage, GetNextPage, collectionVars, Running
  <2> QED
    BY <2>1, <2>2, <2>3
<1>4. ASSUME NEW w \in Writer, Running(w)' PROVE Len(batch'[w].todo) <= MaxItems
  <2>1. CASE /\ Running(w)
             /\ Len(batch'[w].todo) <= Len(batch[w].todo)
    <3>1. Len(batch[w].todo) <= MaxItems
      BY <2>1 DEF CollectionsCounted
    <3>2. batch[w] \in Transaction /\ batch'[w] \in Transaction
      BY <1>4, <2>1, BatchStep DEF BatchInv, BatchTypes, Running
    <3>3. Len(batch[w].todo) \in Nat /\ Len(batch'[w].todo) \in Nat
      BY <3>2 DEF Transaction
    <3> QED
      BY <1>1, <2>1, <3>1, <3>3
  <2> QED
    BY <1>4, <2>1, StartsKept
<1>5. listing' # Nothing /\ listing'.cursor # Nothing => listing'.cursor \in 1 .. clock'
  <2>1. CASE listing' = listing
    BY <1>1, <2>1 DEF CollectionsCounted
  <2>2. CASE GetFirstPage \/ GetNextPage
    BY <2>2, CursorInTime DEF GetFirstPage, GetNextPage
  <2>3. GetFirstPage \/ GetNextPage \/ listing' = listing
    BY DEF CollectionsNext, BeginBatch, CheckItem, InsertItem, UpdateItem,
       DeleteItem, CommitBatch, Fail, collectionVars
  <2> QED
    BY <2>1, <2>2, <2>3
<1> QED
  BY <1>2, <1>3, <1>4, <1>5 DEF CollectionsCounted

\* Clock, rows, transactions and the cursor keep their types.
LEMMA CollectionsTypesHold == CollectionsSpec => []CollectionsTypeOK
<1>1. CollectionsInit => CollectionsCounted
  BY CollectionsAssumption DEF CollectionsInit, CollectionsCounted, Present, Running
<1>2. BatchInv /\ ListingInv /\ CollectionsCounted => CollectionsTypeOK
  <2> SUFFICES ASSUME BatchInv, ListingInv, CollectionsCounted PROVE CollectionsTypeOK
    OBVIOUS
  <2>1. clock \in 0 .. MaxClock
    BY CollectionsAssumption DEF BatchInv, BatchTypes, CollectionsCounted
  <2>2. \A i \in Present : {documents[i].created, documents[i].written} \subseteq 1 .. clock
    BY DEF BatchInv, StartsDiffer, CollectionsCounted
  <2>3. \A w \in Writer : batch[w] # Nothing =>
            batch[w].start \in 1 .. clock /\ Len(batch[w].todo) <= MaxItems
    BY DEF BatchInv, StartsDiffer, CollectionsCounted, Running
  <2> QED
    BY <2>1, <2>2, <2>3 DEF CollectionsTypeOK, CollectionsCounted
<1> QED
  BY <1>1, <1>2, CountedStep, BatchInvariance, ListingInvariance, PTL DEF CollectionsSpec

\* A client that reads all pages has every row that was there all the time, but for rows
\* of one created_at, and none twice: for pages of any size and any number of commits in
\* between (list_paged_zero_copy, list_models and their cursors).
THEOREM PagesAreComplete == CollectionsSpec => []PagesCompleteUntied
<1>1. ListingInv => PagesCompleteUntied
  BY DEF ListingInv, ListingFits, PagesCompleteUntied, Finished, Untied
<1> QED
  BY <1>1, ListingInvariance, PTL

-----------------------------------------------------------------------------
(* The files of the Submodels.  Whatever a write brings, its files were     *)
(* stored for the row that it writes.                                       *)

On(h, s) == write[h] # Nothing /\ write[h].submodel = s

\* The rows that a Submodel has had, has, or is about to have.
IdsOf(s) ==
    (IF row[s] # Nothing THEN {row[s].id} ELSE {}) \cup {write[h].id : h \in {g \in Handler : On(g, s)}}

StoredFor(b, id) == b \in 1 .. Len(stored) /\ stored[b] = id

DocumentRow == [id : Nat, doc : [Place -> {Nothing} \cup Nat]]

BlobTypes ==
    /\ rowsMade \in Nat
    /\ stored \in Seq(Nat)
    /\ \A b \in 1 .. Len(stored) : stored[b] <= rowsMade
    /\ assets \subseteq AssetRow
    /\ row \in [Owner -> {Nothing} \cup DocumentRow]
    /\ write \in [Handler -> {Nothing} \cup BlobWrite]

IdsApart ==
    /\ \A s \in Owner : \A id \in IdsOf(s) : id <= rowsMade
    /\ \A s, t \in Owner : s # t => IdsOf(s) \cap IdsOf(t) = {}

AssetsOwned == \A a \in assets : StoredFor(a.blob, a.owner)

RowsOwn ==
    \A s \in Owner : row[s] # Nothing =>
        \A b \in References(row[s].doc) : StoredFor(b, row[s].id)

\* What a write brings, and what it is going to remove, is its row's own.
Owns(w) ==
    /\ \A b \in w.new : b \in References(w.doc) /\ StoredFor(b, w.id)
    /\ w.pc = "create" => References(w.doc) \subseteq w.new
    /\ w.pc \in {"delete", "deleting", "deleted"} => w.new = {}
    /\ w.pc \in {"updating", "updated"} => \A b \in References(w.doc) : StoredFor(b, w.id)
    /\ \A a \in w.gone \cup w.moved : StoredFor(a.blob, w.id) /\ a.owner = w.id
    /\ \A a \in w.moved : a.blob \in References(w.doc)

WritesOwn == \A h \in Handler : write[h] # Nothing => Owns(write[h])

BlobsOf(as) == {a.blob : a \in as}
AssetsFor(doc, id) == {Asset(doc, id, b) : b \in References(doc)}

\* A document has its files, and the assets are those that it refers to.
Whole(s) ==
    /\ References(row[s].doc) \subseteq files
    /\ AssetsOf(row[s].id) = AssetsFor(row[s].doc, row[s].id)

\* How far the one write of a Submodel has come.
Prepared(s, w) ==
    /\ w.new \subseteq files
    /\ w.pc = "create" =>
          /\ AssetsOf(w.id) = {}
          /\ row[s] # Nothing => Whole(s) /\ row[s].id # w.id
    /\ w.pc # "create" =>
          /\ row[s] # Nothing /\ row[s].id = w.id
          /\ AssetsOf(w.id) = AssetsFor(row[s].doc, w.id)
          /\ References(row[s].doc) \subseteq files \cup BlobsOf(w.gone)
    /\ w.pc \in {"update", "delete", "updating", "deleting"} =>
          References(row[s].doc) \subseteq files
    /\ w.pc \in {"updating", "updated"} =>
          /\ References(w.doc) \ w.new \subseteq BlobsOf(AssetsOf(w.id))
          /\ w.gone = Unreferenced(w)
          /\ w.moved = {a \in AssetsOf(w.id) \ w.gone : PathOf(w.doc, a.blob) # a.path}

Alone(s) ==
    /\ \A h, g \in Handler : On(h, s) /\ On(g, s) => h = g
    /\ row[s] # Nothing /\ ~Busy(s) => Whole(s)
    /\ \A h \in Handler : On(h, s) => Prepared(s, write[h])

BlobInv ==
    /\ BlobTypes /\ IdsApart /\ AssetsOwned /\ RowsOwn /\ WritesOwn
    /\ \A s \in Owner \ torn : Alone(s)

LEMMA LargeIsElse ==
    /\ LargeContent # Nothing /\ LargeContent \notin Nat /\ Nothing \notin Nat /\ Places \in Nat
    /\ Nothing \notin BlobWrite
BY BlobsAssumption

\* The element that an asset names is one of the document's.
LEMMA PathInside ==
    ASSUME NEW doc \in [Place -> {Nothing} \cup Nat], NEW b \in References(doc)
    PROVE  PathOf(doc, b) \in Place
<1> DEFINE places == {p \in Place : doc[p] = b}
<1>1. places \in SUBSET (0 .. Places) /\ places # {} /\ Places \in Nat
  BY LargeIsElse DEF References, Place
<1> HIDE DEF places
<1>2. Max(places) \in places
  BY <1>1, MaxOf
<1> QED
  BY <1>2 DEF PathOf, places

\* The files of a document that is written are new ones, stored for its row.
LEMMA FilesStored ==
    ASSUME BlobTypes, NEW doc \in [Place -> Input], NEW id \in Nat, StoreFiles(doc, id)
    PROVE  /\ stored' \in Seq(Nat) /\ Len(stored') >= Len(stored)
           /\ \A b \in 1 .. Len(stored) : stored'[b] = stored[b]
           /\ \A b \in 1 .. Len(stored') : stored'[b] = id \/ (b \in 1 .. Len(stored))
           /\ \A b \in NewBlobs(doc) : b \in Nat /\ b \in 1 .. Len(stored') /\ stored'[b] = id
           /\ files' = files \cup NewBlobs(doc)
<1> DEFINE n == Cardinality(Large(doc))
           added == [i \in 1 .. n |-> id]
           upTo(p) == {q \in Large(doc) : q <= p}
<1>0. Large(doc) \in SUBSET (1 .. Places) /\ Places \in Nat
  BY LargeIsElse DEF Large, Place
<1>1. n \in Nat /\ IsFiniteSet(Large(doc))
  <2>1. 1 \in Int /\ Places \in Int /\ Large(doc) \in SUBSET Large(doc)
    BY <1>0
  <2> QED
    BY <1>0, <2>1, Within, Zenon
<1>2. /\ stored \in Seq(Nat) /\ added \in Seq(Nat) /\ Len(added) = n /\ stored' = stored \o added
      /\ Len(stored) \in Nat
  BY <1>1 DEF StoreFiles, BlobTypes
<1>3. /\ stored' \in Seq(Nat) /\ Len(stored') = Len(stored) + n
      /\ \A b \in 1 .. Len(stored) : stored'[b] = stored[b]
      /\ \A i \in 1 .. n : stored'[Len(stored) + i] = id
  BY <1>1, <1>2
<1>4. ASSUME NEW b \in NewBlobs(doc) PROVE \E i \in 1 .. n : b = Len(stored) + i
  <2>1. PICK p \in Large(doc) : b = FileFor(doc, p)
    BY DEF NewBlobs
  <2>2. Cardinality(upTo(p)) \in Nat /\ Cardinality(upTo(p)) <= n /\ IsFiniteSet(upTo(p))
    <3>1. upTo(p) \in SUBSET Large(doc)
      OBVIOUS
    <3> QED
      BY <1>1, <3>1, FS_Subset, FS_CardinalityType
  <2>3. p \in upTo(p)
    BY <1>0, <2>1
  <2>4. Cardinality(upTo(p)) # 0
    BY <2>2, <2>3, FS_EmptySet
  <2>5. b = Len(stored) + Cardinality(upTo(p))
    BY <2>1 DEF FileFor
  <2>6. ASSUME NEW k \in Nat, k <= n, k # 0, b = Len(stored) + k
        PROVE  \E i \in 1 .. n : b = Len(stored) + i
    BY <1>1, <2>6
  <2> QED
    BY <2>2, <2>4, <2>5, <2>6
<1>5. \A b \in NewBlobs(doc) : b \in Nat /\ b \in 1 .. Len(stored') /\ stored'[b] = id
  BY <1>1, <1>2, <1>3, <1>4
<1>6. ASSUME NEW b \in 1 .. Len(stored'), b \notin 1 .. Len(stored) PROVE stored'[b] = id
  <2>1. b - Len(stored) \in 1 .. n /\ b = Len(stored) + (b - Len(stored))
    BY <1>1, <1>2, <1>3, <1>6
  <2> QED
    BY <1>3, <2>1
<1> QED
  BY <1>1, <1>2, <1>3, <1>5, <1>6 DEF StoreFiles

LEMMA DocumentExternalized ==
    ASSUME BlobTypes, NEW doc \in [Place -> Input], NEW id \in Nat, StoreFiles(doc, id)
    PROVE  /\ Externalized(doc) \in [Place -> {Nothing} \cup Nat]
           /\ NewBlobs(doc) \subseteq References(Externalized(doc))
           /\ References(doc) \subseteq {LargeContent}
                 => References(Externalized(doc)) \subseteq NewBlobs(doc)
<1> DEFINE new == Externalized(doc)
<1>1. \A p \in Large(doc) : p \in Place /\ new[p] = FileFor(doc, p) /\ FileFor(doc, p) \in NewBlobs(doc)
  BY DEF Externalized, Large, NewBlobs
<1>2. \A p \in Place \ Large(doc) : new[p] = doc[p] /\ doc[p] \in {Nothing} \cup 1 .. Len(stored)
  BY DEF Externalized, Large, Input, BlobTypes
<1>3. new \in [Place -> {Nothing} \cup Nat]
  <2>1. new = [p \in Place |-> new[p]]
    BY DEF Externalized
  <2>2. \A p \in Place : new[p] \in {Nothing} \cup Nat
    BY <1>1, <1>2, FilesStored
  <2> QED
    BY <2>1, <2>2
<1>4. ASSUME NEW b \in NewBlobs(doc) PROVE b \in References(new)
  <2>1. PICK p \in Large(doc) : b = FileFor(doc, p)
    BY DEF NewBlobs
  <2>2. b \in Nat
    BY FilesStored
  <2> QED
    BY <1>1, <2>1, <2>2, LargeIsElse DEF References
<1>5. ASSUME References(doc) \subseteq {LargeContent}, NEW b \in References(new)
      PROVE  b \in NewBlobs(doc)
  <2>1. PICK p \in Place : b = new[p] /\ b # Nothing
    BY DEF References
  <2>2. CASE p \in Large(doc)
    BY <1>1, <2>1, <2>2
  <2>3. CASE p \notin Large(doc)
    BY <1>2, <1>5, <2>1, <2>3 DEF References, Large
  <2> QED
    BY <2>2, <2>3
<1> QED
  BY <1>3, <1>4, <1>5

LEMMA WriteType ==
    ASSUME BlobTypes, NEW h \in Handler, write[h] # Nothing PROVE write[h] \in BlobWrite
BY DEF BlobTypes

\* A Submodel whose row, assets and files a step leaves alone.
LEMMA StaysAlone ==
    ASSUME BlobInv, NEW t \in Owner, Alone(t),
           row'[t] = row[t],
           \A g \in Handler : On(g, t)' <=> On(g, t),
           \A g \in Handler : On(g, t) => write'[g] = write[g],
           \A id \in IdsOf(t) : AssetsOf(id)' = AssetsOf(id),
           \A b \in files : \A id \in IdsOf(t) : StoredFor(b, id) => b \in files'
    PROVE  Alone(t)'
<1>1. Busy(t)' <=> Busy(t)
  BY DEF Busy, On
<1>2. ASSUME row[t] # Nothing, References(row[t].doc) \subseteq files \cup BlobsOf({})
      PROVE  References(row'[t].doc) \subseteq files'
  <2>1. row[t].id \in IdsOf(t)
    BY <1>2 DEF IdsOf
  <2> QED
    BY <1>2, <2>1 DEF BlobInv, RowsOwn, BlobsOf
<1>3. ASSUME row[t] # Nothing, Whole(t) PROVE Whole(t)'
  <2>1. row[t].id \in IdsOf(t)
    BY <1>3 DEF IdsOf
  <2>2. AssetsOf(row[t].id)' = AssetsOf(row[t].id)
    BY <2>1
  <2> QED
    BY <1>2, <1>3, <2>2 DEF Whole, BlobsOf, AssetsFor, Asset
<1>4. ASSUME NEW g \in Handler, On(g, t) PROVE Prepared(t, write[g])'
  <2> PICK w : w = write[g]
    OBVIOUS
  <2>1. w.id \in IdsOf(t) /\ w # Nothing /\ Owns(w) /\ Prepared(t, w) /\ write'[g] = w
    BY <1>4 DEF IdsOf, On, BlobInv, WritesOwn, Alone
  <2>2. AssetsOf(w.id)' = AssetsOf(w.id)
    BY <2>1
  <2>3. w.new \subseteq files'
    BY <2>1 DEF Owns, Prepared
  <2>4. ASSUME row[t] # Nothing, NEW b \in References(row[t].doc), b \in files PROVE b \in files'
    <3>1. row[t].id \in IdsOf(t)
      BY <2>4 DEF IdsOf
    <3> QED
      BY <2>4, <3>1 DEF BlobInv, RowsOwn
  <2>5. Unreferenced(w)' = Unreferenced(w)
    BY <2>2 DEF Unreferenced
  <2>6. w.pc = "create" =>
           /\ AssetsOf(w.id)' = {}
           /\ row'[t] # Nothing => Whole(t)' /\ row'[t].id # w.id
    BY <1>3, <2>1, <2>2 DEF Prepared
  <2>7. w.pc # "create" =>
           /\ row'[t] # Nothing /\ row'[t].id = w.id
           /\ AssetsOf(w.id)' = AssetsFor(row'[t].doc, w.id)
           /\ References(row'[t].doc) \subseteq files' \cup BlobsOf(w.gone)
    BY <2>1, <2>2, <2>4 DEF Prepared
  <2>8. w.pc \in {"update", "delete", "updating", "deleting"} =>
           References(row'[t].doc) \subseteq files'
    BY <2>1, <2>4, <2>7 DEF Prepared
  <2>9. w.pc \in {"updating", "updated"} =>
           /\ References(w.doc) \ w.new \subseteq BlobsOf(AssetsOf(w.id)')
           /\ w.gone = Unreferenced(w)'
           /\ w.moved = {a \in AssetsOf(w.id)' \ w.gone : PathOf(w.doc, a.blob) # a.path}
    BY <2>1, <2>2, <2>5 DEF Prepared
  <2> QED
    BY <2>1, <2>3, <2>6, <2>7, <2>8, <2>9 DEF Prepared
<1> QED
  BY <1>1, <1>3, <1>4 DEF Alone

\* What a step of one handler, on one Submodel, has to show.
LEMMA BlobWriteStep ==
    ASSUME BlobInv, NEW h \in Handler, NEW s \in Owner, NEW x \in {Nothing} \cup BlobWrite,
           write' = [write EXCEPT ![h] = x], x = Nothing \/ x.submodel = s,
           write[h] = Nothing \/ On(h, s),
           row' \in [Owner -> {Nothing} \cup DocumentRow],
           \A t \in Owner \ {s} : row'[t] = row[t],
           row'[s] # Nothing => /\ row'[s].id \in IdsOf(s)
                                /\ \A b \in References(row'[s].doc) :
                                      b \in 1 .. Len(stored') /\ stored'[b] = row'[s].id,
           rowsMade' \in {rowsMade, rowsMade + 1},
           x # Nothing => /\ Owns(x)'
                          /\ \/ x.id \in IdsOf(s)
                             \/ x.id = rowsMade + 1 /\ rowsMade' = rowsMade + 1,
           stored' \in Seq(Nat), \A b \in 1 .. Len(stored') : stored'[b] <= rowsMade',
           \A b, id : StoredFor(b, id) => StoredFor(b, id)',
           assets' \subseteq AssetRow, \A a \in assets' : StoredFor(a.blob, a.owner)',
           \A a \in AssetRow : a.owner \notin IdsOf(s) => (a \in assets' <=> a \in assets),
           \A b \in files : b \notin files' => \E id \in IdsOf(s) : StoredFor(b, id),
           torn \subseteq torn', s \notin torn' => Alone(s)'
    PROVE  BlobInv'
<1>1. /\ write \in [Handler -> {Nothing} \cup BlobWrite] /\ rowsMade \in Nat
      /\ assets \subseteq AssetRow
      /\ row \in [Owner -> {Nothing} \cup DocumentRow]
  BY DEF BlobInv, BlobTypes
<1>2. write'[h] = x /\ \A g \in Handler \ {h} : write'[g] = write[g]
  BY <1>1
<1>3. BlobTypes'
  BY <1>1 DEF BlobTypes
<1>4. \A t \in Owner \ {s} : IdsOf(t) \cap IdsOf(s) = {}
  BY DEF BlobInv, IdsApart
<1>5. ASSUME NEW t \in Owner \ {s}, NEW g \in Handler
      PROVE  (On(g, t)' <=> On(g, t)) /\ (On(g, t) => write'[g] = write[g])
  <2>1. CASE g = h
    BY <1>2, <2>1 DEF On
  <2>2. CASE g # h
    BY <1>2, <2>2 DEF On
  <2> QED
    BY <2>1, <2>2
<1>6. \A t \in Owner \ {s} : IdsOf(t)' = IdsOf(t)
  BY <1>5 DEF IdsOf
<1>7. ASSUME NEW id \in IdsOf(s)'
      PROVE  id \in IdsOf(s) \/ (id = rowsMade + 1 /\ rowsMade' = rowsMade + 1)
  <2>1. CASE row'[s] # Nothing /\ id = row'[s].id
    BY <2>1
  <2>2. ASSUME NEW g \in Handler, On(g, s)', id = write'[g].id
        PROVE  id \in IdsOf(s) \/ (id = rowsMade + 1 /\ rowsMade' = rowsMade + 1)
    <3>1. CASE g = h
      BY <1>2, <2>2, <3>1 DEF On
    <3>2. CASE g # h
      BY <1>2, <2>2, <3>2 DEF On, IdsOf
    <3> QED
      BY <3>1, <3>2
  <2> QED
    BY <2>1, <2>2 DEF IdsOf
<1>8. IdsApart'
  <2>1. \A t \in Owner : \A id \in IdsOf(t) : id <= rowsMade
    BY DEF BlobInv, IdsApart
  <2>2. \A t \in Owner : \A id \in IdsOf(t) : id \in Nat
    BY <1>1 DEF IdsOf, On, DocumentRow, BlobWrite
  <2>3. \A t \in Owner : \A id \in IdsOf(t)' : id <= rowsMade'
    <3>1. ASSUME NEW t \in Owner, NEW id \in IdsOf(t)' PROVE id <= rowsMade'
      <4>1. (id \in Nat /\ id <= rowsMade) \/ (id = rowsMade + 1 /\ rowsMade' = rowsMade + 1)
        <5>1. CASE t = s
          BY <1>7, <2>1, <2>2, <3>1, <5>1
        <5>2. CASE t # s
          BY <1>6, <2>1, <2>2, <3>1, <5>2
        <5> QED
          BY <5>1, <5>2
      <4> QED
        BY <1>1, <4>1
    <3> QED
      BY <3>1
  <2>4. \A t \in Owner \ {s} : IdsOf(t)' \cap IdsOf(s)' = {}
    <3>1. ASSUME NEW t \in Owner \ {s}, NEW id \in IdsOf(t)', id \in IdsOf(s)' PROVE FALSE
      <4>1. id \in IdsOf(t) /\ id <= rowsMade /\ id \in Nat
        BY <1>6, <2>1, <2>2, <3>1
      <4> QED
        BY <1>1, <1>4, <1>7, <3>1, <4>1
    <3> QED
      BY <3>1
  <2>5. \A t, u \in Owner \ {s} : t # u => IdsOf(t)' \cap IdsOf(u)' = {}
    BY <1>6 DEF BlobInv, IdsApart
  <2> QED
    BY <2>3, <2>4, <2>5 DEF IdsApart
<1>9. AssetsOwned'
  BY DEF AssetsOwned
<1>10. RowsOwn'
  <2>1. ASSUME NEW t \in Owner \ {s}, row'[t] # Nothing, NEW b \in References(row'[t].doc)
        PROVE  b \in 1 .. Len(stored') /\ stored'[b] = row'[t].id
    <3> PICK id : id = row[t].id
      OBVIOUS
    <3>1. StoredFor(b, id)
      BY <2>1 DEF BlobInv, RowsOwn
    <3>2. StoredFor(b, id)'
      BY <3>1
    <3> QED
      BY <2>1, <3>2 DEF StoredFor
  <2>2. ASSUME NEW t \in Owner, row'[t] # Nothing, NEW b \in References(row'[t].doc)
        PROVE  b \in 1 .. Len(stored') /\ stored'[b] = row'[t].id
    BY <2>1, <2>2
  <2> QED
    BY <2>2 DEF RowsOwn, StoredFor
<1>11. WritesOwn'
  <2>1. ASSUME NEW g \in Handler \ {h}, write[g] # Nothing PROVE Owns(write[g])'
    <3> PICK w : w = write[g]
      OBVIOUS
    <3>1. Owns(w) /\ write'[g] = w
      BY <1>2, <2>1 DEF BlobInv, WritesOwn
    <3> QED
      BY <3>1 DEF Owns
  <2> QED
    BY <1>2, <2>1 DEF WritesOwn
<1>12. ASSUME NEW t \in Owner \ torn', t # s PROVE Alone(t)'
  <2>1. Alone(t)
    BY <1>12 DEF BlobInv
  <2>2. ASSUME NEW id \in IdsOf(t) PROVE AssetsOf(id)' = AssetsOf(id)
    <3>1. id \notin IdsOf(s)
      BY <1>4, <1>12, <2>2
    <3> QED
      BY <1>1, <3>1 DEF AssetsOf
  <2>3. ASSUME NEW b \in files, NEW id \in IdsOf(t), StoredFor(b, id) PROVE b \in files'
    <3>1. ASSUME b \notin files' PROVE FALSE
      <4>1. PICK i \in IdsOf(s) : StoredFor(b, i)
        BY <2>3, <3>1
      <4> QED
        BY <1>4, <1>12, <2>3, <4>1 DEF StoredFor
    <3> QED
      BY <3>1
  <2> QED
    BY <1>5, <1>12, <2>1, <2>2, <2>3, StaysAlone
<1> QED
  BY <1>3, <1>8, <1>9, <1>10, <1>11, <1>12 DEF BlobInv

\* A Submodel with one handler on it at most.
LEMMA OneWriter ==
    ASSUME BlobTypes, NEW h \in Handler, NEW s \in Owner, NEW x \in {Nothing} \cup BlobWrite,
           write' = [write EXCEPT ![h] = x], x = Nothing \/ x.submodel = s,
           \A g \in Handler \ {h} : ~On(g, s),
           x = Nothing /\ row'[s] # Nothing => Whole(s)',
           x # Nothing => Prepared(s, x)'
    PROVE  Alone(s)'
<1>1. write'[h] = x /\ \A g \in Handler \ {h} : write'[g] = write[g]
  BY DEF BlobTypes
<1>2. \A g \in Handler : On(g, s)' => g = h
  BY <1>1 DEF On
<1>3. x # Nothing => Busy(s)'
  BY <1>1 DEF Busy
<1> QED
  BY <1>1, <1>2, <1>3 DEF Alone, On

LEMMA TearTells ==
    ASSUME BlobInv, NEW s \in Owner, Tear(s)
    PROVE  /\ torn \subseteq torn'
           /\ s \notin torn' =>
                 /\ \A g \in Handler : ~On(g, s)
                 /\ row[s] # Nothing => Whole(s)
BY DEF BlobInv, Alone, Tear, Busy, On

LEMMA FilesAdded ==
    ASSUME NEW s \in Owner, Whole(s), row'[s] = row[s], assets' = assets, files \subseteq files'
    PROVE  Whole(s)'
BY DEF Whole, AssetsOf, AssetsFor, Asset

LEMMA RowsIds ==
    ASSUME BlobInv
    PROVE  /\ \A s \in Owner : row[s] # Nothing =>
                 /\ row[s] \in DocumentRow /\ row[s].id \in IdsOf(s) /\ row[s].id <= rowsMade
           /\ \A h \in Handler, s \in Owner : On(h, s) =>
                 /\ write[h] \in BlobWrite /\ write[h].id \in IdsOf(s) /\ write[h].id <= rowsMade
           /\ \A a \in assets : a.owner \in Nat /\ a.owner <= rowsMade
<1>1. \A s \in Owner : row[s] # Nothing => row[s] \in DocumentRow /\ row[s].id \in IdsOf(s)
  BY DEF BlobInv, BlobTypes, IdsOf
<1>2. \A h \in Handler, s \in Owner : On(h, s) => write[h] \in BlobWrite /\ write[h].id \in IdsOf(s)
  BY DEF BlobInv, BlobTypes, IdsOf, On
<1>3. \A s \in Owner : \A id \in IdsOf(s) : id <= rowsMade
  BY DEF BlobInv, IdsApart
<1>4. \A a \in assets : a.owner \in Nat /\ a.owner <= rowsMade
  <2>1. ASSUME NEW a \in assets PROVE a.owner \in Nat /\ a.owner <= rowsMade
    <3>1. a \in AssetRow /\ StoredFor(a.blob, a.owner)
      BY DEF BlobInv, BlobTypes, AssetsOwned
    <3>2. a.owner \in Nat /\ a.blob \in 1 .. Len(stored) /\ stored[a.blob] = a.owner
      BY <3>1 DEF AssetRow, StoredFor
    <3> QED
      BY <3>2 DEF BlobInv, BlobTypes
  <2> QED
    BY <2>1
<1> QED
  BY <1>1, <1>2, <1>3, <1>4

\* Files are stored for a row that is there, or for the next one.
LEMMA StoresFor ==
    ASSUME BlobInv, NEW doc \in [Place -> Input], NEW id \in Nat, StoreFiles(doc, id),
           rowsMade' \in Nat, rowsMade <= rowsMade', id <= rowsMade', assets' = assets
    PROVE  /\ stored' \in Seq(Nat) /\ \A b \in 1 .. Len(stored') : stored'[b] <= rowsMade'
           /\ \A b, i : StoredFor(b, i) => StoredFor(b, i)'
           /\ \A b \in NewBlobs(doc) : StoredFor(b, id)'
           /\ \A a \in assets' : StoredFor(a.blob, a.owner)'
           /\ files' = files \cup NewBlobs(doc)
           /\ NewBlobs(doc) \in SUBSET Nat
<1>1. /\ stored \in Seq(Nat) /\ rowsMade \in Nat /\ Len(stored) \in Nat
      /\ \A b \in 1 .. Len(stored) : stored[b] <= rowsMade
      /\ BlobTypes
  BY DEF BlobInv, BlobTypes
<1>2. /\ stored' \in Seq(Nat) /\ Len(stored') >= Len(stored) /\ Len(stored') \in Nat
      /\ \A b \in 1 .. Len(stored) : stored'[b] = stored[b]
      /\ \A b \in 1 .. Len(stored') : stored'[b] = id \/ (b \in 1 .. Len(stored))
      /\ \A b \in NewBlobs(doc) : b \in Nat /\ b \in 1 .. Len(stored') /\ stored'[b] = id
      /\ files' = files \cup NewBlobs(doc)
  BY <1>1, FilesStored
<1>3. \A b, i : StoredFor(b, i) => StoredFor(b, i)'
  BY <1>1, <1>2 DEF StoredFor
<1>4. \A b \in 1 .. Len(stored') : stored'[b] <= rowsMade'
  <2>1. ASSUME NEW b \in 1 .. Len(stored) PROVE stored'[b] <= rowsMade'
    <3>1. stored[b] \in Nat /\ stored[b] <= rowsMade /\ stored'[b] = stored[b]
      BY <1>1, <1>2
    <3> QED
      BY <1>1, <3>1
  <2> QED
    BY <1>2, <2>1
<1>5. \A a \in assets' : StoredFor(a.blob, a.owner)'
  BY <1>3 DEF BlobInv, AssetsOwned
<1> QED
  BY <1>2, <1>3, <1>4, <1>5 DEF StoredFor

LEMMA BeginCreateKeeps ==
    ASSUME BlobInv, NEW h \in Handler, NEW s \in Owner, NEW doc \in [Place -> Input],
           BeginCreate(h, s, doc)
    PROVE  BlobInv'
<1> PICK n : n = rowsMade + 1
  OBVIOUS
<1>1. /\ rowsMade \in Nat /\ n \in Nat /\ rowsMade' = n /\ n = rowsMade + 1 /\ StoreFiles(doc, n)
      /\ row' = row /\ assets' = assets /\ BlobTypes /\ write[h] = Nothing
      /\ row \in [Owner -> {Nothing} \cup DocumentRow] /\ assets \subseteq AssetRow
      /\ write \in [Handler -> {Nothing} \cup BlobWrite]
  BY DEF BeginCreate, BlobInv, BlobTypes
<1>2. /\ stored' \in Seq(Nat) /\ \A b \in 1 .. Len(stored') : stored'[b] <= rowsMade'
      /\ \A b, i : StoredFor(b, i) => StoredFor(b, i)'
      /\ \A b \in NewBlobs(doc) : StoredFor(b, n)'
      /\ \A a \in assets' : StoredFor(a.blob, a.owner)'
      /\ files' = files \cup NewBlobs(doc)
      /\ NewBlobs(doc) \in SUBSET Nat
  BY <1>1, StoresFor
<1>3. row'[s] # Nothing => /\ row'[s].id \in IdsOf(s)
                           /\ \A b \in References(row'[s].doc) :
                                 b \in 1 .. Len(stored') /\ stored'[b] = row'[s].id
  <2>1. ASSUME row[s] # Nothing, NEW b \in References(row[s].doc)
        PROVE  b \in 1 .. Len(stored') /\ stored'[b] = row[s].id
    <3> PICK i : i = row[s].id
      OBVIOUS
    <3>1. StoredFor(b, i)
      BY <2>1 DEF BlobInv, RowsOwn
    <3>2. StoredFor(b, i)'
      BY <1>2, <3>1
    <3> QED
      BY <3>2 DEF StoredFor
  <2> QED
    BY <1>1, <2>1, RowsIds
<1>4. CASE References(doc) \subseteq {LargeContent}
  <2> PICK x : x = [pc |-> "create", submodel |-> s, id |-> n, doc |-> Externalized(doc),
                    new |-> NewBlobs(doc), gone |-> {}, moved |-> {}]
    OBVIOUS
  <2>1. /\ Externalized(doc) \in [Place -> {Nothing} \cup Nat]
        /\ NewBlobs(doc) \subseteq References(Externalized(doc))
        /\ References(Externalized(doc)) \subseteq NewBlobs(doc)
    BY <1>1, <1>4, DocumentExternalized
  <2>2. /\ x \in BlobWrite /\ x.pc = "create" /\ x.submodel = s /\ x.id = n
        /\ x.doc = Externalized(doc) /\ x.new = NewBlobs(doc) /\ x.gone = {} /\ x.moved = {}
    BY <1>1, <1>2, <2>1 DEF BlobWrite, Place
  <2>3. write' = [write EXCEPT ![h] = x] /\ Tear(s)
    BY <1>1, <1>4 DEF BeginCreate
  <2>4. Owns(x)'
    BY <1>2, <2>1, <2>2 DEF Owns
  <2>5. ASSUME s \notin torn' PROVE Alone(s)'
    <3>1. /\ \A g \in Handler : ~On(g, s)
          /\ row[s] # Nothing => Whole(s)
      BY <2>3, <2>5, TearTells
    <3>2. AssetsOf(n)' = {}
      BY <1>1, RowsIds DEF AssetsOf
    <3>3. row[s] # Nothing => Whole(s)' /\ row[s].id # n
      <4>1. row[s] # Nothing => row[s].id <= rowsMade
        BY RowsIds
      <4> QED
        BY <1>1, <1>2, <3>1, <4>1, FilesAdded
    <3>4. Prepared(s, x)'
      BY <1>1, <1>2, <2>2, <3>2, <3>3 DEF Prepared
    <3>5. x # Nothing
      BY <2>2, LargeIsElse
    <3> QED
      BY <1>1, <2>2, <2>3, <3>1, <3>4, <3>5, OneWriter
  <2>6. torn \subseteq torn'
    BY <2>3, TearTells
  <2> QED
    BY <1>1, <1>2, <1>3, <2>2, <2>3, <2>4, <2>5, <2>6, BlobWriteStep
<1>5. CASE ~(References(doc) \subseteq {LargeContent})
  <2>1. write' = write /\ torn' = torn /\ write = [write EXCEPT ![h] = Nothing]
    BY <1>1, <1>5 DEF BeginCreate
  <2>2. ASSUME s \notin torn' PROVE Alone(s)'
    <3>1. Alone(s)
      BY <2>1, <2>2 DEF BlobInv
    <3>2. \A id \in IdsOf(s) : AssetsOf(id)' = AssetsOf(id)
      BY <1>1 DEF AssetsOf
    <3>3. \A g \in Handler : On(g, s)' <=> On(g, s)
      BY <2>1 DEF On
    <3> QED
      BY <1>1, <1>2, <2>1, <3>1, <3>2, <3>3, StaysAlone
  <2> QED
    BY <1>1, <1>2, <1>3, <2>1, <2>2, BlobWriteStep
<1> QED
  BY <1>4, <1>5

LEMMA BeginUpdateKeeps ==
    ASSUME BlobInv, NEW h \in Handler, NEW s \in Owner, NEW doc \in [Place -> Input],
           BeginUpdate(h, s, doc)
    PROVE  BlobInv'
<1> PICK n : n = row[s].id
  OBVIOUS
<1>1. /\ rowsMade \in Nat /\ rowsMade' = rowsMade /\ StoreFiles(doc, n)
      /\ row' = row /\ assets' = assets /\ BlobTypes /\ write[h] = Nothing
      /\ row \in [Owner -> {Nothing} \cup DocumentRow] /\ assets \subseteq AssetRow
      /\ write \in [Handler -> {Nothing} \cup BlobWrite] /\ row[s] # Nothing /\ Tear(s)
  BY DEF BeginUpdate, BlobInv, BlobTypes
<1>2. row[s] \in DocumentRow /\ n \in IdsOf(s) /\ n \in Nat /\ n <= rowsMade
  BY <1>1, RowsIds DEF DocumentRow
<1>3. /\ stored' \in Seq(Nat) /\ \A b \in 1 .. Len(stored') : stored'[b] <= rowsMade'
      /\ \A b, i : StoredFor(b, i) => StoredFor(b, i)'
      /\ \A b \in NewBlobs(doc) : StoredFor(b, n)'
      /\ \A a \in assets' : StoredFor(a.blob, a.owner)'
      /\ files' = files \cup NewBlobs(doc)
      /\ NewBlobs(doc) \in SUBSET Nat
  BY <1>1, <1>2, StoresFor
<1>4. \A b \in References(row'[s].doc) : b \in 1 .. Len(stored') /\ stored'[b] = row'[s].id
  <2>1. ASSUME NEW b \in References(row[s].doc)
        PROVE  b \in 1 .. Len(stored') /\ stored'[b] = n
    <3>1. StoredFor(b, n)
      BY <1>1, <2>1 DEF BlobInv, RowsOwn
    <3>2. StoredFor(b, n)'
      BY <1>3, <3>1
    <3> QED
      BY <3>2 DEF StoredFor
  <2> QED
    BY <1>1, <2>1
<1> PICK x : x = [pc |-> "update", submodel |-> s, id |-> n, doc |-> Externalized(doc),
                  new |-> NewBlobs(doc), gone |-> {}, moved |-> {}]
  OBVIOUS
<1>5. /\ Externalized(doc) \in [Place -> {Nothing} \cup Nat]
      /\ NewBlobs(doc) \subseteq References(Externalized(doc))
  BY <1>1, <1>2, DocumentExternalized
<1>6. /\ x \in BlobWrite /\ x.pc = "update" /\ x.submodel = s /\ x.id = n
      /\ x.doc = Externalized(doc) /\ x.new = NewBlobs(doc) /\ x.gone = {} /\ x.moved = {}
  BY <1>2, <1>3, <1>5 DEF BlobWrite, Place
<1>7. write' = [write EXCEPT ![h] = x]
  BY DEF BeginUpdate
<1>8. Owns(x)'
  BY <1>3, <1>5, <1>6 DEF Owns
<1>9. ASSUME s \notin torn' PROVE Alone(s)'
  <2>1. (\A g \in Handler : ~On(g, s)) /\ Whole(s)
    BY <1>1, <1>9, TearTells
  <2>2. Whole(s)'
    BY <1>1, <1>3, <2>1, FilesAdded
  <2>3. Prepared(s, x)'
    BY <1>1, <1>3, <1>6, <2>2 DEF Prepared, Whole
  <2>4. x # Nothing
    BY <1>6, LargeIsElse
  <2> QED
    BY <1>1, <1>6, <1>7, <2>1, <2>3, <2>4, OneWriter
<1>10. torn \subseteq torn'
  BY <1>1, TearTells
<1> QED
  BY <1>1, <1>2, <1>3, <1>4, <1>6, <1>7, <1>8, <1>9, <1>10, BlobWriteStep

LEMMA BeginDeleteKeeps ==
    ASSUME BlobInv, NEW h \in Handler, NEW s \in Owner, BeginDelete(h, s) PROVE BlobInv'
<1> PICK n : n = row[s].id
  OBVIOUS
<1>1. /\ rowsMade \in Nat /\ rowsMade' = rowsMade /\ stored' = stored /\ files' = files
      /\ row' = row /\ assets' = assets /\ BlobTypes /\ write[h] = Nothing
      /\ row \in [Owner -> {Nothing} \cup DocumentRow] /\ assets \subseteq AssetRow
      /\ write \in [Handler -> {Nothing} \cup BlobWrite] /\ row[s] # Nothing /\ Tear(s)
      /\ stored \in Seq(Nat) /\ \A b \in 1 .. Len(stored) : stored[b] <= rowsMade
  BY DEF BeginDelete, BlobInv, BlobTypes
<1>2. row[s] \in DocumentRow /\ n \in IdsOf(s) /\ n \in Nat /\ n <= rowsMade
  BY <1>1, RowsIds DEF DocumentRow
<1>3. /\ \A b, i : StoredFor(b, i)' <=> StoredFor(b, i)
      /\ \A a \in assets' : StoredFor(a.blob, a.owner)'
  BY <1>1 DEF StoredFor, BlobInv, AssetsOwned
<1>4. \A b \in References(row'[s].doc) : b \in 1 .. Len(stored') /\ stored'[b] = row'[s].id
  BY <1>1 DEF BlobInv, RowsOwn, StoredFor
<1> PICK x : x = [pc |-> "delete", submodel |-> s, id |-> n, doc |-> [p \in Place |-> Nothing],
                  new |-> {}, gone |-> {}, moved |-> {}]
  OBVIOUS
<1>5. /\ x \in BlobWrite /\ x.pc = "delete" /\ x.submodel = s /\ x.id = n
      /\ x.new = {} /\ x.gone = {} /\ x.moved = {}
  BY <1>2 DEF BlobWrite, Place
<1>6. write' = [write EXCEPT ![h] = x]
  BY DEF BeginDelete
<1>7. Owns(x)'
  BY <1>5 DEF Owns
<1>8. ASSUME s \notin torn' PROVE Alone(s)'
  <2>1. (\A g \in Handler : ~On(g, s)) /\ Whole(s)
    BY <1>1, <1>8, TearTells
  <2>2. Whole(s)'
    BY <1>1, <2>1, FilesAdded
  <2>3. Prepared(s, x)'
    BY <1>1, <1>5, <2>2 DEF Prepared, Whole
  <2>4. x # Nothing
    BY <1>5, LargeIsElse
  <2> QED
    BY <1>1, <1>5, <1>6, <2>1, <2>3, <2>4, OneWriter
<1>9. torn \subseteq torn'
  BY <1>1, TearTells
<1> QED
  BY <1>1, <1>2, <1>3, <1>4, <1>5, <1>6, <1>7, <1>8, <1>9, BlobWriteStep

\* A step of a write that has begun.
LEMMA WorkStep ==
    ASSUME BlobInv, NEW h \in Handler, NEW w, w = write[h], w # Nothing, NEW s, s = w.submodel,
           NEW x \in {Nothing} \cup BlobWrite, write' = [write EXCEPT ![h] = x],
           x # Nothing => x.submodel = s /\ x.id = w.id /\ Owns(x),
           stored' = stored, rowsMade' = rowsMade, torn \subseteq torn',
           row' \in [Owner -> {Nothing} \cup DocumentRow],
           \A t \in Owner \ {s} : row'[t] = row[t],
           row'[s] # Nothing => /\ row'[s].id \in IdsOf(s)
                                /\ \A b \in References(row'[s].doc) : StoredFor(b, row'[s].id),
           assets' \subseteq AssetRow, \A a \in assets' : StoredFor(a.blob, a.owner),
           \A a \in AssetRow : a.owner # w.id => (a \in assets' <=> a \in assets),
           \A b \in files : b \notin files' => StoredFor(b, w.id),
           s \notin torn' /\ Alone(s) /\ Prepared(s, w) =>
              /\ x = Nothing /\ row'[s] # Nothing => Whole(s)'
              /\ x # Nothing => Prepared(s, x)'
    PROVE  BlobInv'
<1>1. /\ BlobTypes /\ w \in BlobWrite /\ s \in Owner /\ On(h, s) /\ w.id \in IdsOf(s)
      /\ stored \in Seq(Nat) /\ \A b \in 1 .. Len(stored) : stored[b] <= rowsMade
  BY WriteType DEF BlobInv, BlobTypes, BlobWrite, On, IdsOf
<1>2. \A b, i : StoredFor(b, i)' <=> StoredFor(b, i)
  BY DEF StoredFor
<1>3. x # Nothing => Owns(x)'
  BY <1>2 DEF Owns
<1>4. ASSUME s \notin torn' PROVE Alone(s)'
  <2>1. Alone(s)
    BY <1>1, <1>4 DEF BlobInv
  <2>2. Prepared(s, w) /\ \A g \in Handler \ {h} : ~On(g, s)
    BY <1>1, <2>1 DEF Alone
  <2> QED
    BY <1>1, <1>4, <2>1, <2>2, OneWriter
<1>5. row'[s] # Nothing => /\ row'[s].id \in IdsOf(s)
                           /\ \A b \in References(row'[s].doc) :
                                 b \in 1 .. Len(stored') /\ stored'[b] = row'[s].id
  BY DEF StoredFor
<1>6. /\ x = Nothing \/ x.submodel = s
      /\ x # Nothing => x.id \in IdsOf(s)
  BY <1>1
<1>7. \A a \in assets' : StoredFor(a.blob, a.owner)'
  BY <1>2
<1>8. \A a \in AssetRow : a.owner \notin IdsOf(s) => (a \in assets' <=> a \in assets)
  BY <1>1
<1> QED
  BY <1>1, <1>2, <1>3, <1>4, <1>5, <1>6, <1>7, <1>8, BlobWriteStep

\* What such a step finds.
LEMMA AtWork ==
    ASSUME BlobInv, NEW h \in Handler, NEW w, w = write[h], w # Nothing, NEW s, s = w.submodel
    PROVE  /\ w \in BlobWrite /\ Owns(w) /\ s \in Owner /\ w.id \in IdsOf(s)
           /\ row \in [Owner -> {Nothing} \cup DocumentRow] /\ assets \subseteq AssetRow
           /\ write \in [Handler -> {Nothing} \cup BlobWrite]
           /\ \A a \in assets : StoredFor(a.blob, a.owner)
           /\ row[s] # Nothing => /\ row[s].id \in IdsOf(s)
                                  /\ \A b \in References(row[s].doc) : StoredFor(b, row[s].id)
BY DEF BlobInv, BlobTypes, BlobWrite, WritesOwn, AssetsOwned, RowsOwn, IdsOf, On

LEMMA RefusedKeeps ==
    ASSUME BlobInv, NEW h \in Handler, Refused(h) \/ RolledBack(h) PROVE BlobInv'
<1> PICK w, s : w = write[h] /\ s = w.submodel
  OBVIOUS
<1>1. /\ w # Nothing /\ row' = row /\ assets' = assets /\ files' = files /\ stored' = stored
      /\ rowsMade' = rowsMade /\ torn \subseteq torn' /\ write' = [write EXCEPT ![h] = Nothing]
      /\ w.pc \in {"updated", "deleted"} /\ s \notin torn' => w.gone = {}
  BY DEF Refused, RolledBack
<1>2. /\ w \in BlobWrite /\ s \in Owner /\ row \in [Owner -> {Nothing} \cup DocumentRow]
      /\ assets \subseteq AssetRow /\ \A a \in assets : StoredFor(a.blob, a.owner)
      /\ row[s] # Nothing => /\ row[s].id \in IdsOf(s)
                             /\ \A b \in References(row[s].doc) : StoredFor(b, row[s].id)
  BY <1>1, AtWork
<1>3. ASSUME s \notin torn', Prepared(s, w), row[s] # Nothing PROVE Whole(s)'
  <2>1. Whole(s)
    <3>1. CASE w.pc = "create"
      BY <1>3, <3>1 DEF Prepared
    <3>2. CASE w.pc \in {"update", "delete", "updating", "deleting"}
      BY <1>3, <3>2 DEF Prepared, Whole
    <3>3. CASE w.pc \in {"updated", "deleted"}
      <4>1. BlobsOf(w.gone) = {}
        BY <1>1, <1>3, <3>3 DEF BlobsOf
      <4>2. /\ row[s].id = w.id /\ AssetsOf(w.id) = AssetsFor(row[s].doc, w.id)
            /\ References(row[s].doc) \subseteq files \cup BlobsOf(w.gone)
        BY <1>3, <3>3 DEF Prepared
      <4> QED
        BY <4>1, <4>2 DEF Whole
    <3> QED
      BY <1>2, <3>1, <3>2, <3>3 DEF BlobWrite
  <2> QED
    BY <1>1, <1>2, <2>1, FilesAdded
<1> QED
  BY <1>1, <1>2, <1>3, WorkStep

LEMMA CommitNewRowKeeps ==
    ASSUME BlobInv, NEW h \in Handler, CommitNewRow(h) PROVE BlobInv'
<1> PICK w, s : w = write[h] /\ s = w.submodel
  OBVIOUS
<1>1. /\ w # Nothing /\ w.pc = "create" /\ row[s] = Nothing /\ files' = files /\ stored' = stored
      /\ rowsMade' = rowsMade /\ torn' = torn /\ write' = [write EXCEPT ![h] = Nothing]
      /\ row' = [row EXCEPT ![s] = [id |-> w.id, doc |-> w.doc]]
      /\ assets' = assets \cup {Asset(w.doc, w.id, b) : b \in w.new}
  BY DEF CommitNewRow
<1>2. /\ w \in BlobWrite /\ s \in Owner /\ row \in [Owner -> {Nothing} \cup DocumentRow]
      /\ assets \subseteq AssetRow /\ \A a \in assets : StoredFor(a.blob, a.owner)
      /\ w.id \in IdsOf(s) /\ Owns(w)
  BY <1>1, AtWork
<1>3. /\ w.doc \in [Place -> {Nothing} \cup Nat] /\ w.id \in Nat /\ w.new \in SUBSET Nat
  BY <1>2 DEF BlobWrite, Place
<1>4. /\ row'[s].id = w.id /\ row'[s].doc = w.doc /\ \A t \in Owner \ {s} : row'[t] = row[t]
      /\ row' \in [Owner -> {Nothing} \cup DocumentRow]
  BY <1>1, <1>2, <1>3 DEF DocumentRow
<1>5. References(w.doc) = w.new /\ \A b \in w.new : StoredFor(b, w.id)
  BY <1>1, <1>2 DEF Owns
<1>6. ASSUME NEW b \in w.new
      PROVE  /\ Asset(w.doc, w.id, b) \in AssetRow
             /\ Asset(w.doc, w.id, b).blob = b /\ Asset(w.doc, w.id, b).owner = w.id
  BY <1>3, <1>5, PathInside DEF Asset, AssetRow, Place
<1>7. /\ assets' \subseteq AssetRow /\ \A a \in assets' : StoredFor(a.blob, a.owner)
      /\ \A a \in AssetRow : a.owner # w.id => (a \in assets' <=> a \in assets)
  BY <1>1, <1>2, <1>5, <1>6
<1>8. ASSUME Prepared(s, w) PROVE Whole(s)'
  <2>1. w.new \subseteq files' /\ AssetsOf(w.id) = {}
    BY <1>1, <1>8 DEF Prepared
  <2>2. AssetsOf(w.id)' = {Asset(w.doc, w.id, b) : b \in w.new}
    BY <1>1, <1>6, <2>1 DEF AssetsOf
  <2>3. AssetsFor(w.doc, w.id) = {Asset(w.doc, w.id, b) : b \in w.new}
    BY <1>5 DEF AssetsFor
  <2> QED
    BY <1>4, <1>5, <2>1, <2>2, <2>3 DEF Whole
<1>9. row'[s].id \in IdsOf(s) /\ \A b \in References(row'[s].doc) : StoredFor(b, row'[s].id)
  BY <1>2, <1>4, <1>5
<1> QED
  BY <1>1, <1>2, <1>4, <1>7, <1>8, <1>9, WorkStep, ZenonT(60)

LEMMA LoadAssetsKeeps ==
    ASSUME BlobInv, NEW h \in Handler, LoadAssets(h) PROVE BlobInv'
<1> PICK w, s : w = write[h] /\ s = w.submodel
  OBVIOUS
<1> PICK gone : gone = Unreferenced(w)
  OBVIOUS
<1> PICK moved : moved = {a \in AssetsOf(w.id) \ gone : PathOf(w.doc, a.blob) # a.path}
  OBVIOUS
<1> PICK pc : pc = IF w.pc = "update" THEN "updating" ELSE "deleting"
  OBVIOUS
<1> PICK x : x = [w EXCEPT !.pc = pc, !.gone = gone, !.moved = moved]
  OBVIOUS
<1>1. /\ w # Nothing /\ w.pc \in {"update", "delete"} /\ Known(w) /\ row' = row
      /\ files' = files /\ stored' = stored /\ assets' = assets
      /\ rowsMade' = rowsMade /\ torn' = torn
  BY DEF LoadAssets
<1>2. /\ w \in BlobWrite /\ s \in Owner /\ row \in [Owner -> {Nothing} \cup DocumentRow]
      /\ assets \subseteq AssetRow /\ \A a \in assets : StoredFor(a.blob, a.owner)
      /\ w.id \in IdsOf(s) /\ Owns(w)
      /\ row[s] # Nothing => /\ row[s].id \in IdsOf(s)
                             /\ \A b \in References(row[s].doc) : StoredFor(b, row[s].id)
  BY <1>1, AtWork
<1>3. write' = [write EXCEPT ![h] = x]
  <2>1. x = [w EXCEPT !.pc = IF @ = "update" THEN "updating" ELSE "deleting",
                      !.gone = gone, !.moved = moved]
    BY <1>2 DEF BlobWrite
  <2> QED
    BY <2>1 DEF LoadAssets
<1>4. /\ gone \subseteq AssetsOf(w.id) /\ moved \subseteq AssetsOf(w.id)
      /\ \A a \in AssetsOf(w.id) : a \in AssetRow /\ StoredFor(a.blob, w.id) /\ a.owner = w.id
      /\ \A a \in moved : a.blob \in References(w.doc)
  BY <1>2 DEF AssetsOf, Unreferenced
<1>5. /\ x \in BlobWrite /\ x.submodel = s /\ x.id = w.id /\ x.doc = w.doc /\ x.new = w.new
      /\ x.pc = pc /\ x.gone = gone /\ x.moved = moved /\ pc \in {"updating", "deleting"}
      /\ pc = "updating" <=> w.pc = "update"
  BY <1>1, <1>2, <1>4, ZenonT(60) DEF BlobWrite
<1>6. ASSUME NEW b \in References(w.doc) PROVE StoredFor(b, w.id)
  <2>1. CASE b \in w.new
    BY <1>2, <2>1 DEF Owns
  <2>2. CASE b \notin w.new
    BY <1>1, <1>4, <1>6, <2>2 DEF Known
  <2> QED
    BY <2>1, <2>2
<1>7. Owns(x)
  BY <1>1, <1>2, <1>4, <1>5, <1>6 DEF Owns
<1>8. ASSUME Prepared(s, w) PROVE Prepared(s, x)'
  <2>1. /\ w.new \subseteq files /\ row[s] # Nothing /\ row[s].id = w.id
        /\ AssetsOf(w.id) = AssetsFor(row[s].doc, w.id) /\ References(row[s].doc) \subseteq files
    BY <1>1, <1>8 DEF Prepared
  <2>2. /\ AssetsOf(x.id)' = AssetsOf(w.id) /\ Unreferenced(x)' = gone
        /\ AssetsFor(row'[s].doc, x.id) = AssetsFor(row[s].doc, w.id)
    BY <1>1, <1>5 DEF AssetsOf, Unreferenced, AssetsFor, Asset
  <2>3. References(w.doc) \ w.new \subseteq BlobsOf(AssetsOf(w.id))
    BY <1>1 DEF Known, BlobsOf
  <2> QED
    BY <1>1, <1>5, <2>1, <2>2, <2>3 DEF Prepared
<1>9. /\ row'[s] # Nothing => /\ row'[s].id \in IdsOf(s)
                               /\ \A b \in References(row'[s].doc) : StoredFor(b, row'[s].id)
      /\ x # Nothing /\ torn \subseteq torn' /\ \A t \in Owner \ {s} : row'[t] = row[t]
      /\ row' \in [Owner -> {Nothing} \cup DocumentRow]
  BY <1>1, <1>2, <1>5, LargeIsElse
<1>10. /\ assets' \subseteq AssetRow /\ \A a \in assets' : StoredFor(a.blob, a.owner)
       /\ \A a \in AssetRow : a.owner # w.id => (a \in assets' <=> a \in assets)
       /\ \A b \in files : b \notin files' => StoredFor(b, w.id)
  BY <1>1, <1>2
<1>11. /\ BlobInv /\ w = write[h] /\ s = w.submodel /\ w # Nothing /\ stored' = stored
       /\ rowsMade' = rowsMade
  BY <1>1
<1> QED
  BY ONLY h \in Handler, <1>3, <1>5, <1>7, <1>8, <1>9, <1>10, <1>11, WorkStep

LEMMA DeleteFilesKeeps ==
    ASSUME BlobInv, NEW h \in Handler, DeleteFiles(h) PROVE BlobInv'
<1> PICK w, s : w = write[h] /\ s = w.submodel
  OBVIOUS
<1> PICK pc : pc = IF w.pc = "updating" THEN "updated" ELSE "deleted"
  OBVIOUS
<1> PICK x : x = [w EXCEPT !.pc = pc]
  OBVIOUS
<1>1. /\ w # Nothing /\ w.pc \in {"updating", "deleting"} /\ row' = row
      /\ stored' = stored /\ assets' = assets /\ rowsMade' = rowsMade /\ torn' = torn
  BY DEF DeleteFiles
<1>2. /\ w \in BlobWrite /\ s \in Owner /\ row \in [Owner -> {Nothing} \cup DocumentRow]
      /\ assets \subseteq AssetRow /\ \A a \in assets : StoredFor(a.blob, a.owner)
      /\ w.id \in IdsOf(s) /\ Owns(w) /\ write \in [Handler -> {Nothing} \cup BlobWrite]
      /\ row[s] # Nothing => /\ row[s].id \in IdsOf(s)
                             /\ \A b \in References(row[s].doc) : StoredFor(b, row[s].id)
  BY <1>1, AtWork
<1>3. write' = [write EXCEPT ![h] = x]
  <2>1. write' = [write EXCEPT ![h].pc = IF @ = "updating" THEN "updated" ELSE "deleted"]
    BY DEF DeleteFiles
  <2> QED
    BY <1>2, <2>1 DEF BlobWrite
<1>4. /\ x \in BlobWrite /\ x.submodel = s /\ x.id = w.id /\ x.doc = w.doc /\ x.new = w.new
      /\ x.pc = pc /\ x.gone = w.gone /\ x.moved = w.moved /\ pc \in {"updated", "deleted"}
      /\ pc = "updated" <=> w.pc = "updating"
  BY <1>1, <1>2 DEF BlobWrite
<1>5. Owns(x)
  BY <1>1, <1>2, <1>4 DEF Owns
<1>6. PICK failed \in SUBSET w.gone : files' = files \ {a.blob : a \in w.gone \ failed}
  BY DEF DeleteFiles
<1>7. \A b \in files : b \notin files' => b \in BlobsOf(w.gone) /\ StoredFor(b, w.id)
  BY <1>2, <1>6 DEF Owns, BlobsOf
<1>8. ASSUME Prepared(s, w) PROVE Prepared(s, x)'
  <2>1. /\ w.new \subseteq files /\ row[s] # Nothing /\ row[s].id = w.id
        /\ AssetsOf(w.id) = AssetsFor(row[s].doc, w.id) /\ References(row[s].doc) \subseteq files
        /\ w.pc = "updating" =>
              /\ References(w.doc) \ w.new \subseteq BlobsOf(AssetsOf(w.id))
              /\ w.gone = Unreferenced(w)
              /\ w.moved = {a \in AssetsOf(w.id) \ w.gone : PathOf(w.doc, a.blob) # a.path}
    BY <1>1, <1>8 DEF Prepared
  <2>2. /\ AssetsOf(x.id)' = AssetsOf(w.id) /\ Unreferenced(x)' = Unreferenced(w)
        /\ AssetsFor(row'[s].doc, x.id) = AssetsFor(row[s].doc, w.id)
    BY <1>1, <1>4 DEF AssetsOf, Unreferenced, AssetsFor, Asset
  <2>3. References(row[s].doc) \subseteq files' \cup BlobsOf(w.gone)
    BY <1>7, <2>1
  <2>4. w.new \subseteq files'
    <3>1. CASE w.pc = "updating"
      <4>1. \A b \in w.new : b \notin BlobsOf(w.gone)
        BY <1>2, <2>1, <3>1 DEF Owns, BlobsOf, Unreferenced
      <4> QED
        BY <1>7, <2>1, <4>1
    <3>2. CASE w.pc = "deleting"
      BY <1>2, <3>2 DEF Owns
    <3> QED
      BY <1>1, <3>1, <3>2
  <2> QED
    BY <1>1, <1>4, <2>1, <2>2, <2>3, <2>4 DEF Prepared
<1>9. /\ row'[s] # Nothing => /\ row'[s].id \in IdsOf(s)
                               /\ \A b \in References(row'[s].doc) : StoredFor(b, row'[s].id)
      /\ x # Nothing /\ torn \subseteq torn' /\ \A t \in Owner \ {s} : row'[t] = row[t]
      /\ row' \in [Owner -> {Nothing} \cup DocumentRow]
  BY <1>1, <1>2, <1>4, LargeIsElse
<1>10. /\ assets' \subseteq AssetRow /\ \A a \in assets' : StoredFor(a.blob, a.owner)
       /\ \A a \in AssetRow : a.owner # w.id => (a \in assets' <=> a \in assets)
  BY <1>1, <1>2
<1> QED
  BY <1>1, <1>3, <1>4, <1>5, <1>7, <1>8, <1>9, <1>10, WorkStep

LEMMA CommitUpdateKeeps ==
    ASSUME BlobInv, NEW h \in Handler, CommitUpdate(h) PROVE BlobInv'
<1> PICK w, s : w = write[h] /\ s = w.submodel
  OBVIOUS
<1> PICK put : put = {Asset(w.doc, w.id, b) : b \in BlobsOf(w.moved) \cup w.new}
  OBVIOUS
<1>1. /\ w # Nothing /\ w.pc = "updated" /\ row[s] # Nothing /\ row[s].id = w.id
      /\ row' = [row EXCEPT ![s].doc = w.doc]
      /\ files' = files /\ stored' = stored
      /\ rowsMade' = rowsMade /\ torn' = torn /\ write' = [write EXCEPT ![h] = Nothing]
  BY DEF CommitUpdate
<1>2. /\ w \in BlobWrite /\ s \in Owner /\ row \in [Owner -> {Nothing} \cup DocumentRow]
      /\ assets \subseteq AssetRow /\ \A a \in assets : StoredFor(a.blob, a.owner)
      /\ w.id \in IdsOf(s) /\ Owns(w)
  BY <1>1, AtWork
<1>3. /\ w.doc \in [Place -> {Nothing} \cup Nat] /\ w.id \in Nat /\ w.new \in SUBSET Nat
      /\ w.gone \in SUBSET AssetRow /\ w.moved \in SUBSET AssetRow
  BY <1>2 DEF BlobWrite, Place
<1>4. /\ row'[s].id = w.id /\ row'[s].doc = w.doc /\ \A t \in Owner \ {s} : row'[t] = row[t]
      /\ row' \in [Owner -> {Nothing} \cup DocumentRow]
  BY <1>1, <1>2, <1>3 DEF DocumentRow
<1>5. /\ \A b \in References(w.doc) : StoredFor(b, w.id)
      /\ w.new \subseteq References(w.doc) /\ BlobsOf(w.moved) \subseteq References(w.doc)
      /\ \A b \in BlobsOf(w.gone \cup w.moved) : StoredFor(b, w.id)
  BY <1>1, <1>2 DEF Owns, BlobsOf
<1>6. ASSUME NEW b \in References(w.doc), b \in Nat
      PROVE  /\ Asset(w.doc, w.id, b) \in AssetRow
             /\ Asset(w.doc, w.id, b).blob = b /\ Asset(w.doc, w.id, b).owner = w.id
             /\ Asset(w.doc, w.id, b).path = PathOf(w.doc, b)
  BY <1>3, <1>6, PathInside DEF Asset, AssetRow, Place
<1>7. BlobsOf(w.moved) \subseteq Nat /\ References(w.doc) \subseteq Nat
  BY <1>3 DEF BlobsOf, AssetRow, References
<1>8. \A a \in w.moved : [a EXCEPT !.path = PathOf(w.doc, a.blob)] = Asset(w.doc, w.id, a.blob)
  <2>1. \A a \in w.moved : a \in AssetRow /\ a.owner = w.id
    BY <1>2, <1>3 DEF Owns
  <2> QED
    BY <2>1 DEF AssetRow, Asset
<1>9. \A a : a \in assets' <=> \/ a \in assets /\ a.blob \notin BlobsOf(w.gone \cup w.moved)
                               \/ a \in put
  <2>1. assets' = {a \in assets : a.blob \notin {b.blob : b \in w.gone \cup w.moved}}
                  \cup {[a EXCEPT !.path = PathOf(w.doc, a.blob)] : a \in w.moved}
                  \cup {Asset(w.doc, w.id, b) : b \in w.new}
    BY DEF CommitUpdate
  <2>2. {[a EXCEPT !.path = PathOf(w.doc, a.blob)] : a \in w.moved}
        = {Asset(w.doc, w.id, b) : b \in BlobsOf(w.moved)}
    <3>1. {[a EXCEPT !.path = PathOf(w.doc, a.blob)] : a \in w.moved}
          = {Asset(w.doc, w.id, a.blob) : a \in w.moved}
      <4> DEFINE movedTo(a) == [a EXCEPT !.path = PathOf(w.doc, a.blob)]
                 asset(a) == Asset(w.doc, w.id, a.blob)
      <4>1. \A a \in w.moved : movedTo(a) = asset(a)
        BY <1>8
      <4> HIDE DEF movedTo, asset
      <4>2. {movedTo(a) : a \in w.moved} = {asset(a) : a \in w.moved}
        BY <4>1
      <4> QED
        BY <4>2 DEF movedTo, asset
    <3>2. {Asset(w.doc, w.id, a.blob) : a \in w.moved}
          = {Asset(w.doc, w.id, b) : b \in {a.blob : a \in w.moved}}
      OBVIOUS
    <3> QED
      BY <3>1, <3>2 DEF BlobsOf
  <2>3. \A a : a \in put <=> \/ a \in {Asset(w.doc, w.id, b) : b \in BlobsOf(w.moved)}
                             \/ a \in {Asset(w.doc, w.id, b) : b \in w.new}
    OBVIOUS
  <2> QED
    BY <2>1, <2>2, <2>3 DEF BlobsOf
<1>10. \A a \in put : a \in AssetRow /\ a.owner = w.id /\ StoredFor(a.blob, a.owner)
  BY <1>5, <1>6, <1>7
<1>11. /\ assets' \subseteq AssetRow /\ \A a \in assets' : StoredFor(a.blob, a.owner)
       /\ \A a \in AssetRow : a.owner # w.id => (a \in assets' <=> a \in assets)
  <2>1. ASSUME NEW a \in assets, a.owner # w.id PROVE a.blob \notin BlobsOf(w.gone \cup w.moved)
    BY <1>2, <1>5, <2>1 DEF StoredFor
  <2> QED
    BY <1>2, <1>9, <1>10, <2>1
<1>12. ASSUME Prepared(s, w) PROVE Whole(s)'
  <2>1. /\ w.new \subseteq files
        /\ AssetsOf(w.id) = AssetsFor(row[s].doc, w.id)
        /\ References(row[s].doc) \subseteq files \cup BlobsOf(w.gone)
        /\ References(w.doc) \ w.new \subseteq BlobsOf(AssetsOf(w.id))
        /\ w.gone = Unreferenced(w)
        /\ w.moved = {a \in AssetsOf(w.id) \ w.gone : PathOf(w.doc, a.blob) # a.path}
    BY <1>1, <1>12 DEF Prepared
  <2>2. /\ \A a \in AssetsOf(w.id) : a \in AssetRow /\ a \in assets /\ a.owner = w.id
        /\ \A a \in AssetsOf(w.id) : a.blob \in References(row[s].doc)
        /\ \A a, c \in AssetsOf(w.id) : a.blob = c.blob => a = c
    BY <1>2, <2>1 DEF AssetsOf, AssetsFor, Asset
  <2>3. References(w.doc) \subseteq files'
    <3>1. ASSUME NEW b \in References(w.doc), b \notin w.new PROVE b \in files
      <4>1. b \in References(row[s].doc)
        BY <2>1, <2>2, <3>1 DEF BlobsOf
      <4>2. b \notin BlobsOf(w.gone)
        BY <2>1, <3>1 DEF BlobsOf, Unreferenced
      <4> QED
        BY <2>1, <4>1, <4>2
    <3> QED
      BY <1>1, <2>1, <3>1
  <2>4. ASSUME NEW a \in AssetsOf(w.id), a.blob \notin BlobsOf(w.gone \cup w.moved)
        PROVE  a \in AssetsFor(w.doc, w.id)
    <3>1. a \notin w.gone /\ a \notin w.moved
      BY <2>4 DEF BlobsOf
    <3>2. a.blob \in References(w.doc) /\ a.path = PathOf(w.doc, a.blob)
      BY <2>1, <3>1 DEF Unreferenced
    <3>3. a = Asset(w.doc, w.id, a.blob)
      BY <2>2, <3>2 DEF AssetRow, Asset
    <3> QED
      BY <3>2, <3>3 DEF AssetsFor
  <2>5. put \subseteq AssetsFor(w.doc, w.id)
    BY <1>5 DEF AssetsFor
  <2>6. ASSUME NEW b \in References(w.doc), b \notin BlobsOf(w.moved) \cup w.new
        PROVE  \E a \in AssetsOf(w.id) : /\ a = Asset(w.doc, w.id, b)
                                         /\ a.blob \notin BlobsOf(w.gone \cup w.moved)
    <3>1. PICK a \in AssetsOf(w.id) : a.blob = b
      BY <2>1, <2>6 DEF BlobsOf
    <3>2. a \notin w.gone /\ a \notin w.moved
      BY <2>1, <2>6, <3>1 DEF Unreferenced, BlobsOf
    <3>3. a.path = PathOf(w.doc, b)
      BY <2>1, <3>1, <3>2
    <3>4. a = Asset(w.doc, w.id, b)
      BY <2>2, <3>1, <3>3 DEF AssetRow, Asset
    <3>5. \A c \in w.gone : c.blob # b
      BY <2>1, <2>6 DEF Unreferenced
    <3> QED
      BY <2>6, <3>1, <3>4, <3>5 DEF BlobsOf
  <2>7. AssetsOf(w.id)' = AssetsFor(w.doc, w.id)
    <3>1. ASSUME NEW a \in AssetsOf(w.id)' PROVE a \in AssetsFor(w.doc, w.id)
      <4>1. a \in assets' /\ a.owner = w.id
        BY DEF AssetsOf
      <4>2. CASE a \in put
        BY <2>5, <4>2
      <4>3. CASE a \in assets /\ a.blob \notin BlobsOf(w.gone \cup w.moved)
        BY <2>4, <4>1, <4>3 DEF AssetsOf
      <4> QED
        BY <1>9, <4>1, <4>2, <4>3
    <3>2. ASSUME NEW b \in References(w.doc) PROVE Asset(w.doc, w.id, b) \in AssetsOf(w.id)'
      <4>1. CASE b \in BlobsOf(w.moved) \cup w.new
        <5>1. Asset(w.doc, w.id, b) \in put
          BY <4>1
        <5> QED
          BY <1>9, <1>10, <5>1 DEF AssetsOf
      <4>2. CASE b \notin BlobsOf(w.moved) \cup w.new
        <5>1. PICK a \in AssetsOf(w.id) : /\ a = Asset(w.doc, w.id, b)
                                          /\ a.blob \notin BlobsOf(w.gone \cup w.moved)
          BY <2>6, <4>2
        <5>2. a \in assets' /\ a.owner = w.id
          BY <1>9, <2>2, <5>1
        <5> QED
          BY <5>1, <5>2 DEF AssetsOf
      <4> QED
        BY <4>1, <4>2
    <3> QED
      BY <3>1, <3>2 DEF AssetsFor
  <2> QED
    BY <1>4, <2>3, <2>7 DEF Whole
<1>13. row'[s].id \in IdsOf(s) /\ \A b \in References(row'[s].doc) : StoredFor(b, row'[s].id)
  BY <1>2, <1>4, <1>5
<1>14. /\ BlobInv /\ w = write[h] /\ s = w.submodel /\ w # Nothing /\ stored' = stored
       /\ rowsMade' = rowsMade /\ torn \subseteq torn' /\ files' = files
  BY <1>1
<1>15. write' = [write EXCEPT ![h] = Nothing]
  BY <1>1
<1> QED
  BY ONLY h \in Handler, <1>4, <1>11, <1>12, <1>13, <1>14, <1>15, WorkStep

LEMMA CommitRemovalKeeps ==
    ASSUME BlobInv, NEW h \in Handler, CommitRemoval(h) PROVE BlobInv'
<1> PICK w, s : w = write[h] /\ s = w.submodel
  OBVIOUS
<1>1. /\ w # Nothing /\ w.pc = "deleted" /\ files' = files /\ stored' = stored /\ assets' = assets
      /\ rowsMade' = rowsMade /\ torn \subseteq torn' /\ write' = [write EXCEPT ![h] = Nothing]
      /\ row' = [row EXCEPT ![s] = IF row[s] # Nothing /\ row[s].id = w.id THEN Nothing ELSE row[s]]
  BY DEF CommitRemoval
<1>2. /\ w \in BlobWrite /\ s \in Owner /\ row \in [Owner -> {Nothing} \cup DocumentRow]
      /\ assets \subseteq AssetRow /\ \A a \in assets : StoredFor(a.blob, a.owner)
      /\ row[s] # Nothing => /\ row[s].id \in IdsOf(s)
                             /\ \A b \in References(row[s].doc) : StoredFor(b, row[s].id)
  BY <1>1, AtWork
<1>3. /\ row'[s] = Nothing \/ (row'[s] = row[s] /\ row[s].id # w.id)
      /\ row' \in [Owner -> {Nothing} \cup DocumentRow]
      /\ \A t \in Owner \ {s} : row'[t] = row[t]
  BY <1>1, <1>2
<1>4. Prepared(s, w) => row'[s] = Nothing
  BY <1>1, <1>3 DEF Prepared
<1>5. /\ BlobInv /\ w = write[h] /\ s = w.submodel /\ stored' = stored
      /\ row'[s] # Nothing => /\ row'[s].id \in IdsOf(s)
                              /\ \A b \in References(row'[s].doc) : StoredFor(b, row'[s].id)
      /\ assets' \subseteq AssetRow /\ \A a \in assets' : StoredFor(a.blob, a.owner)
  BY <1>1, <1>2, <1>3
<1> QED
  BY <1>1, <1>3, <1>4, <1>5, WorkStep

LEMMA BlobStep ==
    ASSUME BlobInv, [BlobsNext]_blobVars PROVE BlobInv'
<1>1. CASE UNCHANGED blobVars
  <2>1. /\ UNCHANGED <<row, assets, files, stored, rowsMade, write, torn>>
        /\ \A s \in Owner : IdsOf(s)' = IdsOf(s)
        /\ \A h \in Handler, s \in Owner : On(h, s)' <=> On(h, s)
        /\ \A id : AssetsOf(id)' = AssetsOf(id)
    BY <1>1 DEF blobVars, IdsOf, On, AssetsOf
  <2>2. BlobTypes' /\ IdsApart' /\ AssetsOwned' /\ RowsOwn'
    BY <2>1 DEF BlobInv, BlobTypes, IdsApart, AssetsOwned, RowsOwn, StoredFor
  <2>3. WritesOwn'
    BY <2>1 DEF BlobInv, WritesOwn, Owns, StoredFor
  <2>4. \A s \in Owner \ torn : Alone(s)'
    BY <2>1, StaysAlone DEF BlobInv
  <2> QED
    BY <2>1, <2>2, <2>3, <2>4 DEF BlobInv
<1>2. CASE BlobsNext
  BY <1>2, BeginCreateKeeps, BeginUpdateKeeps, BeginDeleteKeeps, CommitNewRowKeeps, LoadAssetsKeeps,
     RefusedKeeps, DeleteFilesKeeps, CommitUpdateKeeps, CommitRemovalKeeps DEF BlobsNext
<1> QED
  BY <1>1, <1>2

\* Every step keeps the rows, the assets and the writes on the files of their own row.
LEMMA BlobInvariance == BlobsSpec => []BlobInv
<1>1. BlobsInit => BlobInv
  <2> SUFFICES ASSUME BlobsInit PROVE BlobInv
    OBVIOUS
  <2>1. /\ \A s \in Owner : row[s] = Nothing /\ IdsOf(s) = {} /\ ~Busy(s)
        /\ \A h \in Handler, s \in Owner : write[h] = Nothing /\ ~On(h, s)
    BY DEF BlobsInit, IdsOf, On, Busy
  <2>2. BlobTypes
    BY DEF BlobsInit, BlobTypes
  <2> QED
    BY <2>1, <2>2 DEF BlobsInit, BlobInv, IdsApart, AssetsOwned, RowsOwn, WritesOwn, Alone
<1> QED
  BY <1>1, BlobStep, PTL DEF BlobsSpec

\* What is left of the types: the bound, and that the storage has no other files than
\* those it was given, for rows that were made.
BlobsCounted ==
    /\ Len(stored) <= MaxBlobs
    /\ files \subseteq 1 .. Len(stored)
    /\ \A b \in 1 .. Len(stored) : stored[b] # 0
    /\ \A s \in Owner : row[s] # Nothing => row[s].id # 0
    /\ \A h \in Handler : write[h] # Nothing => write[h].id # 0

LEMMA FilesCounted ==
    ASSUME BlobInv, BlobsCounted, NEW doc \in [Place -> Input], NEW id \in Nat \ {0},
           StoreFiles(doc, id)
    PROVE  /\ Len(stored') <= MaxBlobs
           /\ files' \subseteq 1 .. Len(stored')
           /\ \A b \in 1 .. Len(stored') : stored'[b] # 0
<1>1. BlobTypes /\ stored \in Seq(Nat) /\ Len(stored) \in Nat
  BY DEF BlobInv, BlobTypes
<1>2. /\ stored' \in Seq(Nat) /\ Len(stored') >= Len(stored) /\ Len(stored') \in Nat
      /\ \A b \in 1 .. Len(stored) : stored'[b] = stored[b]
      /\ \A b \in 1 .. Len(stored') : stored'[b] = id \/ (b \in 1 .. Len(stored))
      /\ \A b \in NewBlobs(doc) : b \in 1 .. Len(stored')
      /\ files' = files \cup NewBlobs(doc)
  BY <1>1, FilesStored
<1>3. Len(stored') <= MaxBlobs
  <2> DEFINE n == Cardinality(Large(doc))
  <2>1. Large(doc) \in SUBSET (1 .. Places) /\ Places \in Int /\ 1 \in Int
    BY LargeIsElse DEF Large, Place
  <2>2. n \in Nat
    BY <2>1, Within, Zenon
  <2>3. /\ Len(stored) + n <= MaxBlobs /\ stored' = stored \o [i \in 1 .. n |-> id]
        /\ [i \in 1 .. n |-> id] \in Seq(Nat) /\ Len([i \in 1 .. n |-> id]) = n
    BY <2>2 DEF StoreFiles
  <2> HIDE DEF n
  <2>4. Len(stored') = Len(stored) + n
    BY <1>1, <2>2, <2>3
  <2> QED
    BY <2>3, <2>4
<1>4. files' \subseteq 1 .. Len(stored')
  <2>1. files \subseteq 1 .. Len(stored)
    BY DEF BlobsCounted
  <2>2. 1 .. Len(stored) \subseteq 1 .. Len(stored')
    BY <1>1, <1>2
  <2>3. NewBlobs(doc) \subseteq 1 .. Len(stored') /\ files' = files \cup NewBlobs(doc)
    BY <1>2
  <2> QED
    BY <2>1, <2>2, <2>3
<1>5. ASSUME NEW b \in 1 .. Len(stored') PROVE stored'[b] # 0
  <2>1. CASE b \in 1 .. Len(stored)
    BY <1>2, <2>1 DEF BlobsCounted
  <2>2. CASE b \notin 1 .. Len(stored)
    BY <1>2, <2>2
  <2> QED
    BY <2>1, <2>2
<1> QED
  BY <1>3, <1>4, <1>5

LEMMA BlobsCountedStep ==
    ASSUME BlobInv, BlobsCounted, [BlobsNext]_blobVars PROVE BlobsCounted'
<1>1. /\ rowsMade \in Nat /\ row \in [Owner -> {Nothing} \cup DocumentRow]
      /\ write \in [Handler -> {Nothing} \cup BlobWrite]
  BY DEF BlobInv, BlobTypes
<1>2. ASSUME NEW h \in Handler, NEW s \in Owner, NEW doc \in [Place -> Input],
             BeginCreate(h, s, doc) \/ BeginUpdate(h, s, doc)
      PROVE  BlobsCounted'
  <2>1. PICK id \in Nat \ {0} :
           /\ StoreFiles(doc, id) /\ row' = row
           /\ \/ write' = write
              \/ \E pc : write' = [write EXCEPT ![h] =
                   [pc |-> pc, submodel |-> s, id |-> id, doc |-> Externalized(doc),
                    new |-> NewBlobs(doc), gone |-> {}, moved |-> {}]]
    <3>1. CASE BeginCreate(h, s, doc)
      <4>1. rowsMade + 1 \in Nat \ {0}
        BY <1>1
      <4> QED
        BY <3>1, <4>1 DEF BeginCreate
    <3>2. CASE BeginUpdate(h, s, doc)
      <4>1. row[s].id \in Nat \ {0}
        BY <1>1, <3>2 DEF BeginUpdate, BlobsCounted, DocumentRow
      <4> QED
        BY <3>2, <4>1 DEF BeginUpdate
    <3> QED
      BY <1>2, <3>1, <3>2
  <2>2. /\ Len(stored') <= MaxBlobs
        /\ files' \subseteq 1 .. Len(stored')
        /\ \A b \in 1 .. Len(stored') : stored'[b] # 0
    BY <2>1, FilesCounted
  <2>3. \A g \in Handler : write'[g] = write[g] \/ write'[g].id = id
    BY <1>1, <2>1
  <2>4. \A g \in Handler : write'[g] # Nothing => write'[g].id # 0
    BY <2>3 DEF BlobsCounted
  <2> QED
    BY <2>1, <2>2, <2>4 DEF BlobsCounted
<1>3. ASSUME NEW h \in Handler, NEW s \in Owner, BeginDelete(h, s) PROVE BlobsCounted'
  <2>1. /\ UNCHANGED <<row, files, stored>> /\ row[s].id # 0
        /\ \A g \in Handler : write'[g] = write[g] \/ write'[g].id = row[s].id
    BY <1>1, <1>3 DEF BeginDelete, BlobsCounted
  <2> QED
    BY <2>1 DEF BlobsCounted
<1>4. ASSUME NEW h \in Handler, CommitNewRow(h) PROVE BlobsCounted'
  <2>1. /\ UNCHANGED <<files, stored>> /\ write[h].id # 0
        /\ \A g \in Handler : write'[g] = write[g] \/ write'[g] = Nothing
        /\ \A s \in Owner : row'[s] = row[s] \/ row'[s].id = write[h].id
    BY <1>1, <1>4 DEF CommitNewRow, BlobsCounted
  <2> QED
    BY <2>1 DEF BlobsCounted
<1>5. ASSUME NEW h \in Handler, LoadAssets(h) \/ DeleteFiles(h) PROVE BlobsCounted'
  <2>1. UNCHANGED <<row, stored>> /\ files' \subseteq files /\ write[h] \in BlobWrite
    BY <1>1, <1>5 DEF LoadAssets, DeleteFiles
  <2>2. write'[h].id = write[h].id
    <3>1. CASE LoadAssets(h)
      <4>1. PICK pc, gone, moved :
               write' = [write EXCEPT ![h] = [write[h] EXCEPT !.pc = pc, !.gone = gone, !.moved = moved]]
        BY <2>1, <3>1 DEF LoadAssets, BlobWrite
      <4> QED
        BY <1>1, <2>1, <4>1 DEF BlobWrite
    <3>2. CASE DeleteFiles(h)
      BY <1>1, <2>1, <3>2 DEF DeleteFiles, BlobWrite
    <3> QED
      BY <1>5, <3>1, <3>2
  <2>3. \A g \in Handler \ {h} : write'[g] = write[g]
    BY <1>1, <1>5 DEF LoadAssets, DeleteFiles
  <2>4. write[h].id # 0
    BY <1>5 DEF LoadAssets, DeleteFiles, BlobsCounted
  <2>5. \A g \in Handler : write'[g] # Nothing => write'[g].id # 0
    BY <2>2, <2>3, <2>4 DEF BlobsCounted
  <2> QED
    BY <2>1, <2>5 DEF BlobsCounted
<1>6. ASSUME NEW h \in Handler, Refused(h) \/ CommitUpdate(h) \/ CommitRemoval(h) \/ RolledBack(h)
      PROVE  BlobsCounted'
  <2>1. /\ UNCHANGED <<files, stored>>
        /\ \A g \in Handler : write'[g] = write[g] \/ write'[g] = Nothing
    BY <1>1, <1>6 DEF Refused, CommitUpdate, CommitRemoval, RolledBack
  <2>2. ASSUME NEW s \in Owner
        PROVE  \/ row'[s] = row[s] \/ row'[s] = Nothing
               \/ row[s] # Nothing /\ row'[s].id = row[s].id
    <3>1. CASE Refused(h) \/ RolledBack(h)
      BY <3>1 DEF Refused, RolledBack
    <3>2. CASE CommitUpdate(h)
      BY <1>1, <3>2 DEF CommitUpdate, DocumentRow
    <3>3. CASE CommitRemoval(h)
      <4>1. \E x : row' = [row EXCEPT ![write[h].submodel] = x]
                  /\ (x = Nothing \/ x = row[write[h].submodel])
        BY <3>3 DEF CommitRemoval
      <4> QED
        BY <1>1, <4>1
    <3> QED
      BY <1>6, <3>1, <3>2, <3>3
  <2> QED
    BY <2>1, <2>2 DEF BlobsCounted
<1>7. CASE UNCHANGED blobVars
  BY <1>7 DEF BlobsCounted, blobVars
<1> QED
  BY <1>2, <1>3, <1>4, <1>5, <1>6, <1>7 DEF BlobsNext

\* Files, assets and rows keep their types, and name rows and files that there were.
LEMMA BlobsTypesHold == BlobsSpec => []BlobsTypeOK
<1>1. BlobsInit => BlobsCounted
  BY BlobsAssumption DEF BlobsInit, BlobsCounted
<1>2. BlobInv /\ BlobsCounted => BlobsTypeOK
  <2> SUFFICES ASSUME BlobInv, BlobsCounted PROVE BlobsTypeOK
    OBVIOUS
  <2>1. /\ rowsMade \in Nat /\ stored \in Seq(Nat) /\ assets \subseteq AssetRow
        /\ \A b \in 1 .. Len(stored) : stored[b] <= rowsMade
        /\ row \in [Owner -> {Nothing} \cup DocumentRow]
    BY DEF BlobInv, BlobTypes
  <2>2. DOMAIN stored = 1 .. Len(stored)
    BY <2>1
  <2>3. \A b \in 1 .. Len(stored) : stored[b] \in 1 .. rowsMade
    BY <2>1, <2>2 DEF BlobsCounted
  <2>4. stored \in Seq(1 .. rowsMade)
    BY <2>1, <2>3
  <2>5. \A a \in assets : a.blob \in DOMAIN stored /\ a.path \in Place /\ a.owner = stored[a.blob]
    BY <2>1, <2>2 DEF BlobInv, AssetsOwned, StoredFor, AssetRow, Place
  <2>6. ASSUME NEW s \in Owner, row[s] # Nothing
        PROVE  row[s].id \in 1 .. rowsMade /\ row[s].doc \in [Place -> {Nothing} \cup DOMAIN stored]
    <3>1. row[s].id \in Nat /\ row[s].doc \in [Place -> {Nothing} \cup Nat]
      BY <2>1, <2>6 DEF DocumentRow
    <3>2. row[s].id <= rowsMade /\ row[s].id # 0
      BY <2>6 DEF BlobInv, IdsApart, IdsOf, BlobsCounted
    <3>3. \A b \in References(row[s].doc) : b \in DOMAIN stored
      BY <2>2, <2>6 DEF BlobInv, RowsOwn, StoredFor
    <3>4. \A p \in Place : row[s].doc[p] \in {Nothing} \cup DOMAIN stored
      BY <3>3 DEF References
    <3> QED
      BY <2>1, <3>1, <3>2, <3>4
  <2> QED
    BY <2>2, <2>4, <2>5, <2>6 DEF BlobsTypeOK, BlobsCounted
<1> QED
  BY <1>1, <1>2, BlobsCountedStep, BlobInvariance, PTL DEF BlobsSpec

\* For any number of Submodels, handlers and elements: no file is referred to by two
\* Submodels, and one that was written by one handler at a time, none of which was
\* rolled back after it had removed files, has all its files and an asset for each
\* (post_submodel, put_submodel_by_id, delete_submodel_by_id and blob_elements).
THEOREM AttachmentsStayWhole == BlobsSpec => []AttachmentsWhole
<1>1. BlobInv => AttachmentsWhole
  BY DEF BlobInv, AttachmentsWhole, OwnBlobs, WholeUnlessTorn, RowsOwn, StoredFor, Alone, Whole,
     AssetsFor
<1> QED
  BY <1>1, BlobInvariance, PTL

-----------------------------------------------------------------------------
(* The packages.  A request fits its stage, and while requests come one after *)
(* the other a file is stored exactly as long as it is a row's or is about to *)
(* become one.                                                                *)

UnderWay(r) == request[r] # Nothing

PackageTypes ==
    /\ made \in 0 .. MaxPackages /\ filed \in 0 .. MaxFiles /\ called \in 0 .. MaxCalls
    /\ package \in [PackageId -> {Nothing} \cup PackageRow]
    /\ request \in [PackageHandler -> {Nothing} \cup PackageRequest]
    /\ packageFiles \subseteq 1 .. filed /\ shared \subseteq 1 .. filed /\ astray \subseteq 1 .. filed
    /\ announced \subseteq 1 .. made /\ together \in BOOLEAN

\* A row refers to an older one that is there, and its version is at most its place.
RowsFit ==
    \A p \in Packages :
        /\ p <= made
        /\ package[p].file \in 1 .. filed /\ package[p].version \in 1 .. p
        /\ package[p].previous # Nothing =>
              package[p].previous \in Packages /\ package[p].previous < p

StageOf(c) ==
    \/ c.kind = "upload" /\ c.pc \in {"store", "insert"}
    \/ c.kind = "version" /\ c.pc \in {"store", "current", "insert", "announce"}
    \/ c.kind = "update" /\ c.pc \in {"select", "remove", "store", "overwrite"}
    \/ c.kind = "delete" /\ c.pc \in {"select", "remove", "delete"}
    \/ c.kind = "rollback" /\ c.pc \in {"walk", "insert", "announce"}

HasFile(c) == c.pc \in {"current", "overwrite"} \/ (c.pc = "insert" /\ c.kind # "rollback")
Replaces(c) == c.kind \in {"update", "delete"} /\ c.pc # "select"
HasRowOf(c) == Replaces(c) \/ (c.kind = "rollback" /\ c.pc # "walk")

\* What a request knows at its stage, with so many rows made and files stored.
RequestFits(c, rowCount, fileCount) ==
    /\ StageOf(c)
    /\ c.kind = "upload" => c.id = Nothing /\ c.version = 1
    /\ c.kind # "upload" => c.id \in 1 .. rowCount
    /\ c.pc = "insert" /\ c.kind # "upload" => c.version \in 1 .. c.id + 1
    /\ HasFile(c) => c.file \in 1 .. fileCount
    /\ ~HasFile(c) => c.file = Nothing
    /\ HasRowOf(c) => c.row \in PackageRow /\ c.row.file \in 1 .. fileCount
    /\ ~HasRowOf(c) => c.row = Nothing
    /\ c.removed <=> Replaces(c) /\ c.pc # "remove"
    /\ c.pc = "announce" => c.new \in 1 .. rowCount

RequestsFit == \A r \in PackageHandler : UnderWay(r) => RequestFits(request[r], made, filed)

OneByOne ==
    ~together => \A r, o \in PackageHandler : UnderWay(r) /\ UnderWay(o) => r = o

RowsHave(f) == \E p \in Packages : package[p].file = f
Brought(f) == \E r \in PackageHandler : UnderWay(r) /\ request[r].file = f
TakenAway(f) == \E r \in PackageHandler : UnderWay(r) /\ request[r].removed /\ request[r].row.file = f

FilesMatch ==
    \A f \in (1 .. filed) \ (shared \cup astray) :
        f \in packageFiles <=> Brought(f) \/ (RowsHave(f) /\ ~TakenAway(f))
NewFiles == \A f \in 1 .. filed : Brought(f) => ~RowsHave(f)
OneRowEach ==
    \A p, q \in Packages : p # q /\ package[p].file = package[q].file => package[p].file \in shared
RowsStay ==
    \A r \in PackageHandler : UnderWay(r) /\ Replaces(request[r]) =>
        HasRow(request[r].id) /\ package[request[r].id].file = request[r].row.file

FilesHold == FilesMatch /\ NewFiles /\ OneRowEach /\ RowsStay

PackagesInv ==
    /\ PackageTypes /\ RowsFit /\ RequestsFit /\ OneByOne
    /\ ~together => FilesHold

LEMMA PackageConstants ==
    /\ MaxPackages \in Nat /\ MaxFiles \in Nat /\ MaxCalls \in Nat
    /\ Nothing \notin Nat /\ Nothing \notin PackageRow /\ Nothing \notin PackageRequest
BY PackagesAssumption

\* The facts about a request that is under way.
LEMMA AtStage ==
    ASSUME PackagesInv, NEW r \in PackageHandler, UnderWay(r)
    PROVE  /\ request[r] \in PackageRequest /\ RequestFits(request[r], made, filed)
           /\ made \in Nat /\ filed \in Nat /\ made <= MaxPackages /\ filed <= MaxFiles
           /\ Stray(request[r]) \subseteq 1 .. filed
<1>1. request[r] \in PackageRequest /\ RequestFits(request[r], made, filed)
  BY DEF PackagesInv, PackageTypes, RequestsFit, UnderWay
<1>2. made \in Nat /\ filed \in Nat /\ made <= MaxPackages /\ filed <= MaxFiles
  BY PackageConstants DEF PackagesInv, PackageTypes
<1>3. /\ request[r].file = Nothing \/ request[r].file \in 1 .. filed
      /\ request[r].removed => request[r].row.file \in 1 .. filed
  BY <1>1 DEF RequestFits, HasRowOf
<1> QED
  BY <1>1, <1>2, <1>3 DEF Stray

\* A request goes on, with what fits its next stage, or ends: the others are where
\* they were.
LEMMA RequestGoesOn ==
    ASSUME PackagesInv, NEW r \in PackageHandler, UnderWay(r), NEW c \in {Nothing} \cup PackageRequest,
           Proceeds(r, c), together' = together,
           made' \in Nat, made <= made', filed' \in Nat, filed <= filed',
           c # Nothing => RequestFits(c, made', filed')
    PROVE  /\ request' \in [PackageHandler -> {Nothing} \cup PackageRequest]
           /\ \A o \in PackageHandler : request'[o] = IF o = r THEN c ELSE request[o]
           /\ RequestsFit' /\ OneByOne'
<1>1. request \in [PackageHandler -> {Nothing} \cup PackageRequest] /\ made \in Nat /\ filed \in Nat
  BY AtStage DEF PackagesInv, PackageTypes
<1>2. /\ request' \in [PackageHandler -> {Nothing} \cup PackageRequest]
      /\ \A o \in PackageHandler : request'[o] = IF o = r THEN c ELSE request[o]
  BY <1>1 DEF Proceeds
<1>3. ASSUME NEW o \in PackageHandler, UnderWay(o)' PROVE RequestFits(request'[o], made', filed')
  <2>1. CASE o = r
    BY <1>2, <1>3, <2>1 DEF UnderWay
  <2>2. CASE o # r
    <3>1. request'[o] = request[o] /\ RequestFits(request[o], made, filed)
      BY <1>2, <1>3, <2>2 DEF UnderWay, PackagesInv, RequestsFit
    <3> QED
      BY <1>1, <3>1 DEF RequestFits
  <2> QED
    BY <2>1, <2>2
<1>4. \A o \in PackageHandler : UnderWay(o)' => UnderWay(o)
  BY <1>2 DEF UnderWay
<1> QED
  BY <1>2, <1>3, <1>4 DEF RequestsFit, OneByOne, PackagesInv

\* While requests come one after the other, what is under way is the one request.
LEMMA TheOnlyRequest ==
    ASSUME PackagesInv, NEW r \in PackageHandler, UnderWay(r), ~together,
           NEW c \in {Nothing} \cup PackageRequest, Proceeds(r, c)
    PROVE  /\ FilesHold
           /\ \A f : Brought(f) <=> request[r].file = f
           /\ \A f : TakenAway(f) <=> request[r].removed /\ request[r].row.file = f
           /\ \A f : Brought(f)' <=> c # Nothing /\ c.file = f
           /\ \A f : TakenAway(f)' <=> c # Nothing /\ c.removed /\ c.row.file = f
           /\ RowsStay' <=> (c # Nothing /\ Replaces(c) =>
                                package'[c.id] # Nothing /\ package'[c.id].file = c.row.file)
<1>1. \A o \in PackageHandler : UnderWay(o) => o = r
  BY DEF PackagesInv, OneByOne
<1>2. /\ request' = [request EXCEPT ![r] = c]
      /\ request \in [PackageHandler -> {Nothing} \cup PackageRequest]
  BY DEF Proceeds, PackagesInv, PackageTypes
<1>3. request'[r] = c /\ \A o \in PackageHandler : UnderWay(o)' => o = r
  BY <1>1, <1>2 DEF UnderWay
<1>4. \A f : Brought(f) <=> request[r].file = f
  BY <1>1 DEF Brought
<1>5. \A f : TakenAway(f) <=> request[r].removed /\ request[r].row.file = f
  BY <1>1 DEF TakenAway
<1>6. \A f : Brought(f)' <=> c # Nothing /\ c.file = f
  BY <1>3 DEF Brought, UnderWay
<1>7. \A f : TakenAway(f)' <=> c # Nothing /\ c.removed /\ c.row.file = f
  BY <1>3 DEF TakenAway, UnderWay
<1>8. RowsStay' <=> (c # Nothing /\ Replaces(c) =>
                        package'[c.id] # Nothing /\ package'[c.id].file = c.row.file)
  BY <1>3 DEF RowsStay, UnderWay, HasRow
<1> QED
  BY <1>4, <1>5, <1>6, <1>7, <1>8 DEF PackagesInv

\* A step that leaves the rows alone.
RowsSame == package' = package /\ made' = made
LEMMA RowsUntouched ==
    ASSUME PackagesInv, RowsSame, filed' \in Nat, filed <= filed', shared' = shared
    PROVE  /\ RowsFit' /\ (OneRowEach => OneRowEach')
           /\ Packages' = Packages /\ (\A f : RowsHave(f)' <=> RowsHave(f))
           /\ \A p : HasRow(p)' <=> HasRow(p)
<1>1. Packages' = Packages /\ \A p : HasRow(p)' <=> HasRow(p)
  BY DEF RowsSame, Packages, HasRow
<1>2. filed \in Nat
  BY PackageConstants DEF PackagesInv, PackageTypes
<1>3. RowsFit' /\ (OneRowEach => OneRowEach')
  BY <1>1, <1>2 DEF RowsFit, OneRowEach, PackagesInv, RowsSame
<1>4. \A f : RowsHave(f)' <=> RowsHave(f)
  BY <1>1 DEF RowsHave, RowsSame
<1> QED
  BY <1>1, <1>3, <1>4

\* A request that fails leaves what it has stored or deleted behind.
LEMMA FailureKeeps ==
    ASSUME PackagesInv, NEW r \in PackageHandler, UnderWay(r), Fails(r),
           UNCHANGED <<package, packageFiles, made, filed, called, shared, together>>,
           announced' = announced
    PROVE  PackagesInv'
<1>1. /\ made \in Nat /\ filed \in Nat /\ Proceeds(r, Nothing)
      /\ astray' = astray \cup Stray(request[r]) /\ Stray(request[r]) \subseteq 1 .. filed
  BY AtStage DEF Fails, Proceeds
<1>2. /\ request' \in [PackageHandler -> {Nothing} \cup PackageRequest]
      /\ RequestsFit' /\ OneByOne'
  BY <1>1, RequestGoesOn
<1>3. PackageTypes'
  BY <1>1, <1>2 DEF PackagesInv, PackageTypes
<1>4. /\ RowsFit' /\ (OneRowEach => OneRowEach') /\ \A f : RowsHave(f)' <=> RowsHave(f)
  BY <1>1, RowsUntouched DEF RowsSame
<1>5. ASSUME ~together PROVE FilesHold'
  <2>1. /\ FilesHold /\ RowsStay'
        /\ \A f : Brought(f) <=> request[r].file = f
        /\ \A f : TakenAway(f) <=> request[r].removed /\ request[r].row.file = f
        /\ \A f : ~Brought(f)' /\ ~TakenAway(f)'
    BY <1>1, <1>5, TheOnlyRequest
  <2>2. ASSUME NEW f \in (1 .. filed) \ (shared \cup astray')
        PROVE  f \in packageFiles <=> RowsHave(f)
    <3>1. f \in packageFiles <=> Brought(f) \/ (RowsHave(f) /\ ~TakenAway(f))
      BY <1>1, <2>1 DEF FilesHold, FilesMatch
    <3>2. f # Nothing /\ f \notin Stray(request[r])
      BY <1>1, PackageConstants
    <3>3. ~Brought(f) /\ ~TakenAway(f)
      BY <2>1, <3>2 DEF Stray
    <3> QED
      BY <3>1, <3>3
  <2>3. FilesMatch'
    BY <1>4, <2>1, <2>2 DEF FilesMatch
  <2> QED
    BY <1>4, <2>1, <2>3 DEF FilesHold, NewFiles
<1> QED
  BY <1>2, <1>3, <1>4, <1>5 DEF PackagesInv

\* A request goes on over the same rows and files.
LEMMA QuietStepKeeps ==
    ASSUME PackagesInv, NEW r \in PackageHandler, UnderWay(r),
           NEW c \in {Nothing} \cup PackageRequest, Proceeds(r, c),
           UNCHANGED <<package, packageFiles, made, filed, called, shared, astray, together>>,
           announced' \subseteq 1 .. made,
           c # Nothing => /\ RequestFits(c, made, filed)
                          /\ c.file = request[r].file
                          /\ c.removed = request[r].removed /\ (c.removed => c.row = request[r].row)
                          /\ Replaces(c) => HasRow(c.id) /\ package[c.id].file = c.row.file,
           c = Nothing => request[r].file = Nothing /\ ~request[r].removed
    PROVE  PackagesInv'
<1>1. made \in Nat /\ filed \in Nat
  BY AtStage
<1>2. /\ request' \in [PackageHandler -> {Nothing} \cup PackageRequest]
      /\ RequestsFit' /\ OneByOne'
  BY <1>1, RequestGoesOn
<1>3. PackageTypes'
  BY <1>1, <1>2 DEF PackagesInv, PackageTypes
<1>4. /\ RowsFit' /\ (OneRowEach => OneRowEach') /\ \A f : RowsHave(f)' <=> RowsHave(f)
      /\ \A p : HasRow(p)' <=> HasRow(p)
  BY <1>1, RowsUntouched DEF RowsSame
<1>5. ASSUME ~together PROVE FilesHold'
  <2>1. /\ FilesHold
        /\ RowsStay' <=> (c # Nothing /\ Replaces(c) =>
                             package'[c.id] # Nothing /\ package'[c.id].file = c.row.file)
        /\ \A f : Brought(f) <=> request[r].file = f
        /\ \A f : TakenAway(f) <=> request[r].removed /\ request[r].row.file = f
        /\ \A f : Brought(f)' <=> c # Nothing /\ c.file = f
        /\ \A f : TakenAway(f)' <=> c # Nothing /\ c.removed /\ c.row.file = f
    BY <1>5, TheOnlyRequest
  <2>2. RowsStay'
    BY <2>1 DEF HasRow
  <2>3. \A f \in 1 .. filed : (Brought(f)' <=> Brought(f)) /\ (TakenAway(f)' <=> TakenAway(f))
    BY <1>1, <2>1, PackageConstants
  <2>4. FilesMatch' /\ NewFiles'
    BY <1>4, <2>1, <2>3 DEF FilesHold, FilesMatch, NewFiles
  <2> QED
    BY <1>4, <2>1, <2>2, <2>4 DEF FilesHold
<1> QED
  BY <1>2, <1>3, <1>4, <1>5 DEF PackagesInv

LEMMA StorePackageKeeps ==
    ASSUME PackagesInv, NEW r \in PackageHandler, UnderWay(r), StorePackage(r) PROVE PackagesInv'
<1>a. PICK new : new = filed + 1
  OBVIOUS
<1>b. PICK c : c = [request[r] EXCEPT !.file = new,
                                    !.pc = CASE request[r].kind = "upload" -> "insert"
                                             [] request[r].kind = "version" -> "current"
                                             [] request[r].kind = "update" -> "overwrite"]
  OBVIOUS
<1>1. /\ request[r].pc = "store" /\ filed < MaxFiles /\ filed' = new /\ Proceeds(r, c)
      /\ packageFiles' = packageFiles \cup {new}
      /\ UNCHANGED <<package, made, announced, called, shared, astray, together>>
  BY <1>a, <1>b DEF StorePackage
<1>2. /\ made \in Nat /\ filed \in Nat /\ request[r] \in PackageRequest
      /\ RequestFits(request[r], made, filed) /\ new \in Nat /\ filed < new
      /\ \A f \in 1 .. new : f \in 1 .. filed \/ f = new
  BY <1>a, AtStage
<1>3. /\ c \in PackageRequest /\ c.file = new /\ c.removed = request[r].removed
      /\ c.row = request[r].row /\ c.id = request[r].id /\ c.kind = request[r].kind
      /\ c.version = request[r].version
      /\ \/ request[r].kind = "upload" /\ c.pc = "insert"
         \/ request[r].kind = "version" /\ c.pc = "current"
         \/ request[r].kind = "update" /\ c.pc = "overwrite"
  BY <1>1, <1>2, <1>b, ZenonT(60) DEF PackageRequest, RequestFits, StageOf
<1>4. RequestFits(c, made, new) /\ (Replaces(c) => Replaces(request[r]))
  BY <1>1, <1>2, <1>3 DEF RequestFits, StageOf, HasFile, HasRowOf, Replaces
<1>5. /\ request' \in [PackageHandler -> {Nothing} \cup PackageRequest]
      /\ RequestsFit' /\ OneByOne'
  BY <1>1, <1>2, <1>3, <1>4, RequestGoesOn
<1>6. PackageTypes'
  <2>1. /\ new \in 0 .. MaxFiles /\ 1 .. filed \subseteq 1 .. new /\ new \in 1 .. new
    BY <1>1, <1>2, <1>a, PackageConstants
  <2> QED
    BY ONLY <1>1, <1>5, <2>1, PackagesInv DEF PackagesInv, PackageTypes
<1>7. /\ RowsFit' /\ (OneRowEach => OneRowEach') /\ \A f : RowsHave(f)' <=> RowsHave(f)
      /\ \A p : HasRow(p)' <=> HasRow(p)
  BY <1>1, <1>2, RowsUntouched DEF RowsSame
<1>8. ASSUME ~together PROVE FilesHold'
  <2>1. /\ FilesHold
        /\ RowsStay' <=> (c # Nothing /\ Replaces(c) =>
                             package'[c.id] # Nothing /\ package'[c.id].file = c.row.file)
        /\ \A f : Brought(f) <=> request[r].file = f
        /\ \A f : TakenAway(f) <=> request[r].removed /\ request[r].row.file = f
        /\ \A f : Brought(f)' <=> c # Nothing /\ c.file = f
        /\ \A f : TakenAway(f)' <=> c # Nothing /\ c.removed /\ c.row.file = f
    BY <1>1, <1>3, <1>8, TheOnlyRequest
  <2>2. c # Nothing /\ request[r].file = Nothing
    BY <1>1, <1>2, <1>3, PackageConstants DEF RequestFits, HasFile
  <2>3. RowsStay'
    <3>1. Replaces(c) => HasRow(c.id) /\ package[c.id].file = c.row.file
      BY <1>3, <1>4, <2>1 DEF FilesHold, RowsStay
    <3> QED
      BY <1>1, <2>1, <3>1 DEF HasRow
  <2>4. \A f \in 1 .. filed : ~Brought(f) /\ ~Brought(f)' /\ (TakenAway(f)' <=> TakenAway(f))
    BY <1>2, <1>3, <2>1, <2>2, PackageConstants
  <2>5. Brought(new)' /\ ~RowsHave(new)
    <3>1. new \notin 1 .. filed /\ \A p \in Packages : package[p].file \in 1 .. filed
      BY <1>2 DEF PackagesInv, RowsFit
    <3> QED
      BY <1>3, <2>1, <2>2, <3>1 DEF RowsHave
  <2>6. \A f \in 1 .. new : f \in 1 .. filed \/ f = new
    BY <1>2
  <2>7. NewFiles'
    BY <1>1, <1>7, <2>4, <2>5, <2>6 DEF NewFiles
  <2>8. FilesMatch'
    <3>1. ASSUME NEW f \in (1 .. new) \ (shared \cup astray)
          PROVE  f \in packageFiles' <=> Brought(f)' \/ (RowsHave(f) /\ ~TakenAway(f)')
      <4>1. CASE f = new
        BY <1>1, <2>5, <4>1
      <4>2. CASE f \in 1 .. filed /\ f # new
        BY <1>1, <2>1, <2>4, <4>2 DEF FilesHold, FilesMatch
      <4> QED
        BY <2>6, <4>1, <4>2
    <3> QED
      BY <1>1, <1>7, <3>1 DEF FilesMatch
  <2> QED
    BY <1>7, <2>1, <2>3, <2>7, <2>8 DEF FilesHold
<1> QED
  BY <1>1, <1>5, <1>6, <1>7, <1>8 DEF PackagesInv

LEMMA CurrentKeeps ==
    ASSUME PackagesInv, NEW r \in PackageHandler, UnderWay(r), Current(r) PROVE PackagesInv'
<1>1. /\ request[r].pc = "current"
      /\ UNCHANGED <<package, packageFiles, made, filed, announced, called, shared, together>>
  BY DEF Current
<1>2. CASE Fails(r)
  BY <1>1, <1>2, FailureKeeps
<1>3. CASE ~Fails(r)
  <2> DEFINE id == request[r].id
             c == [request[r] EXCEPT !.pc = "insert", !.version = package[id].version + 1]
  <2>1. HasRow(id) /\ astray' = astray /\ Proceeds(r, c)
    BY <1>3 DEF Current
  <2>2. /\ request[r] \in PackageRequest /\ RequestFits(request[r], made, filed) /\ made \in Nat
    BY AtStage
  <2>3. request[r].kind = "version" /\ id \in 1 .. made /\ ~request[r].removed
    BY <1>1, <2>2 DEF RequestFits, StageOf, Replaces
  <2>4. id \in Packages /\ package[id].version \in 1 .. id /\ package[id].version + 1 \in Nat
    BY <2>1, <2>2, <2>3, AtStage, PackageConstants DEF Packages, PackageId, PackagesInv, RowsFit
  <2>5. /\ c \in PackageRequest /\ c.pc = "insert" /\ c.version = package[id].version + 1
        /\ c.file = request[r].file /\ c.removed = request[r].removed
        /\ c.row = request[r].row /\ c.id = id /\ c.kind = "version"
    BY <2>2, <2>3, <2>4 DEF PackageRequest
  <2> HIDE DEF c
  <2>6. RequestFits(c, made, filed) /\ ~Replaces(c) /\ c # Nothing
    BY <1>1, <2>2, <2>3, <2>4, <2>5, PackageConstants
       DEF RequestFits, StageOf, HasFile, HasRowOf, Replaces
  <2>7. announced' \subseteq 1 .. made
    BY <1>1 DEF PackagesInv, PackageTypes
  <2> QED
    BY <1>1, <2>1, <2>5, <2>6, <2>7, QuietStepKeeps
<1> QED
  BY <1>2, <1>3

LEMMA WalkKeeps ==
    ASSUME PackagesInv, NEW r \in PackageHandler, UnderWay(r), Walk(r) PROVE PackagesInv'
<1>1. /\ request[r].pc = "walk"
      /\ UNCHANGED <<package, packageFiles, made, filed, announced, called, shared, together>>
  BY DEF Walk
<1>2. CASE Fails(r)
  BY <1>1, <1>2, FailureKeeps
<1>3. CASE ~Fails(r)
  <2> DEFINE id == request[r].id
  <2>1. PICK q \in Packages :
          /\ q \in ToSet(ListVersions(id)) /\ astray' = astray
          /\ Proceeds(r, [request[r] EXCEPT !.pc = "insert", !.row = package[q],
                                            !.version = package[id].version + 1])
    BY <1>3 DEF Walk
  <2> DEFINE c == [request[r] EXCEPT !.pc = "insert", !.row = package[q],
                                     !.version = package[id].version + 1]
  <2>2. HasRow(id)
    BY <2>1 DEF ListVersions, ToSet
  <2>3. /\ request[r] \in PackageRequest /\ RequestFits(request[r], made, filed) /\ made \in Nat
    BY AtStage
  <2>4. request[r].kind = "rollback" /\ id \in 1 .. made /\ ~request[r].removed
        /\ request[r].file = Nothing
    BY <1>1, <2>3 DEF RequestFits, StageOf, Replaces, HasFile
  <2>5. id \in Packages /\ package[id].version \in 1 .. id /\ package[id].version + 1 \in Nat
    BY <2>2, <2>3, <2>4, AtStage, PackageConstants DEF Packages, PackageId, PackagesInv, RowsFit
  <2>6. package[q] \in PackageRow /\ package[q].file \in 1 .. filed
    BY <2>1 DEF Packages, HasRow, PackagesInv, PackageTypes, RowsFit
  <2>7. /\ c \in PackageRequest /\ c.pc = "insert" /\ c.version = package[id].version + 1
        /\ c.file = request[r].file /\ c.removed = request[r].removed
        /\ c.row = package[q] /\ c.id = id /\ c.kind = "rollback"
    BY <2>3, <2>4, <2>5, <2>6 DEF PackageRequest
  <2>8. Proceeds(r, c)
    BY <2>1
  <2> HIDE DEF c
  <2>9. RequestFits(c, made, filed) /\ ~Replaces(c) /\ c # Nothing
    BY <1>1, <2>3, <2>4, <2>5, <2>6, <2>7, PackageConstants
       DEF RequestFits, StageOf, HasFile, HasRowOf, Replaces
  <2>10. announced' \subseteq 1 .. made
    BY <1>1 DEF PackagesInv, PackageTypes
  <2> QED
    BY <1>1, <2>1, <2>4, <2>7, <2>8, <2>9, <2>10, QuietStepKeeps
<1> QED
  BY <1>2, <1>3

LEMMA AnnounceVersionKeeps ==
    ASSUME PackagesInv, NEW r \in PackageHandler, UnderWay(r), AnnounceVersion(r) PROVE PackagesInv'
<1>1. /\ request[r].pc = "announce" /\ Proceeds(r, Nothing)
      /\ announced' \subseteq announced \cup {request[r].new}
      /\ UNCHANGED <<package, packageFiles, made, filed, called, shared, astray, together>>
  BY DEF AnnounceVersion
<1>2. RequestFits(request[r], made, filed)
  BY AtStage
<1>3. request[r].file = Nothing /\ ~request[r].removed /\ request[r].new \in 1 .. made
  BY <1>1, <1>2 DEF RequestFits, StageOf, Replaces, HasFile
<1>4. announced' \subseteq 1 .. made
  BY <1>1, <1>3 DEF PackagesInv, PackageTypes
<1> QED
  BY <1>1, <1>3, <1>4, QuietStepKeeps

LEMMA SelectRowKeeps ==
    ASSUME PackagesInv, NEW r \in PackageHandler, UnderWay(r), SelectRow(r) PROVE PackagesInv'
<1> DEFINE id == request[r].id
           c == [request[r] EXCEPT !.pc = "remove", !.row = package[id]]
<1>1. /\ request[r].pc = "select"
      /\ Proceeds(r, IF HasRow(id) THEN c ELSE Nothing)
      /\ UNCHANGED <<package, packageFiles, made, filed, announced, called, shared, astray, together>>
  BY DEF SelectRow
<1>2. request[r] \in PackageRequest /\ RequestFits(request[r], made, filed) /\ made \in Nat
  BY AtStage
<1>3. /\ request[r].kind \in {"update", "delete"} /\ id \in 1 .. made /\ ~request[r].removed
      /\ request[r].file = Nothing
  BY <1>1, <1>2 DEF RequestFits, StageOf, Replaces, HasFile
<1>4. announced' \subseteq 1 .. made
  BY <1>1 DEF PackagesInv, PackageTypes
<1>5. CASE ~HasRow(id)
  BY <1>1, <1>3, <1>4, <1>5, QuietStepKeeps
<1>6. CASE HasRow(id)
  <2>1. id \in Packages
    BY <1>2, <1>3, <1>6, AtStage, PackageConstants DEF Packages, PackageId
  <2>2. package[id] \in PackageRow /\ package[id].file \in 1 .. filed
    BY <2>1 DEF Packages, HasRow, PackagesInv, PackageTypes, RowsFit
  <2>3. /\ c \in PackageRequest /\ c.pc = "remove" /\ c.version = request[r].version
        /\ c.file = request[r].file /\ c.removed = request[r].removed
        /\ c.row = package[id] /\ c.id = id /\ c.kind = request[r].kind
    BY <1>2, <1>3, <2>2 DEF PackageRequest
  <2>4. Proceeds(r, c)
    BY <1>1, <1>6
  <2> HIDE DEF c
  <2>5. RequestFits(c, made, filed) /\ c # Nothing
    BY <1>2, <1>3, <2>2, <2>3, PackageConstants DEF RequestFits, StageOf, HasFile, HasRowOf, Replaces
  <2> QED
    BY <1>1, <1>3, <1>4, <1>6, <2>3, <2>4, <2>5, QuietStepKeeps
<1> QED
  BY <1>5, <1>6

LEMMA RemoveFileKeeps ==
    ASSUME PackagesInv, NEW r \in PackageHandler, UnderWay(r), RemoveFile(r) PROVE PackagesInv'
<1>a. PICK c : c = [request[r] EXCEPT !.removed = TRUE,
                                      !.pc = IF request[r].kind = "update" THEN "store" ELSE "delete"]
  OBVIOUS
<1>1. /\ request[r].pc = "remove" /\ Proceeds(r, c)
      /\ packageFiles' = packageFiles \ {request[r].row.file}
      /\ UNCHANGED <<package, made, filed, announced, called, shared, astray, together>>
  BY <1>a DEF RemoveFile
<1>2. /\ made \in Nat /\ filed \in Nat /\ request[r] \in PackageRequest
      /\ RequestFits(request[r], made, filed)
  BY AtStage
<1>3. /\ request[r].kind \in {"update", "delete"} /\ Replaces(request[r])
      /\ request[r].file = Nothing /\ ~request[r].removed
  BY <1>1, <1>2 DEF RequestFits, StageOf, Replaces, HasFile
<1>4. /\ c \in PackageRequest /\ c.file = request[r].file /\ c.removed
      /\ c.row = request[r].row /\ c.id = request[r].id /\ c.kind = request[r].kind
      /\ c.version = request[r].version
      /\ \/ c.kind = "update" /\ c.pc = "store"
         \/ c.kind = "delete" /\ c.pc = "delete"
  <2>1. request[r].kind = "update" \/ (request[r].kind = "delete" /\ request[r].kind # "update")
    BY <1>3
  <2>2. CASE request[r].kind = "update"
    BY <1>2, <1>a, <2>2, ZenonT(60) DEF PackageRequest
  <2>3. CASE request[r].kind = "delete" /\ request[r].kind # "update"
    BY <1>2, <1>a, <2>3, ZenonT(60) DEF PackageRequest
  <2> QED
    BY <2>1, <2>2, <2>3
<1>5. RequestFits(c, made, filed)
  BY <1>1, <1>2, <1>4 DEF RequestFits, StageOf, HasFile, HasRowOf, Replaces
<1>6. /\ request' \in [PackageHandler -> {Nothing} \cup PackageRequest]
      /\ RequestsFit' /\ OneByOne'
  BY <1>1, <1>2, <1>4, <1>5, RequestGoesOn
<1>7. PackageTypes'
  BY <1>1, <1>6 DEF PackagesInv, PackageTypes
<1>8. /\ RowsFit' /\ (OneRowEach => OneRowEach') /\ \A f : RowsHave(f)' <=> RowsHave(f)
  BY <1>1, <1>2, RowsUntouched DEF RowsSame
<1>9. ASSUME ~together PROVE FilesHold'
  <2>1. /\ FilesHold
        /\ RowsStay' <=> (c # Nothing /\ Replaces(c) =>
                             package'[c.id] # Nothing /\ package'[c.id].file = c.row.file)
        /\ \A f : Brought(f) <=> request[r].file = f
        /\ \A f : TakenAway(f) <=> request[r].removed /\ request[r].row.file = f
        /\ \A f : Brought(f)' <=> c # Nothing /\ c.file = f
        /\ \A f : TakenAway(f)' <=> c # Nothing /\ c.removed /\ c.row.file = f
    BY <1>1, <1>4, <1>9, TheOnlyRequest
  <2>2. RowsStay'
    <3>1. HasRow(c.id) /\ package[c.id].file = c.row.file
      BY <1>3, <1>4, <2>1 DEF FilesHold, RowsStay
    <3> QED
      BY <1>1, <2>1, <3>1 DEF HasRow
  <2>3. \A f \in 1 .. filed : /\ ~Brought(f) /\ ~Brought(f)' /\ ~TakenAway(f)
                              /\ TakenAway(f)' <=> f = request[r].row.file
    BY <1>3, <1>4, <2>1, PackageConstants
  <2>4. FilesMatch'
    BY <1>1, <1>8, <2>1, <2>3 DEF FilesHold, FilesMatch
  <2>5. NewFiles'
    BY <1>1, <2>3 DEF NewFiles
  <2> QED
    BY <1>8, <2>1, <2>2, <2>4, <2>5 DEF FilesHold
<1> QED
  BY <1>1, <1>6, <1>7, <1>8, <1>9 DEF PackagesInv

LEMMA OverwriteKeeps ==
    ASSUME PackagesInv, NEW r \in PackageHandler, UnderWay(r), Overwrite(r) PROVE PackagesInv'
<1>1. /\ request[r].pc = "overwrite"
      /\ UNCHANGED <<packageFiles, made, filed, announced, called, shared, together>>
  BY DEF Overwrite
<1>2. CASE Fails(r) /\ package' = package
  BY <1>1, <1>2, FailureKeeps
<1>3. CASE ~(Fails(r) /\ package' = package)
  <2>1. PICK id, new : id = request[r].id /\ new = request[r].file
    OBVIOUS
  <2>2. /\ HasRow(id) /\ Proceeds(r, Nothing) /\ astray' = astray
        /\ package' = [package EXCEPT ![id] = [package[id] EXCEPT !.file = new]]
    BY <1>3, <2>1 DEF Overwrite, Overwritten
  <2>3. /\ made \in Nat /\ filed \in Nat /\ made <= MaxPackages
        /\ request[r] \in PackageRequest /\ RequestFits(request[r], made, filed)
    BY AtStage
  <2>4. /\ request[r].kind = "update" /\ id \in 1 .. made /\ request[r].removed
        /\ Replaces(request[r]) /\ new \in 1 .. filed
    BY <1>1, <2>1, <2>3 DEF RequestFits, StageOf, Replaces, HasFile
  <2>5. id \in Packages /\ id \in PackageId
    BY <2>2, <2>3, <2>4, PackageConstants DEF Packages, PackageId
  <2>6. /\ package \in [PackageId -> {Nothing} \cup PackageRow] /\ package[id] \in PackageRow
    BY <2>2, <2>5 DEF HasRow, PackagesInv, PackageTypes
  <2>7. /\ package' \in [PackageId -> {Nothing} \cup PackageRow]
        /\ package'[id] \in PackageRow /\ package'[id].file = new
        /\ package'[id].version = package[id].version /\ package'[id].previous = package[id].previous
        /\ \A p \in PackageId \ {id} : package'[p] = package[p]
    BY <2>2, <2>4, <2>5, <2>6 DEF PackageRow
  <2>8. Packages' = Packages /\ Packages \subseteq PackageId
    BY <2>2, <2>5, <2>7, PackageConstants DEF Packages, HasRow
  <2>9. /\ request' \in [PackageHandler -> {Nothing} \cup PackageRequest]
        /\ RequestsFit' /\ OneByOne'
    BY <1>1, <2>2, <2>3, RequestGoesOn
  <2>10. PackageTypes'
    BY <1>1, <2>2, <2>7, <2>9 DEF PackagesInv, PackageTypes
  <2>11. RowsFit'
    BY <1>1, <2>4, <2>5, <2>7, <2>8 DEF PackagesInv, RowsFit
  <2>12. ASSUME ~together PROVE FilesHold'
    <3>1. /\ FilesHold /\ RowsStay'
          /\ \A f : Brought(f) <=> request[r].file = f
          /\ \A f : TakenAway(f) <=> request[r].removed /\ request[r].row.file = f
          /\ \A f : ~Brought(f)' /\ ~TakenAway(f)'
      BY <2>2, <2>12, TheOnlyRequest
    <3>2. package[id].file = request[r].row.file /\ ~RowsHave(new)
      BY <2>1, <2>4, <3>1 DEF FilesHold, RowsStay, NewFiles
    <3>3. \A p \in Packages \ {id} : package[p].file # new
      BY <3>2 DEF RowsHave
    <3>4. OneRowEach'
      <4> SUFFICES ASSUME NEW p \in Packages, NEW q \in Packages, p # q,
                          package'[p].file = package'[q].file
                   PROVE  package'[p].file \in shared'
        BY <2>8 DEF OneRowEach
      <4>1. p # id /\ q # id
        BY <2>7, <2>8, <3>3
      <4>2. package'[p] = package[p] /\ package'[q] = package[q]
        BY <2>7, <2>8, <4>1
      <4> QED
        BY <1>1, <3>1, <4>2 DEF FilesHold, OneRowEach
    <3>5. ASSUME NEW f \in (1 .. filed) \ (shared \cup astray)
          PROVE  f \in packageFiles <=> RowsHave(f)'
      <4>1. f \in packageFiles <=> f = new \/ (RowsHave(f) /\ f # package[id].file)
        BY <2>1, <2>4, <3>1, <3>2 DEF FilesHold, FilesMatch
      <4>2. CASE f = new
        <5>1. RowsHave(f)'
          BY <2>5, <2>7, <2>8, <4>2 DEF RowsHave
        <5> QED
          BY <4>1, <4>2, <5>1
      <4>3. CASE f # new
        <5>1. RowsHave(f)' <=> \E p \in Packages \ {id} : package[p].file = f
          BY <2>7, <2>8, <4>3 DEF RowsHave
        <5>2. RowsHave(f) /\ f # package[id].file => \E p \in Packages \ {id} : package[p].file = f
          BY DEF RowsHave
        <5>3. (\E p \in Packages \ {id} : package[p].file = f) =>
                 RowsHave(f) /\ f # package[id].file
          BY <2>5, <3>1 DEF RowsHave, FilesHold, OneRowEach
        <5> QED
          BY <4>1, <4>3, <5>1, <5>2, <5>3
      <4> QED
        BY <4>2, <4>3
    <3>6. FilesMatch' /\ NewFiles'
      BY <1>1, <2>2, <3>1, <3>5 DEF FilesMatch, NewFiles
    <3> QED
      BY <3>1, <3>4, <3>6 DEF FilesHold
  <2> QED
    BY <1>1, <2>9, <2>10, <2>11, <2>12 DEF PackagesInv
<1> QED
  BY <1>2, <1>3

LEMMA DeleteRowKeeps ==
    ASSUME PackagesInv, NEW r \in PackageHandler, UnderWay(r), DeleteRow(r) PROVE PackagesInv'
<1>a. PICK id : id = request[r].id
  OBVIOUS
<1>1. /\ request[r].pc = "delete" /\ Proceeds(r, Nothing)
      /\ package' = [q \in PackageId |-> IF q = id \/ ~HasRow(q) THEN Nothing ELSE Orphaned(q, id)]
      /\ UNCHANGED <<packageFiles, made, filed, announced, called, shared, astray, together>>
  BY <1>a DEF DeleteRow
<1>2. /\ made \in Nat /\ filed \in Nat /\ RequestFits(request[r], made, filed)
      /\ package \in [PackageId -> {Nothing} \cup PackageRow]
  BY AtStage DEF PackagesInv, PackageTypes
<1>3. request[r].removed /\ Replaces(request[r]) /\ request[r].file = Nothing
  BY <1>1, <1>2 DEF RequestFits, StageOf, Replaces, HasFile
<1>4. ASSUME NEW q \in Packages, q # id
      PROVE  /\ package'[q] \in PackageRow /\ package'[q] # Nothing
             /\ package'[q].file = package[q].file /\ package'[q].version = package[q].version
             /\ package'[q].previous = IF package[q].previous = id THEN Nothing ELSE package[q].previous
  <2>1. package[q] \in PackageRow /\ HasRow(q) /\ q \in PackageId
    BY <1>2 DEF Packages, HasRow
  <2>2. package'[q] = IF package[q].previous = id THEN [package[q] EXCEPT !.previous = Nothing]
                      ELSE package[q]
    BY <1>1, <1>4, <2>1 DEF Orphaned
  <2> QED
    BY <2>1, <2>2, PackageConstants DEF PackageRow
<1>5. Packages' = Packages \ {id}
  <2>1. \A q \in PackageId : package'[q] # Nothing => q # id /\ HasRow(q)
    BY <1>1
  <2> QED
    BY <1>4, <2>1 DEF Packages, HasRow
<1>6. package' \in [PackageId -> {Nothing} \cup PackageRow]
  <2>1. \A q \in PackageId : package'[q] \in {Nothing} \cup PackageRow
    BY <1>1, <1>4, <1>5 DEF Packages, HasRow
  <2> QED
    BY <1>1, <2>1
<1>7. /\ request' \in [PackageHandler -> {Nothing} \cup PackageRequest]
      /\ RequestsFit' /\ OneByOne'
  BY <1>1, <1>2, RequestGoesOn
<1>8. PackageTypes'
  BY <1>1, <1>6, <1>7 DEF PackagesInv, PackageTypes
<1>9. RowsFit'
  <2>1. ASSUME NEW q \in Packages, q # id
        PROVE  /\ q <= made' /\ package'[q].file \in 1 .. filed' /\ package'[q].version \in 1 .. q
               /\ package'[q].previous # Nothing =>
                     package'[q].previous \in Packages' /\ package'[q].previous < q
    BY <1>1, <1>4, <1>5, <2>1 DEF PackagesInv, RowsFit
  <2> QED
    BY <1>5, <2>1 DEF RowsFit
<1>10. ASSUME ~together PROVE FilesHold'
  <2>1. /\ FilesHold /\ RowsStay'
        /\ \A f : Brought(f) <=> request[r].file = f
        /\ \A f : TakenAway(f) <=> request[r].removed /\ request[r].row.file = f
        /\ \A f : ~Brought(f)' /\ ~TakenAway(f)'
    BY <1>1, <1>10, TheOnlyRequest
  <2>2. id \in Packages /\ package[id].file = request[r].row.file
    <3>1. HasRow(id) /\ package[id].file = request[r].row.file
      BY <1>a, <1>3, <2>1 DEF FilesHold, RowsStay
    <3>2. id \in 1 .. made /\ made <= MaxPackages
      BY <1>a, <1>1, <1>2, AtStage DEF RequestFits, StageOf
    <3> QED
      BY <1>2, <3>1, <3>2, PackageConstants DEF Packages, PackageId
  <2>3. OneRowEach'
    BY <1>1, <1>4, <1>5, <2>1 DEF FilesHold, OneRowEach
  <2>4. ASSUME NEW f \in (1 .. filed) \ (shared \cup astray)
        PROVE  f \in packageFiles <=> RowsHave(f)'
    <3>1. f \in packageFiles <=> RowsHave(f) /\ f # package[id].file
      BY <1>3, <2>1, <2>2, PackageConstants DEF FilesHold, FilesMatch
    <3>2. RowsHave(f)' <=> \E p \in Packages \ {id} : package[p].file = f
      BY <1>4, <1>5 DEF RowsHave
    <3>3. RowsHave(f) /\ f # package[id].file => \E p \in Packages \ {id} : package[p].file = f
      BY DEF RowsHave
    <3>4. (\E p \in Packages \ {id} : package[p].file = f) => RowsHave(f) /\ f # package[id].file
      BY <2>1, <2>2 DEF RowsHave, FilesHold, OneRowEach
    <3> QED
      BY <3>1, <3>2, <3>3, <3>4
  <2>5. FilesMatch' /\ NewFiles'
    BY <1>1, <2>1, <2>4 DEF FilesMatch, NewFiles
  <2> QED
    BY <2>1, <2>3, <2>5 DEF FilesHold
<1> QED
  BY <1>1, <1>7, <1>8, <1>9, <1>10 DEF PackagesInv

LEMMA InsertRowKeeps ==
    ASSUME PackagesInv, NEW r \in PackageHandler, UnderWay(r), InsertRow(r) PROVE PackagesInv'
<1>1. /\ request[r].pc = "insert" /\ made < MaxPackages
      /\ UNCHANGED <<packageFiles, filed, called, together>>
  BY DEF InsertRow
<1>2. CASE Fails(r) /\ UNCHANGED <<package, made, announced, shared>>
  BY <1>1, <1>2, FailureKeeps
<1>3. CASE ~(Fails(r) /\ UNCHANGED <<package, made, announced, shared>>)
  <2>a. PICK id, new, file :
          /\ id = request[r].id /\ new = made + 1
          /\ file = IF request[r].kind = "rollback" THEN request[r].row.file ELSE request[r].file
    OBVIOUS
  <2>b. PICK c : c = IF request[r].kind = "upload" THEN Nothing
                     ELSE [request[r] EXCEPT !.pc = "announce", !.new = new, !.file = Nothing]
    OBVIOUS
  <2>c. PICK added : added = [file |-> file, version |-> request[r].version, previous |-> id]
    OBVIOUS
  <2>1. /\ id \in {Nothing} \cup Packages /\ made' = new /\ Proceeds(r, c)
        /\ package' = [package EXCEPT ![new] = added]
        /\ shared' = IF request[r].kind = "rollback" THEN shared \cup {file} ELSE shared
        /\ UNCHANGED <<announced, astray>>
    BY <1>3, <2>a, <2>b, <2>c DEF InsertRow
  <2>2. /\ made \in Nat /\ filed \in Nat /\ new \in Nat /\ made < new /\ new \in PackageId
        /\ request[r] \in PackageRequest /\ RequestFits(request[r], made, filed)
    BY <1>1, <2>a, AtStage, PackageConstants DEF PackageId
  <2>3. /\ request[r].kind \in {"upload", "version", "rollback"} /\ ~request[r].removed
        /\ file \in 1 .. filed
        /\ IF request[r].kind = "rollback" THEN request[r].file = Nothing
           ELSE file = request[r].file
        /\ request[r].version \in 1 .. new /\ (id # Nothing => id < new)
    <3>1. /\ request[r].kind \in {"upload", "version", "rollback"} /\ ~request[r].removed
          /\ file \in 1 .. filed
          /\ IF request[r].kind = "rollback" THEN request[r].file = Nothing
             ELSE file = request[r].file
      BY <1>1, <2>2, <2>a DEF RequestFits, StageOf, Replaces, HasFile, HasRowOf
    <3>2. CASE request[r].kind = "upload"
      BY <2>2, <2>a, <3>1, <3>2 DEF RequestFits
    <3>3. CASE request[r].kind # "upload"
      <4>1. id \in 1 .. made /\ request[r].version \in 1 .. id + 1
        BY <1>1, <2>2, <2>a, <3>3 DEF RequestFits
      <4> QED
        BY <2>2, <2>a, <3>1, <4>1
    <3> QED
      BY <3>2, <3>3
  <2>4. c \in {Nothing} \cup PackageRequest /\ (c # Nothing => RequestFits(c, new, filed))
    <3>1. CASE request[r].kind = "upload"
      BY <2>b, <3>1
    <3>2. CASE request[r].kind # "upload"
      <4>1. /\ c \in PackageRequest /\ c.pc = "announce" /\ c.new = new /\ c.file = Nothing
            /\ c.removed = request[r].removed /\ c.row = request[r].row /\ c.id = id
            /\ c.kind = request[r].kind
        BY <2>2, <2>a, <2>b, <3>2 DEF PackageRequest
      <4> QED
        BY <1>1, <2>2, <2>3, <2>a, <3>2, <4>1, PackageConstants
           DEF RequestFits, StageOf, HasFile, HasRowOf, Replaces
    <3> QED
      BY <3>1, <3>2
  <2>5. c # Nothing => c.file = Nothing /\ ~c.removed /\ ~Replaces(c)
    BY <2>2, <2>3, <2>b DEF PackageRequest, Replaces
  <2>6. /\ request' \in [PackageHandler -> {Nothing} \cup PackageRequest]
        /\ RequestsFit' /\ OneByOne'
    BY <1>1, <2>1, <2>2, <2>4, RequestGoesOn
  <2>7. /\ added \in PackageRow /\ added.file = file /\ added.version = request[r].version
        /\ added.previous = id
    BY <2>1, <2>2, <2>3, <2>c, PackageConstants DEF PackageRow, Packages, PackageId
  <2>8. /\ package' \in [PackageId -> {Nothing} \cup PackageRow] /\ package'[new] = added
        /\ \A p \in PackageId \ {new} : package'[p] = package[p]
        /\ Packages' = Packages \cup {new} /\ new \notin Packages
    <3>1. /\ package' \in [PackageId -> {Nothing} \cup PackageRow] /\ package'[new] = added
          /\ \A p \in PackageId \ {new} : package'[p] = package[p]
      BY <2>1, <2>2, <2>7 DEF PackagesInv, PackageTypes
    <3>2. new \notin Packages
      BY <2>2 DEF PackagesInv, RowsFit, Packages, PackageId
    <3>3. added # Nothing
      BY <2>7, PackageConstants
    <3> QED
      BY <2>2, <3>1, <3>2, <3>3 DEF Packages, HasRow
  <2>9. PackageTypes'
    <3>1. /\ new \in 0 .. MaxPackages /\ shared' \subseteq 1 .. filed /\ announced \subseteq 1 .. new
      <4>1. new \in 0 .. MaxPackages /\ 1 .. made \subseteq 1 .. new
        BY <1>1, <2>2, <2>a, PackageConstants
      <4>2. shared \subseteq 1 .. filed /\ announced \subseteq 1 .. made
        BY DEF PackagesInv, PackageTypes
      <4> QED
        BY <2>1, <2>3, <4>1, <4>2
    <3> QED
      BY <1>1, <2>1, <2>6, <2>8, <3>1 DEF PackagesInv, PackageTypes
  <2>10. RowsFit'
    <3>1. ASSUME NEW p \in Packages
          PROVE  /\ p <= new /\ package'[p] = package[p] /\ p \in PackageId
      BY <2>2, <2>8 DEF PackagesInv, RowsFit, Packages, PackageId
    <3>2. ASSUME NEW p \in Packages'
          PROVE  /\ p <= new /\ package'[p].file \in 1 .. filed /\ package'[p].version \in 1 .. p
                 /\ package'[p].previous # Nothing =>
                       package'[p].previous \in Packages' /\ package'[p].previous < p
      <4>1. CASE p = new
        BY <2>1, <2>2, <2>3, <2>7, <2>8, <4>1
      <4>2. CASE p \in Packages
        BY <2>8, <3>1, <4>2 DEF PackagesInv, RowsFit
      <4> QED
        BY <2>8, <4>1, <4>2
    <3> QED
      BY <1>1, <2>1, <3>2 DEF RowsFit
  <2>11. ASSUME ~together PROVE FilesHold'
    <3>1. /\ FilesHold
          /\ RowsStay' <=> (c # Nothing /\ Replaces(c) =>
                               package'[c.id] # Nothing /\ package'[c.id].file = c.row.file)
          /\ \A f : Brought(f) <=> request[r].file = f
          /\ \A f : TakenAway(f) <=> request[r].removed /\ request[r].row.file = f
          /\ \A f : Brought(f)' <=> c # Nothing /\ c.file = f
          /\ \A f : TakenAway(f)' <=> c # Nothing /\ c.removed /\ c.row.file = f
      BY <2>1, <2>4, <2>11, TheOnlyRequest
    <3>2. RowsStay' /\ \A f \in 1 .. filed : ~Brought(f)' /\ ~TakenAway(f)' /\ ~TakenAway(f)
      BY <2>3, <2>5, <3>1, PackageConstants
    <3>3. \A f : RowsHave(f)' <=> RowsHave(f) \/ f = file
      <4>1. \A p \in Packages : package'[p] = package[p]
        BY <2>8 DEF Packages
      <4> QED
        BY <2>7, <2>8, <4>1 DEF RowsHave
    <3>4. \A f \in 1 .. filed : Brought(f) => f = file /\ request[r].kind # "rollback"
      BY <2>3, <3>1, PackageConstants
    <3>5. request[r].kind # "rollback" => Brought(file) /\ ~RowsHave(file)
      BY <2>3, <3>1 DEF FilesHold, NewFiles
    <3>6. ASSUME NEW f \in (1 .. filed) \ (shared' \cup astray)
          PROVE  f \in packageFiles <=> RowsHave(f)'
      <4>1. f \in packageFiles <=> Brought(f) \/ RowsHave(f)
        BY <2>1, <3>1, <3>2 DEF FilesHold, FilesMatch
      <4>2. f = file => request[r].kind # "rollback"
        BY <2>1
      <4> QED
        BY <3>3, <3>4, <3>5, <4>1, <4>2
    <3>7. FilesMatch' /\ NewFiles'
      BY <1>1, <2>1, <3>2, <3>6 DEF FilesMatch, NewFiles
    <3>8. OneRowEach'
      <4>1. ASSUME NEW p \in Packages, package[p].file = file PROVE file \in shared'
        BY <2>1, <3>5, <4>1 DEF RowsHave
      <4>2. \A p \in Packages : package'[p] = package[p] /\ p # new
        BY <2>8 DEF Packages
      <4> QED
        BY <2>1, <2>7, <2>8, <3>1, <4>1, <4>2 DEF FilesHold, OneRowEach
    <3> QED
      BY <3>2, <3>7, <3>8 DEF FilesHold
  <2> QED
    BY <1>1, <2>6, <2>9, <2>10, <2>11 DEF PackagesInv
<1> QED
  BY <1>2, <1>3

\* A request begins: with the first, nothing else is under way.
LEMMA AcceptKeeps ==
    ASSUME PackagesInv, NEW r \in PackageHandler, NEW c \in PackageRequest, Accept(r, c),
           RequestFits(c, made, filed), c.pc \in {"store", "select", "walk"},
           c.kind = "update" => c.pc = "select"
    PROVE  PackagesInv'
<1>1. /\ request[r] = Nothing /\ called < MaxCalls /\ called' = called + 1
      /\ together' = (together \/ \E o \in PackageHandler \ {r} : request[o] # Nothing)
      /\ Proceeds(r, c)
      /\ UNCHANGED <<package, packageFiles, made, filed, announced, shared, astray>>
  BY DEF Accept
<1>2. request \in [PackageHandler -> {Nothing} \cup PackageRequest] /\ called \in Nat
  BY PackageConstants DEF PackagesInv, PackageTypes
<1>3. /\ request' \in [PackageHandler -> {Nothing} \cup PackageRequest]
      /\ request'[r] = c /\ \A o \in PackageHandler \ {r} : request'[o] = request[o]
  BY <1>1, <1>2 DEF Proceeds
<1>4. called' \in 0 .. MaxCalls /\ together' \in BOOLEAN
  BY <1>1, <1>2, PackageConstants DEF PackagesInv, PackageTypes
<1>5. PackageTypes'
  BY <1>1, <1>3, <1>4 DEF PackagesInv, PackageTypes
<1>6. RequestsFit'
  BY <1>1, <1>3 DEF PackagesInv, RequestsFit, UnderWay
<1>7. made \in Nat /\ filed \in Nat
  BY PackageConstants DEF PackagesInv, PackageTypes
<1>8. /\ RowsFit' /\ (OneRowEach => OneRowEach') /\ \A f : RowsHave(f)' <=> RowsHave(f)
  BY <1>1, <1>7, RowsUntouched DEF RowsSame
<1>9. ASSUME ~together' PROVE FilesHold' /\ \A o \in PackageHandler : UnderWay(o)' => o = r
  <2>1. ~together /\ \A o \in PackageHandler : request[o] = Nothing
    BY <1>1, <1>9
  <2>2. \A o \in PackageHandler : UnderWay(o)' => o = r
    BY <1>3, <2>1 DEF UnderWay
  <2>3. c.file = Nothing /\ ~c.removed /\ ~Replaces(c)
    BY DEF RequestFits, HasFile, Replaces, StageOf
  <2>4. \A f : ~Brought(f) /\ ~TakenAway(f)
    BY <2>1 DEF Brought, TakenAway, UnderWay
  <2>5. \A f \in 1 .. filed : ~Brought(f)' /\ ~TakenAway(f)'
    BY <1>3, <2>2, <2>3, PackageConstants DEF Brought, TakenAway
  <2>6. RowsStay'
    BY <1>3, <2>2, <2>3 DEF RowsStay
  <2>7. FilesMatch' /\ NewFiles'
    BY <1>1, <1>8, <2>1, <2>4, <2>5 DEF PackagesInv, FilesHold, FilesMatch, NewFiles
  <2>8. OneRowEach'
    BY <1>8, <2>1 DEF PackagesInv, FilesHold
  <2> QED
    BY <2>2, <2>6, <2>7, <2>8 DEF FilesHold
<1>10. OneByOne'
  BY <1>9 DEF OneByOne
<1> QED
  BY <1>5, <1>6, <1>8, <1>9, <1>10 DEF PackagesInv

LEMMA HandleRequestKeeps ==
    ASSUME PackagesInv, NEW r \in PackageHandler, HandleRequest(r) PROVE PackagesInv'
<1>1. made \in Nat /\ filed \in Nat
  BY PackageConstants DEF PackagesInv, PackageTypes
<1>2. CASE UploadPackage(r)
  <2>1. PICK c : c = NewRequest("upload", "store", Nothing)
    OBVIOUS
  <2>2. /\ c \in PackageRequest /\ RequestFits(c, made, filed) /\ c.pc = "store"
        /\ c.kind = "upload"
    BY <2>1 DEF NewRequest, PackageRequest, RequestFits, StageOf, HasFile, HasRowOf, Replaces
  <2> QED
    BY <1>2, <2>1, <2>2, AcceptKeeps DEF UploadPackage
<1>3. CASE CreatePackageVersion(r)
  <2>1. PICK p \in 1 .. made : Accept(r, NewRequest("version", "store", p))
    BY <1>3 DEF CreatePackageVersion
  <2>2. PICK c : c = NewRequest("version", "store", p)
    OBVIOUS
  <2>3. /\ c \in PackageRequest /\ RequestFits(c, made, filed) /\ c.pc = "store"
        /\ c.kind = "version"
    BY <1>1, <2>2 DEF NewRequest, PackageRequest, RequestFits, StageOf, HasFile, HasRowOf, Replaces
  <2> QED
    BY <2>1, <2>2, <2>3, AcceptKeeps
<1>4. CASE UpdatePackage(r) \/ DeletePackage(r)
  <2>1. PICK p \in 1 .. made, kind \in {"update", "delete"} : Accept(r, NewRequest(kind, "select", p))
    BY <1>4 DEF UpdatePackage, DeletePackage
  <2>2. PICK c : c = NewRequest(kind, "select", p)
    OBVIOUS
  <2>3. c \in PackageRequest /\ RequestFits(c, made, filed) /\ c.pc = "select"
    BY <1>1, <2>2 DEF NewRequest, PackageRequest, RequestFits, StageOf, HasFile, HasRowOf, Replaces
  <2> QED
    BY <2>1, <2>2, <2>3, AcceptKeeps
<1>5. CASE RollbackPackageVersion(r)
  <2>1. PICK p \in 1 .. made, v \in 1 .. MaxPackages :
          Accept(r, [NewRequest("rollback", "walk", p) EXCEPT !.target = v])
    BY <1>5 DEF RollbackPackageVersion
  <2>2. PICK c : c = [NewRequest("rollback", "walk", p) EXCEPT !.target = v]
    OBVIOUS
  <2>3. /\ c \in PackageRequest /\ RequestFits(c, made, filed) /\ c.pc = "walk"
        /\ c.kind = "rollback"
    <3>1. v \in Nat
      BY PackageConstants
    <3>2. c = [kind |-> "rollback", pc |-> "walk", id |-> p, version |-> 1, target |-> v,
               row |-> Nothing, file |-> Nothing, removed |-> FALSE, new |-> Nothing]
      BY <2>2 DEF NewRequest
    <3>3. c \in PackageRequest
      BY <1>1, <3>1, <3>2 DEF PackageRequest
    <3> QED
      BY <1>1, <3>2, <3>3 DEF RequestFits, StageOf, HasFile, HasRowOf, Replaces
  <2> QED
    BY <2>1, <2>2, <2>3, AcceptKeeps
<1> QED
  BY <1>2, <1>3, <1>4, <1>5 DEF HandleRequest

LEMMA PackagesStep ==
    ASSUME PackagesInv, [PackagesNext]_packageVars PROVE PackagesInv'
<1>1. CASE UNCHANGED packageVars
  <2>1. UNCHANGED <<package, packageFiles, made, filed, request, announced, called, shared, astray,
                    together>>
    BY <1>1 DEF packageVars
  <2>2. Packages' = Packages /\ \A r : UnderWay(r)' <=> UnderWay(r)
    BY <2>1 DEF Packages, HasRow, UnderWay
  <2>3. PackageTypes' /\ RowsFit' /\ RequestsFit' /\ OneByOne'
    BY <2>1, <2>2 DEF PackagesInv, PackageTypes, RowsFit, RequestsFit, OneByOne
  <2>4. \A f : (RowsHave(f)' <=> RowsHave(f)) /\ (Brought(f)' <=> Brought(f))
               /\ (TakenAway(f)' <=> TakenAway(f))
    BY <2>1, <2>2 DEF RowsHave, Brought, TakenAway
  <2>5. FilesHold => FilesHold'
    BY <2>1, <2>2, <2>4 DEF FilesHold, FilesMatch, NewFiles, OneRowEach, RowsStay, HasRow
  <2> QED
    BY <2>1, <2>3, <2>5 DEF PackagesInv
<1>2. ASSUME NEW r \in PackageHandler, UnderWay(r), RequestStep(r) PROVE PackagesInv'
  <2>1. CASE RequestAborts(r)
    BY <1>2, <2>1, FailureKeeps DEF RequestAborts
  <2> QED
    BY <1>2, <2>1, StorePackageKeeps, CurrentKeeps, WalkKeeps, InsertRowKeeps, AnnounceVersionKeeps,
       SelectRowKeeps, RemoveFileKeeps, OverwriteKeeps, DeleteRowKeeps DEF RequestStep
<1> QED
  BY <1>1, <1>2, HandleRequestKeeps DEF PackagesNext, UnderWay

LEMMA PackagesBegin == PackagesInit => PackagesInv
<1> SUFFICES ASSUME PackagesInit PROVE PackagesInv
  OBVIOUS
<1>1. Packages = {} /\ \A r \in PackageHandler : ~UnderWay(r)
  BY DEF PackagesInit, Packages, HasRow, UnderWay
<1>2. PackageTypes
  <2>1. /\ 0 \in 0 .. MaxPackages /\ 0 \in 0 .. MaxFiles /\ 0 \in 0 .. MaxCalls
        /\ {} \subseteq 1 .. 0 /\ FALSE \in BOOLEAN
    BY PackageConstants
  <2>2. /\ [p \in PackageId |-> Nothing] \in [PackageId -> {Nothing} \cup PackageRow]
        /\ [r \in PackageHandler |-> Nothing] \in [PackageHandler -> {Nothing} \cup PackageRequest]
    OBVIOUS
  <2> QED
    BY <2>1, <2>2 DEF PackagesInit, PackageTypes
<1>3. RowsFit /\ RequestsFit /\ OneByOne
  BY <1>1 DEF RowsFit, RequestsFit, OneByOne
<1>4. FilesHold
  BY <1>1 DEF PackagesInit, FilesHold, FilesMatch, NewFiles, OneRowEach, RowsStay, Brought, RowsHave
<1> QED
  BY <1>2, <1>3, <1>4 DEF PackagesInv

\* Every request fits its stage, and alone it keeps the files with the rows.
LEMMA PackagesInvariance == PackagesSpec => []PackagesInv
BY PackagesBegin, PackagesStep, PTL DEF PackagesSpec

\* For any number of packages, files and requests: the rows have their types and each
\* refers to an older one that is there; and as long as one request comes after the
\* other, a file is stored exactly when a row has it, but for those that a failed
\* request has touched and those that a rollback has given to two rows
\* (upload_package, create_package_version, update_package, delete_package and
\* rollback_package_version).
THEOREM FilesStayWithRows == PackagesSpec => [](PackagesTypeOK /\ FilesMatchRowsAlone)
<1>1. PackagesInv => PackagesTypeOK
  <2> SUFFICES ASSUME PackagesInv PROVE PackagesTypeOK
    OBVIOUS
  <2>1. \A p \in Packages : p \in Nat
    BY DEF Packages, PackageId
  <2>2. \A p \in Packages : package[p].previous # Nothing =>
                               package[p].previous \in Packages \cap 1 .. (p - 1)
    BY <2>1 DEF PackagesInv, RowsFit, Packages, PackageId
  <2> QED
    BY <2>2 DEF PackagesInv, PackageTypes, RowsFit, PackagesTypeOK
<1>2. PackagesInv => FilesMatchRowsAlone
  <2> SUFFICES ASSUME PackagesInv, ~together, \A r \in PackageHandler : request[r] = Nothing
               PROVE  LET left == shared \cup astray IN
                      /\ packageFiles \ left = {package[p].file : p \in Packages} \ left
                      /\ \A p \in Packages : package[p].file \notin left => DownloadPackage(p)
    BY DEF FilesMatchRowsAlone
  <2>1. \A f \in (1 .. filed) \ (shared \cup astray) : f \in packageFiles <=> RowsHave(f)
    BY DEF PackagesInv, FilesHold, FilesMatch, Brought, TakenAway, UnderWay
  <2>2. packageFiles \subseteq 1 .. filed /\ \A p \in Packages : package[p].file \in 1 .. filed
    BY DEF PackagesInv, PackageTypes, RowsFit
  <2> QED
    BY <2>1, <2>2 DEF RowsHave, DownloadPackage, Packages
<1> QED
  BY <1>1, <1>2, PackagesInvariance, PTL

-----------------------------------------------------------------------------
(* The walks along the versions.                                            *)

Follows(p) == HasRow(p) /\ package[p].previous # Nothing
PreviousOf(p) == package[p].previous

\* A row that follows another has the next version number.
VersionsFollow ==
    \A p \in Packages : Follows(p) => package[p].version = package[PreviousOf(p)].version + 1
RequestsNumbered ==
    \A r \in PackageHandler :
        UnderWay(r) /\ request[r].pc = "insert" /\ HasRow(request[r].id) /\ request[r].kind # "upload" =>
            request[r].version = package[request[r].id].version + 1
HistoryInv == PackagesInv /\ VersionsFollow /\ RequestsNumbered

LEMMA AmongPackages ==
    ASSUME PackagesInv
    PROVE  /\ MaxPackages \in Nat /\ PackageId = 1 .. MaxPackages /\ Packages \subseteq PackageId
           /\ \A p \in PackageId : HasRow(p) <=> p \in Packages
           /\ \A p \in PackageId : Follows(p) => /\ p \in Packages /\ PreviousOf(p) \in Packages
                                                /\ PreviousOf(p) \in 1 .. (p - 1)
BY PackageConstants DEF Packages, PackageId, PackagesInv, RowsFit, Follows, PreviousOf

\* The walks exist: the previous row is an older one, a successor a newer one.
LEMMA RootWalk ==
    ASSUME PackagesInv
    PROVE  /\ Root = [p \in PackageId |-> IF Follows(p) THEN Root[PreviousOf(p)] ELSE p]
<1>1. /\ MaxPackages \in Nat /\ PackageId = 1 .. MaxPackages
      /\ \A p \in PackageId : Follows(p) => PreviousOf(p) \in 1 .. (p - 1)
  BY AmongPackages
<1> DEFINE Walked(n) == \E f : f = [p \in 1 .. n |-> IF Follows(p) THEN f[PreviousOf(p)] ELSE p]
           S == {n \in 0 .. MaxPackages : ~Walked(n)}
<1>2. S = {}
  <2> SUFFICES ASSUME S # {} PROVE FALSE
    OBVIOUS
  <2> S \in SUBSET Nat
    BY <1>1
  <2>1. PICK n \in S : \A m \in S : n <= m
    BY Least
  <2>2. n \in 0 .. MaxPackages /\ ~Walked(n)
    OBVIOUS
  <2> HIDE DEF S, Walked
  <2>3. n # 0
    <3>1. CASE n = 0
      <4>1. 1 .. n = {}
        BY <3>1
      <4> DEFINE f == [p \in 1 .. n |-> p]
      <4>2. f = [p \in 1 .. n |-> IF Follows(p) THEN f[PreviousOf(p)] ELSE p]
        BY <4>1
      <4> QED
        BY <2>2, <4>2 DEF Walked
    <3> QED
      BY <3>1
  <2>4. n \in Nat /\ n - 1 \in 0 .. MaxPackages /\ Walked(n - 1)
    BY <1>1, <2>1, <2>2, <2>3 DEF S
  <2>5. PICK f : f = [p \in 1 .. (n - 1) |-> IF Follows(p) THEN f[PreviousOf(p)] ELSE p]
    BY <2>4 DEF Walked
  <2> DEFINE g == [p \in 1 .. n |-> IF Follows(p) THEN f[PreviousOf(p)] ELSE p]
  <2>6. ASSUME NEW p \in 1 .. n, Follows(p) PROVE f[PreviousOf(p)] = g[PreviousOf(p)]
    <3>1. PreviousOf(p) \in 1 .. (p - 1)
      BY <1>1, <2>2, <2>4, <2>6
    <3>2. PreviousOf(p) \in 1 .. (n - 1) /\ PreviousOf(p) \in 1 .. n
      BY <2>4, <3>1
    <3> QED
      BY <2>5, <3>2
  <2>7. g = [p \in 1 .. n |-> IF Follows(p) THEN g[PreviousOf(p)] ELSE p]
    BY <2>6
  <2> HIDE DEF g
  <2> QED
    BY <2>2, <2>7 DEF Walked
<1>3. MaxPackages \in 0 .. MaxPackages
  BY <1>1
<1>4. Walked(MaxPackages)
  BY <1>2, <1>3
<1>5. PICK f : f = [p \in PackageId |-> IF Follows(p) THEN f[PreviousOf(p)] ELSE p]
  BY <1>1, <1>4
<1> QED
  BY <1>5 DEF Root, Follows, PreviousOf

LEMMA EarlierWalk ==
    ASSUME PackagesInv
    PROVE  Earlier = [p \in PackageId |-> {p} \cup IF Follows(p) THEN Earlier[PreviousOf(p)] ELSE {}]
<1>1. /\ MaxPackages \in Nat /\ PackageId = 1 .. MaxPackages
      /\ \A p \in PackageId : Follows(p) => PreviousOf(p) \in 1 .. (p - 1)
  BY AmongPackages
<1> DEFINE Walked(n) ==
             \E f : f = [p \in 1 .. n |-> {p} \cup IF Follows(p) THEN f[PreviousOf(p)] ELSE {}]
           S == {n \in 0 .. MaxPackages : ~Walked(n)}
<1>2. S = {}
  <2> SUFFICES ASSUME S # {} PROVE FALSE
    OBVIOUS
  <2> S \in SUBSET Nat
    BY <1>1
  <2>1. PICK n \in S : \A m \in S : n <= m
    BY Least
  <2>2. n \in 0 .. MaxPackages /\ ~Walked(n)
    OBVIOUS
  <2> HIDE DEF S, Walked
  <2>3. n # 0
    <3>1. CASE n = 0
      <4>1. 1 .. n = {}
        BY <3>1
      <4> DEFINE f == [p \in 1 .. n |-> p]
      <4>2. f = [p \in 1 .. n |-> {p} \cup IF Follows(p) THEN f[PreviousOf(p)] ELSE {}]
        BY <4>1
      <4> QED
        BY <2>2, <4>2 DEF Walked
    <3> QED
      BY <3>1
  <2>4. n \in Nat /\ n - 1 \in 0 .. MaxPackages /\ Walked(n - 1)
    BY <1>1, <2>1, <2>2, <2>3 DEF S
  <2>5. PICK f : f = [p \in 1 .. (n - 1) |-> {p} \cup IF Follows(p) THEN f[PreviousOf(p)] ELSE {}]
    BY <2>4 DEF Walked
  <2> DEFINE g == [p \in 1 .. n |-> {p} \cup IF Follows(p) THEN f[PreviousOf(p)] ELSE {}]
  <2>6. ASSUME NEW p \in 1 .. n, Follows(p) PROVE f[PreviousOf(p)] = g[PreviousOf(p)]
    <3>1. PreviousOf(p) \in 1 .. (p - 1)
      BY <1>1, <2>2, <2>4, <2>6
    <3>2. PreviousOf(p) \in 1 .. (n - 1) /\ PreviousOf(p) \in 1 .. n
      BY <2>4, <3>1
    <3> QED
      BY <2>5, <3>2
  <2>7. g = [p \in 1 .. n |-> {p} \cup IF Follows(p) THEN g[PreviousOf(p)] ELSE {}]
    BY <2>6
  <2> HIDE DEF g
  <2> QED
    BY <2>2, <2>7 DEF Walked
<1>3. MaxPackages \in 0 .. MaxPackages
  BY <1>1
<1>4. Walked(MaxPackages)
  BY <1>2, <1>3
<1>5. PICK f : f = [p \in PackageId |-> {p} \cup IF Follows(p) THEN f[PreviousOf(p)] ELSE {}]
  BY <1>1, <1>4
<1> QED
  BY <1>5 DEF Earlier, Follows, PreviousOf

NextOf(p) == CHOOSE q \in Successors(p) : TRUE
Single(p) == Cardinality(Successors(p)) = 1

LEMMA SuccessorsAhead ==
    ASSUME PackagesInv, NEW p \in PackageId
    PROVE  /\ \A q \in Successors(p) : q \in Packages /\ q \in (p + 1) .. MaxPackages
           /\ Single(p) => Successors(p) = {NextOf(p)}
           /\ Successors(p) = {} <=> Cardinality(Successors(p)) = 0
           /\ Cardinality(Successors(p)) \in Nat
<1>1. \A q \in Successors(p) : q \in Packages /\ q \in (p + 1) .. MaxPackages
  <2> SUFFICES ASSUME NEW q \in Successors(p) PROVE q \in Packages /\ q \in (p + 1) .. MaxPackages
    OBVIOUS
  <2>1. q \in Packages /\ PreviousOf(q) = p
    BY DEF Successors, PreviousOf
  <2>2. Follows(q) /\ q \in PackageId
    BY <2>1, AmongPackages, PackageConstants DEF Follows, PreviousOf
  <2>3. p \in 1 .. (q - 1) /\ q \in 1 .. MaxPackages /\ MaxPackages \in Nat
    BY <2>1, <2>2, AmongPackages
  <2> QED
    BY <2>1, <2>3
<1>2. IsFiniteSet(Successors(p))
  <2>1. IsFiniteSet(1 .. MaxPackages)
    BY AmongPackages, FS_Interval
  <2>2. Successors(p) \subseteq 1 .. MaxPackages
    BY AmongPackages DEF Successors
  <2> QED
    BY <2>1, <2>2, FS_Subset
<1>3. Single(p) => \E q : Successors(p) = {q}
  BY <1>2, FS_Singleton DEF Single
<1> QED
  BY <1>1, <1>2, <1>3, FS_EmptySet, FS_CardinalityType DEF NextOf

LEMMA OnwardWalk ==
    ASSUME PackagesInv
    PROVE  Onward = [p \in PackageId |-> IF Single(p) THEN <<p>> \o Onward[NextOf(p)] ELSE <<p>>]
<1>1. /\ MaxPackages \in Nat /\ PackageId = 1 .. MaxPackages
      /\ \A p \in PackageId : Single(p) => NextOf(p) \in (p + 1) .. MaxPackages
  BY AmongPackages, SuccessorsAhead
<1> DEFINE Walked(n) ==
             \E f : f = [p \in n .. MaxPackages |->
                           IF Single(p) THEN <<p>> \o f[NextOf(p)] ELSE <<p>>]
           S == {n \in 0 .. MaxPackages : n > 0 /\ ~Walked(n)}
<1>2. S = {}
  <2> SUFFICES ASSUME S # {} PROVE FALSE
    OBVIOUS
  <2> S \in SUBSET (0 .. MaxPackages)
    BY <1>1
  <2>1. PICK n \in S : \A m \in S : m <= n
    BY <1>1, MaxOf
  <2>2. n \in 1 .. MaxPackages /\ ~Walked(n)
    BY <1>1, SMTT(60)
  <2> HIDE DEF S, Walked
  <2>3. n \in Nat /\ (n < MaxPackages => Walked(n + 1))
    BY <1>1, <2>1, <2>2 DEF S
  <2>4. PICK f : f = [p \in (n + 1) .. MaxPackages |->
                        IF Single(p) THEN <<p>> \o f[NextOf(p)] ELSE <<p>>]
    <3>1. CASE n < MaxPackages
      BY <2>3, <3>1 DEF Walked
    <3>2. CASE n = MaxPackages
      <4>1. (n + 1) .. MaxPackages = {}
        BY <1>1, <3>2
      <4> DEFINE f == [p \in (n + 1) .. MaxPackages |-> p]
      <4>2. f = [p \in (n + 1) .. MaxPackages |->
                   IF Single(p) THEN <<p>> \o f[NextOf(p)] ELSE <<p>>]
        BY <4>1
      <4> QED
        BY <4>2
    <3> QED
      BY <1>1, <2>2, <3>1, <3>2
  <2> DEFINE g == [p \in n .. MaxPackages |-> IF Single(p) THEN <<p>> \o f[NextOf(p)] ELSE <<p>>]
  <2>5. ASSUME NEW p \in n .. MaxPackages, Single(p) PROVE f[NextOf(p)] = g[NextOf(p)]
    <3>1. NextOf(p) \in (p + 1) .. MaxPackages
      BY <1>1, <2>2, <2>3, <2>5
    <3>2. NextOf(p) \in (n + 1) .. MaxPackages /\ NextOf(p) \in n .. MaxPackages
      BY <1>1, <2>3, <3>1
    <3> QED
      BY <2>4, <3>2
  <2>6. g = [p \in n .. MaxPackages |-> IF Single(p) THEN <<p>> \o g[NextOf(p)] ELSE <<p>>]
    BY <2>5
  <2> HIDE DEF g
  <2> QED
    BY <2>2, <2>6 DEF Walked
<1>3. \E f : f = [p \in PackageId |-> IF Single(p) THEN <<p>> \o f[NextOf(p)] ELSE <<p>>]
  <2>1. CASE MaxPackages = 0
    <3>1. PackageId = {}
      BY <1>1, <2>1
    <3> DEFINE f == [p \in PackageId |-> p]
    <3>2. f = [p \in PackageId |-> IF Single(p) THEN <<p>> \o f[NextOf(p)] ELSE <<p>>]
      BY <3>1
    <3> QED
      BY <3>2
  <2>2. CASE MaxPackages # 0
    <3>1. 1 \in 0 .. MaxPackages
      BY <1>1, <2>2
    <3>2. Walked(1)
      BY <1>2, <3>1
    <3> QED
      BY <1>1, <3>2
  <2> QED
    BY <2>1, <2>2
<1>4. PICK f : f = [p \in PackageId |-> IF Single(p) THEN <<p>> \o f[NextOf(p)] ELSE <<p>>]
  BY <1>3
<1>5. f = [p \in PackageId |-> IF Cardinality(Successors(p)) # 1 THEN <<p>>
                               ELSE <<p>> \o f[CHOOSE q \in Successors(p) : TRUE]]
  BY <1>4 DEF Single, NextOf
<1>6. Onward = [p \in PackageId |-> IF Cardinality(Successors(p)) # 1 THEN <<p>>
                                    ELSE <<p>> \o Onward[CHOOSE q \in Successors(p) : TRUE]]
  BY <1>5 DEF Onward
<1> QED
  BY <1>6 DEF Single, NextOf

\* The packages of one history: those whose walk back ends at the same row.
Lineage(p) == {q \in Packages : Root[q] = Root[p]}

LEMMA RootOfFamily ==
    ASSUME PackagesInv, NEW p \in Packages
    PROVE  /\ Root[p] \in Packages /\ Root[Root[p]] = Root[p]
           /\ Follows(p) => Root[p] = Root[PreviousOf(p)]
           /\ ~Follows(p) => Root[p] = p
<1> DEFINE S == {q \in Packages : ~(Root[q] \in Packages /\ Root[Root[q]] = Root[q])}
<1>1. \A q \in Packages : /\ Follows(q) => Root[q] = Root[PreviousOf(q)]
                          /\ ~Follows(q) => Root[q] = q
  BY RootWalk, AmongPackages
<1>2. S = {}
  <2> SUFFICES ASSUME S # {} PROVE FALSE
    OBVIOUS
  <2>1. S \in SUBSET Nat
    BY AmongPackages
  <2>2. PICK q \in S : \A x \in S : q <= x
    BY <2>1, Least
  <2>3. Follows(q)
    BY <1>1
  <2>4. q \in Nat /\ PreviousOf(q) \in Packages /\ PreviousOf(q) \in 1 .. (q - 1)
    BY <2>1, <2>3, AmongPackages
  <2>5. PreviousOf(q) \notin S
    BY <2>2, <2>4
  <2> QED
    BY <1>1, <2>3, <2>4, <2>5
<1> QED
  BY <1>1, <1>2

LEMMA FamilyCloses ==
    ASSUME PackagesInv, NEW p \in Packages, NEW q \in Lineage(p)
    PROVE  /\ Successors(q) \subseteq Lineage(p)
           /\ Follows(q) => PreviousOf(q) \in Lineage(p)
<1>1. \A x \in Successors(q) : x \in Packages /\ Follows(x) /\ PreviousOf(x) = q
  BY AmongPackages, PackageConstants DEF Successors, Follows, PreviousOf, Lineage, Packages, PackageId
<1> QED
  BY <1>1, RootOfFamily, AmongPackages DEF Lineage

\* The versions one after the other, as the list has them.
IsHistory(h, p) ==
    /\ h \in Seq(Lineage(p)) /\ Len(h) > 0 /\ Successors(h[Len(h)]) = {}
    /\ \A i \in 1 .. Len(h) - 1 : Successors(h[i]) = {h[i + 1]}

\* Where no version has two next ones, the walk onward is such a list.
LEMMA WalkIsHistory ==
    ASSUME PackagesInv, NEW p \in Packages, ~Branched(p), NEW q \in Lineage(p)
    PROVE  IsHistory(Onward[q], p) /\ Onward[q][1] = q
<1> DEFINE S == {x \in Lineage(p) : ~(IsHistory(Onward[x], p) /\ Onward[x][1] = x)}
<1>1. S = {}
  <2> SUFFICES ASSUME S # {} PROVE FALSE
    OBVIOUS
  <2>1. S \in SUBSET (0 .. MaxPackages) /\ MaxPackages \in Nat
    BY AmongPackages DEF Lineage
  <2>2. PICK x \in S : \A y \in S : y <= x
    BY <2>1, MaxOf
  <2>3. x \in Lineage(p) /\ x \in Packages /\ x \in PackageId /\ x \in Nat
    BY AmongPackages DEF Lineage
  <2>4. Cardinality(Successors(x)) \in Nat /\ ~(Cardinality(Successors(x)) > 1)
    BY <2>3, SuccessorsAhead DEF Branched, Lineage
  <2>5. CASE ~Single(x)
    <3>1. Onward[x] = <<x>>
      BY <2>3, <2>5, OnwardWalk
    <3>2. Successors(x) = {}
      BY <2>3, <2>4, <2>5, SuccessorsAhead DEF Single
    <3>3. IsHistory(<<x>>, p)
      BY <2>3, <3>2 DEF IsHistory
    <3> QED
      BY <3>1, <3>3
  <2>6. CASE Single(x)
    <3>1. PICK y : y = NextOf(x)
      OBVIOUS
    <3>2. PICK h : h = Onward[y]
      OBVIOUS
    <3>3. Onward[x] = <<x>> \o h
      BY <2>3, <2>6, <3>1, <3>2, OnwardWalk
    <3>4. Successors(x) = {y} /\ y \in Lineage(p) /\ y > x
      <4>1. Successors(x) = {y} /\ y \in (x + 1) .. MaxPackages
        BY <2>3, <2>6, <3>1, SuccessorsAhead
      <4>2. y \in Lineage(p)
        BY <2>3, <4>1, FamilyCloses
      <4> QED
        BY <2>1, <2>3, <4>1, <4>2
    <3>5. IsHistory(h, p) /\ h[1] = y
      BY <2>2, <2>3, <3>2, <3>4, AmongPackages DEF Lineage
    <3>6. PICK g : g = <<x>> \o h
      OBVIOUS
    <3>7. /\ h \in Seq(Lineage(p)) /\ Len(h) \in Nat /\ Len(h) > 0 /\ g \in Seq(Lineage(p))
          /\ Len(g) = Len(h) + 1 /\ g[1] = x /\ \A i \in 1 .. Len(h) : g[i + 1] = h[i]
      BY <2>3, <3>5, <3>6 DEF IsHistory
    <3>8. Successors(g[Len(g)]) = {}
      BY <3>5, <3>7 DEF IsHistory
    <3>9. ASSUME NEW i \in 1 .. Len(g) - 1 PROVE Successors(g[i]) = {g[i + 1]}
      <4>1. CASE i = 1
        BY <3>4, <3>5, <3>7, <4>1
      <4>2. CASE i # 1
        <5>1. PICK k : k = i - 1
          OBVIOUS
        <5>2. k \in 1 .. Len(h) - 1 /\ i \in 1 .. Len(h) /\ k \in 1 .. Len(h) /\ k + 1 = i
          BY <3>7, <4>2, <5>1
        <5>3. Successors(h[k]) = {h[k + 1]}
          BY <3>5, <5>2 DEF IsHistory
        <5>4. g[i] = h[k] /\ g[i + 1] = h[i]
          BY <3>7, <5>2
        <5> QED
          BY <5>2, <5>3, <5>4
      <4> QED
        BY <4>1, <4>2
    <3>10. g \in Seq(Lineage(p)) /\ Len(g) > 0
      BY <3>7
    <3>11. IsHistory(g, p)
      BY ONLY <3>8, <3>9, <3>10 DEF IsHistory
    <3> QED
      BY <3>3, <3>6, <3>7, <3>11
  <2> QED
    BY <2>5, <2>6
<1> QED
  BY <1>1

\* Along the list the packages are newer and newer, and the versions without a gap.
LEMMA HistoryRises ==
    ASSUME HistoryInv, NEW p \in Packages, NEW h, IsHistory(h, p),
           NEW i \in 1 .. Len(h), NEW j \in 1 .. Len(h), i < j
    PROVE  /\ h[i] < h[j] /\ h[i] \in Nat /\ h[j] \in Nat
           /\ package[h[i]].version \in Nat /\ package[h[j]].version \in Nat
           /\ package[h[j]].version = package[h[i]].version + (j - i)
<1>1. /\ PackagesInv /\ VersionsFollow /\ Len(h) \in Nat
      /\ \A k \in 1 .. Len(h) : h[k] \in Packages /\ h[k] \in Nat /\ package[h[k]].version \in Nat
  <2>1. /\ PackagesInv /\ VersionsFollow /\ h \in Seq(Lineage(p))
    BY DEF HistoryInv, IsHistory
  <2>2. \A x \in Packages : x \in Nat /\ package[x].version \in Nat
    BY <2>1, AmongPackages DEF PackagesInv, RowsFit
  <2> QED
    BY <2>1, <2>2 DEF Lineage
<1>2. ASSUME NEW k \in 1 .. Len(h) - 1
      PROVE  h[k] < h[k + 1] /\ package[h[k + 1]].version = package[h[k]].version + 1
  <2>a. Successors(h[k]) = {h[k + 1]}
    BY DEF IsHistory
  <2>1. k \in 1 .. Len(h) /\ k + 1 \in 1 .. Len(h) /\ h[k + 1] \in Successors(h[k])
    BY <1>1, <2>a
  <2>2. h[k + 1] \in Packages /\ PreviousOf(h[k + 1]) = h[k] /\ Follows(h[k + 1])
    BY <1>1, <2>1, AmongPackages, PackageConstants DEF Successors, Follows, PreviousOf
  <2>3. h[k] \in 1 .. (h[k + 1] - 1)
    BY <1>1, <2>2, AmongPackages
  <2> QED
    BY <1>1, <2>1, <2>2, <2>3 DEF VersionsFollow
<1> DEFINE Rises(k) == h[i] < h[k] /\ package[h[k]].version = package[h[i]].version + (k - i)
           S == {k \in 1 .. Len(h) : i < k /\ ~Rises(k)}
<1>3. S = {}
  <2> SUFFICES ASSUME S # {} PROVE FALSE
    OBVIOUS
  <2>1. S \in SUBSET Nat
    OBVIOUS
  <2>2. PICK k \in S : \A x \in S : k <= x
    BY <2>1, Least
  <2>3. /\ k - 1 \in 1 .. Len(h) - 1 /\ (k - 1) + 1 = k /\ k \in 1 .. Len(h) /\ i < k
        /\ k - 1 \in 1 .. Len(h)
    <3>1. k \in 1 .. Len(h) /\ i < k /\ i \in 1 .. Len(h)
      OBVIOUS
    <3> QED
      BY ONLY <1>1, <3>1
  <2>4. h[k - 1] < h[k] /\ package[h[k]].version = package[h[k - 1]].version + 1
    BY <1>2, <2>3
  <2>5. CASE k - 1 = i
    <3>1. h[i] < h[k] /\ package[h[k]].version = package[h[i]].version + 1
      BY <2>4, <2>5
    <3>2. k - i = 1
      BY <1>1, <2>3, <2>5
    <3>3. Rises(k)
      BY <3>1, <3>2
    <3> QED
      BY <3>3
  <2>6. CASE k - 1 # i
    <3>1. i < k - 1 /\ ~(k <= k - 1)
      BY <1>1, <2>3, <2>6
    <3>2. Rises(k - 1)
      BY <2>2, <2>3, <3>1
    <3>3. /\ h[i] < h[k - 1]
          /\ package[h[k - 1]].version = package[h[i]].version + ((k - 1) - i)
      BY <3>2
    <3>4. package[h[k]].version = package[h[i]].version + (k - i)
      BY <1>1, <2>3, <2>4, <3>3
    <3>5. h[i] < h[k]
      <4>1. h[i] \in Nat /\ h[k - 1] \in Nat /\ h[k] \in Nat
        BY <1>1, <2>3
      <4> QED
        BY ONLY <2>4, <3>3, <4>1
    <3> QED
      BY <3>4, <3>5
  <2> QED
    BY <2>5, <2>6
<1> QED
  BY <1>1, <1>3

\* From the root on the list has the whole family.
LEMMA HistoryCovers ==
    ASSUME PackagesInv, NEW p \in Packages, NEW h, IsHistory(h, p), h[1] = Root[p],
           NEW x \in Lineage(p)
    PROVE  \E i \in 1 .. Len(h) : h[i] = x
<1> DEFINE S == {y \in Lineage(p) : ~\E i \in 1 .. Len(h) : h[i] = y}
<1>1. Len(h) \in Nat /\ Len(h) > 0
  BY DEF IsHistory
<1>2. S = {}
  <2> SUFFICES ASSUME S # {} PROVE FALSE
    OBVIOUS
  <2>1. S \in SUBSET Nat
    BY AmongPackages DEF Lineage
  <2>2. PICK y \in S : \A z \in S : y <= z
    BY <2>1, Least
  <2>3. y \in Lineage(p) /\ y \in Packages /\ y \in Nat /\ Root[y] = Root[p]
    BY <2>1 DEF Lineage
  <2>4. CASE ~Follows(y)
    <3>1. y = h[1]
      BY <2>3, <2>4, RootOfFamily
    <3> QED
      BY <1>1, <3>1
  <2>5. CASE Follows(y)
    <3>1. PreviousOf(y) \in Lineage(p) /\ PreviousOf(y) \in 1 .. (y - 1)
      BY <2>3, <2>5, FamilyCloses, AmongPackages
    <3>2. PreviousOf(y) \notin S
      BY <2>2, <2>3, <3>1
    <3>3. PICK i \in 1 .. Len(h) : h[i] = PreviousOf(y)
      BY <3>1, <3>2
    <3>4. y \in Successors(h[i])
      BY <2>3, <3>3 DEF Successors, PreviousOf
    <3>a. i # Len(h)
      BY <3>4 DEF IsHistory
    <3>5. i \in 1 .. Len(h) - 1 /\ i + 1 \in 1 .. Len(h)
      BY <1>1, <3>a
    <3>6. y = h[i + 1]
      BY <3>4, <3>5 DEF IsHistory
    <3> QED
      BY <3>5, <3>6
  <2> QED
    BY <2>4, <2>5
<1> QED
  BY <1>2

\* What is earlier is of the family, and is closed under going back.
LEMMA EarlierOfFamily ==
    ASSUME PackagesInv, NEW p \in Packages
    PROVE  /\ p \in Earlier[p] /\ Earlier[p] \subseteq Lineage(p)
           /\ \A x \in Earlier[p] : Follows(x) => PreviousOf(x) \in Earlier[p]
<1> DEFINE Closed(q) == /\ q \in Earlier[q] /\ Earlier[q] \subseteq Lineage(q)
                        /\ \A x \in Earlier[q] : Follows(x) => PreviousOf(x) \in Earlier[q]
           S == {q \in Packages : ~Closed(q)}
<1>1. \A q \in Packages : Earlier[q] = {q} \cup IF Follows(q) THEN Earlier[PreviousOf(q)] ELSE {}
  BY EarlierWalk, AmongPackages
<1>2. S = {}
  <2> SUFFICES ASSUME S # {} PROVE FALSE
    OBVIOUS
  <2>1. S \in SUBSET Nat
    BY AmongPackages
  <2>2. PICK q \in S : \A x \in S : q <= x
    BY <2>1, Least
  <2>3. q \in Packages /\ q \in Nat /\ q \in Lineage(q)
    BY <2>1 DEF Lineage
  <2>4. CASE ~Follows(q)
    BY <1>1, <2>3, <2>4
  <2>5. CASE Follows(q)
    <3>1. PICK y : y = PreviousOf(q)
      OBVIOUS
    <3>2. y \in Packages /\ y \in 1 .. (q - 1)
      BY <2>3, <2>5, <3>1, AmongPackages
    <3>3. y \notin S
      BY <2>2, <2>3, <3>2
    <3>4. Closed(y)
      BY <3>2, <3>3
    <3>5. Lineage(y) = Lineage(q)
      BY <2>3, <2>5, <3>1, RootOfFamily DEF Lineage
    <3>6. Earlier[q] = {q} \cup Earlier[y]
      BY <1>1, <2>3, <2>5, <3>1
    <3>7. Closed(q)
      BY <2>3, <3>1, <3>4, <3>5, <3>6
    <3> QED
      BY <3>7
  <2> QED
    BY <2>4, <2>5
<1> QED
  BY <1>2

\* A version that is not newer is found going back.
LEMMA EarlierInHistory ==
    ASSUME HistoryInv, NEW p \in Packages, NEW h, IsHistory(h, p), h[1] = Root[p],
           NEW i \in 1 .. Len(h), h[i] <= p
    PROVE  h[i] \in Earlier[p]
<1>1. PackagesInv /\ Len(h) \in Nat /\ p \in Lineage(p) /\ p \in Nat
  BY AmongPackages DEF HistoryInv, IsHistory, Lineage
<1>2. PICK j \in 1 .. Len(h) : h[j] = p
  BY <1>1, HistoryCovers
<1>3. i <= j
  <2> SUFFICES ASSUME j < i PROVE FALSE
    BY <1>1
  <2>1. h[j] < h[i] /\ h[i] \in Nat
    BY <1>2, HistoryRises
  <2> QED
    BY <1>1, <1>2, <2>1
<1> DEFINE S == {k \in 0 .. j : k >= 1 /\ h[k] \notin Earlier[p]}
<1>4. S = {}
  <2> SUFFICES ASSUME S # {} PROVE FALSE
    OBVIOUS
  <2>1. S \in SUBSET (0 .. j) /\ j \in Nat
    OBVIOUS
  <2>2. PICK k \in S : \A x \in S : x <= k
    BY <2>1, MaxOf
  <2>3. k # j /\ k \in 1 .. Len(h) - 1 /\ k + 1 \in 0 .. j /\ k + 1 >= 1 /\ ~(k + 1 <= k)
    BY <1>1, <1>2, EarlierOfFamily
  <2>4. h[k + 1] \in Earlier[p]
    BY <2>2, <2>3
  <2>5. h[k + 1] \in Successors(h[k])
    BY <2>3 DEF IsHistory
  <2>6. h[k + 1] \in Packages /\ PreviousOf(h[k + 1]) = h[k]
    BY <2>5 DEF Successors, PreviousOf
  <2>7. h[k] # Nothing
    <3>1. k \in 1 .. Len(h)
      BY <1>1, <2>3
    <3>2. h[k] \in Packages
      BY <3>1 DEF IsHistory, Lineage
    <3>3. \A x \in Packages : x \in Nat
      BY <1>1, AmongPackages
    <3> QED
      BY <3>2, <3>3, PackageConstants
  <2>8. Follows(h[k + 1])
    BY <1>1, <2>6, <2>7, AmongPackages DEF Follows, PreviousOf
  <2>9. h[k] \in Earlier[p]
    BY <1>1, <2>4, <2>6, <2>8, EarlierOfFamily
  <2> QED
    BY <2>9
<1> QED
  BY <1>1, <1>3, <1>4

\* What the properties say of the walks holds in every state of the invariant.
LEMMA HistoriesHold == HistoryInv => HistoryComplete
<1> SUFFICES ASSUME HistoryInv, NEW p \in Packages, ~Branched(p)
             PROVE  LET found == ListVersions(p) IN
                    /\ ~ListFails(p)
                    /\ ToSet(found) = {q \in Packages : Root[q] = Root[p]} /\ IsInjective(found)
                    /\ \A i \in 1 .. Len(found) - 1 :
                          package[found[i + 1]].version = package[found[i]].version + 1
                    /\ \A i \in 1 .. Len(found) : found[i] <= p =>
                          LET version == package[found[i]].version IN
                          /\ GetPackageVersion(p, version) = {found[i]}
                          /\ ComparePackageVersions(p, version, package[p].version)
                                = {<<found[i], p>>}
  BY DEF HistoryComplete
<1>1. PackagesInv /\ HasRow(p) /\ p \in Lineage(p)
  BY DEF HistoryInv, Packages, Lineage
<1>2. PICK h : h = ListVersions(p)
  OBVIOUS
<1>3. IsHistory(h, p) /\ h[1] = Root[p]
  <2>1. Root[p] \in Lineage(p)
    BY <1>1, RootOfFamily DEF Lineage
  <2>2. h = Onward[Root[p]]
    BY <1>1, <1>2 DEF ListVersions, Start
  <2> QED
    BY <1>1, <2>1, <2>2, WalkIsHistory
<1>4. h \in Seq(Lineage(p)) /\ Len(h) \in Nat /\ Len(h) > 0 /\ DOMAIN h = 1 .. Len(h)
  BY <1>3 DEF IsHistory
<1>5. \A i \in 1 .. Len(h) : h[i] \in Lineage(p) /\ h[i] \in Packages
  BY <1>4 DEF Lineage
<1>6. \A i, j \in 1 .. Len(h) : i < j => h[i] < h[j] /\ h[i] \in Nat /\ h[j] \in Nat
  BY <1>3, HistoryRises
<1>7. \A i, j \in 1 .. Len(h) : i < j =>
         /\ package[h[i]].version \in Nat /\ package[h[j]].version \in Nat
         /\ package[h[j]].version = package[h[i]].version + (j - i)
  BY <1>3, HistoryRises
<1>8. ~ListFails(p)
  BY <1>2, <1>3, <1>4 DEF ListFails, IsHistory, Last
<1>9. ToSet(h) = {q \in Packages : Root[q] = Root[p]}
  <2>1. Lineage(p) = {q \in Packages : Root[q] = Root[p]}
    BY DEF Lineage
  <2>2. \A q \in Lineage(p) : \E i \in 1 .. Len(h) : h[i] = q
    BY <1>1, <1>3, HistoryCovers
  <2> QED
    BY <1>4, <1>5, <2>1, <2>2 DEF ToSet
<1>10. IsInjective(h)
  <2>1. ASSUME NEW i \in 1 .. Len(h), NEW j \in 1 .. Len(h), h[i] = h[j] PROVE i = j
    <3>1. ~(i < j) /\ ~(j < i)
      BY <1>6, <2>1
    <3> QED
      BY <1>4, <3>1
  <2> QED
    BY <1>4, <2>1 DEF IsInjective
<1>11. \A i \in 1 .. Len(h) - 1 : package[h[i + 1]].version = package[h[i]].version + 1
  <2> SUFFICES ASSUME NEW i \in 1 .. Len(h) - 1
               PROVE  package[h[i + 1]].version = package[h[i]].version + 1
    OBVIOUS
  <2>1. i \in 1 .. Len(h) /\ i + 1 \in 1 .. Len(h) /\ i < i + 1 /\ (i + 1) - i = 1
    BY <1>4
  <2> QED
    BY <1>7, <2>1
<1>12. ASSUME NEW i \in 1 .. Len(h), h[i] <= p,
              NEW q \in Earlier[p], package[q].version = package[h[i]].version
       PROVE  q = h[i]
  <2>1. q \in Lineage(p)
    BY <1>1, EarlierOfFamily
  <2>2. PICK j \in 1 .. Len(h) : h[j] = q
    BY <1>1, <1>3, <2>1, HistoryCovers
  <2>3. ~(i < j) /\ ~(j < i)
    <3>1. i < j => package[h[j]].version # package[h[i]].version
      BY <1>4, <1>7
    <3>2. j < i => package[h[i]].version # package[h[j]].version
      BY <1>4, <1>7
    <3> QED
      BY <1>12, <2>2, <3>1, <3>2
  <2>4. i = j
    BY <1>4, <2>3
  <2> QED
    BY <2>2, <2>4
<1>13. ASSUME NEW i \in 1 .. Len(h), h[i] <= p
       PROVE  GetVersion(p, package[h[i]].version) = {h[i]}
  <2>1. h[i] \in Earlier[p]
    BY <1>3, <1>13, EarlierInHistory
  <2> QED
    BY <1>12, <1>13, <2>1 DEF GetVersion
<1>14. ASSUME NEW i \in 1 .. Len(h), h[i] <= p
       PROVE  GetPackageVersion(p, package[h[i]].version) = {h[i]}
  <2>1. h[i] \in ToSet(ListVersions(p))
    BY <1>2, <1>4 DEF ToSet
  <2> QED
    BY <1>13, <1>14, <2>1 DEF GetPackageVersion
<1>15. GetVersion(p, package[p].version) = {p}
  <2>1. PICK j \in 1 .. Len(h) : h[j] = p
    BY <1>1, <1>3, HistoryCovers
  <2>2. p <= p
    BY <1>1, AmongPackages
  <2> QED
    BY <1>13, <2>1, <2>2
<1>16. ASSUME NEW i \in 1 .. Len(h), h[i] <= p
       PROVE  ComparePackageVersions(p, package[h[i]].version, package[p].version) = {<<h[i], p>>}
  <2>1. GetVersion(p, package[h[i]].version) = {h[i]}
    BY <1>13, <1>16
  <2> QED
    BY <1>15, <2>1 DEF ComparePackageVersions
<1> QED
  BY <1>2, <1>8, <1>9, <1>10, <1>11, <1>14, <1>16

LEMMA NumberedOverSameRows ==
    ASSUME HistoryInv, NEW r \in PackageHandler, NEW c, Proceeds(r, c), package' = package,
           c # Nothing /\ c.pc = "insert" /\ HasRow(c.id) /\ c.kind # "upload" =>
               c.version = package[c.id].version + 1
    PROVE  VersionsFollow' /\ RequestsNumbered'
<1>1. /\ \A o \in PackageHandler : request'[o] = IF o = r THEN c ELSE request[o]
      /\ Packages' = Packages /\ \A p : HasRow(p)' <=> HasRow(p)
  BY DEF HistoryInv, PackagesInv, PackageTypes, Proceeds, Packages, HasRow
<1>2. VersionsFollow'
  BY <1>1 DEF HistoryInv, VersionsFollow, Follows, PreviousOf, HasRow
<1>3. RequestsNumbered'
  <2> SUFFICES ASSUME NEW o \in PackageHandler, request'[o] # Nothing, request'[o].pc = "insert",
                      package'[request'[o].id] # Nothing, request'[o].kind # "upload"
               PROVE  request'[o].version = package'[request'[o].id].version + 1
    BY DEF RequestsNumbered, UnderWay, HasRow
  <2>1. CASE o = r
    BY <1>1, <2>1 DEF HasRow
  <2>2. CASE o # r
    BY <1>1, <2>2 DEF HasRow, HistoryInv, RequestsNumbered, UnderWay
  <2> QED
    BY <2>1, <2>2
<1> QED
  BY <1>2, <1>3

\* A request goes on over other rows: those that were there keep their versions,
\* and follow the rows they did or none.
LEMMA NumberedOverNewRows ==
    ASSUME HistoryInv, NEW r \in PackageHandler, NEW c, Proceeds(r, c),
           c # Nothing => c.pc # "insert",
           NEW added,
           \A p \in PackageId : package'[p] # Nothing => p \in Packages \/ p = added,
           \A p \in Packages : package'[p] # Nothing =>
               /\ package'[p].version = package[p].version
               /\ package'[p].previous \in {Nothing, package[p].previous},
           added \notin Packages /\ added \notin 1 .. made,
           added \in PackageId /\ package'[added] # Nothing /\ package'[added].previous # Nothing =>
               /\ package'[added].previous \in Packages
               /\ package'[added].version = package[package'[added].previous].version + 1,
           \A p \in PackageId : package'[p] # Nothing /\ package'[p].previous # Nothing =>
               package'[package'[p].previous] # Nothing
    PROVE  VersionsFollow' /\ RequestsNumbered'
<1>1. /\ \A o \in PackageHandler : request'[o] = IF o = r THEN c ELSE request[o]
      /\ Packages' = {p \in PackageId : package'[p] # Nothing}
  BY DEF HistoryInv, PackagesInv, PackageTypes, Proceeds, Packages, HasRow
<1>2. PackagesInv /\ Packages \subseteq PackageId
  BY DEF HistoryInv, Packages
<1>3. ASSUME NEW p \in PackageId, package'[p] # Nothing, package'[p].previous # Nothing
      PROVE  package'[p].version = package'[package'[p].previous].version + 1
  <2>1. CASE p = added
    BY <1>2, <1>3, <2>1
  <2>2. CASE p \in Packages
    <3>1. /\ package'[p].version = package[p].version /\ package'[p].previous = package[p].previous
          /\ Follows(p)
      BY <1>3, <2>2 DEF Follows, Packages
    <3>2. PreviousOf(p) \in Packages /\ package[p].version = package[PreviousOf(p)].version + 1
      BY <1>2, <2>2, <3>1, AmongPackages DEF HistoryInv, VersionsFollow
    <3>3. package'[PreviousOf(p)] # Nothing
      BY <1>3, <3>1 DEF PreviousOf
    <3>4. package'[PreviousOf(p)].version = package[PreviousOf(p)].version
      BY <3>2, <3>3
    <3> QED
      BY <3>1, <3>2, <3>4 DEF PreviousOf
  <2> QED
    BY <1>3, <2>1, <2>2
<1>4. VersionsFollow'
  BY <1>1, <1>3 DEF VersionsFollow, Follows, PreviousOf
<1>5. RequestsNumbered'
  <2> SUFFICES ASSUME NEW o \in PackageHandler, request'[o] # Nothing, request'[o].pc = "insert",
                      package'[request'[o].id] # Nothing, request'[o].kind # "upload"
               PROVE  request'[o].version = package'[request'[o].id].version + 1
    BY DEF RequestsNumbered, UnderWay, HasRow
  <2>1. o # r /\ request'[o] = request[o] /\ UnderWay(o)
    BY <1>1 DEF UnderWay
  <2>2. request[o].id \in 1 .. made /\ made \in Nat /\ made <= MaxPackages
    BY <1>2, <2>1, AtStage DEF RequestFits
  <2>3. request[o].id \in PackageId /\ request[o].id # added
    BY <1>2, <2>2, AmongPackages
  <2>4. request[o].id \in Packages
    BY <2>1, <2>3
  <2>5. request[o].version = package[request[o].id].version + 1
    BY <2>1, <2>4 DEF HistoryInv, RequestsNumbered, Packages
  <2> QED
    BY <2>1, <2>4, <2>5
<1> QED
  BY <1>4, <1>5

LEMMA InsertRowNumbers ==
    ASSUME HistoryInv, NEW r \in PackageHandler, UnderWay(r), InsertRow(r), PackagesInv'
    PROVE  VersionsFollow' /\ RequestsNumbered'
<1>1. CASE Fails(r) /\ package' = package
  BY <1>1, NumberedOverSameRows DEF Fails, Proceeds
<1>2. CASE ~(Fails(r) /\ package' = package)
  <2>a. PICK id, new, s : id = request[r].id /\ new = made + 1 /\ s = request[r]
    OBVIOUS
  <2>b. PICK added : added = [file |-> IF s.kind = "rollback" THEN s.row.file ELSE s.file,
                              version |-> s.version, previous |-> id]
    OBVIOUS
  <2>c. PICK c : c = IF s.kind = "upload" THEN Nothing
                     ELSE [s EXCEPT !.pc = "announce", !.new = new, !.file = Nothing]
    OBVIOUS
  <2>1. /\ id \in {Nothing} \cup Packages /\ Proceeds(r, c) /\ s.pc = "insert" /\ made < MaxPackages
        /\ package' = [package EXCEPT ![new] = added]
    BY <1>2, <2>a, <2>b, <2>c DEF InsertRow
  <2>2. /\ PackagesInv /\ made \in Nat /\ MaxPackages \in Nat /\ s \in PackageRequest
        /\ RequestFits(s, made, filed)
    BY <2>a, AtStage, PackageConstants DEF HistoryInv
  <2>3. new \in PackageId /\ new \notin Packages /\ new \notin 1 .. made /\ Packages \subseteq PackageId
    BY <2>1, <2>2, <2>a DEF PackagesInv, RowsFit, Packages, PackageId
  <2>4. /\ package'[new] = added /\ \A p \in PackageId \ {new} : package'[p] = package[p]
    BY <2>1, <2>3 DEF HistoryInv, PackagesInv, PackageTypes
  <2>5. c # Nothing => c.pc # "insert"
    BY <2>2, <2>c DEF PackageRequest
  <2>6. id # Nothing => id \in Packages /\ s.version = package[id].version + 1
    BY <2>1, <2>2, <2>a DEF HistoryInv, RequestsNumbered, Packages, RequestFits
  <2>7. added.previous = id /\ added.version = s.version
    BY <2>b
  <2>8. \A p \in PackageId : package'[p] # Nothing => p \in Packages \/ p = new
    BY <2>4 DEF Packages, HasRow
  <2>9. \A p \in Packages : package'[p] = package[p]
    BY <2>3, <2>4
  <2>10. \A p \in PackageId : package'[p] # Nothing /\ package'[p].previous # Nothing =>
            package'[package'[p].previous] # Nothing
    BY DEF PackagesInv, RowsFit, Packages, HasRow
  <2> QED
    BY <2>1, <2>3, <2>4, <2>5, <2>6, <2>7, <2>8, <2>9, <2>10, NumberedOverNewRows
<1> QED
  BY <1>1, <1>2

LEMMA OverwriteNumbers ==
    ASSUME HistoryInv, NEW r \in PackageHandler, UnderWay(r), Overwrite(r), PackagesInv'
    PROVE  VersionsFollow' /\ RequestsNumbered'
<1>1. CASE Fails(r) /\ package' = package
  BY <1>1, NumberedOverSameRows DEF Fails, Proceeds
<1>2. CASE ~(Fails(r) /\ package' = package)
  <2>1. PICK id, new : id = request[r].id /\ new = request[r].file
    OBVIOUS
  <2>2. /\ HasRow(id) /\ Proceeds(r, Nothing)
        /\ package' = [package EXCEPT ![id] = [package[id] EXCEPT !.file = new]]
    BY <1>2, <2>1 DEF Overwrite, Overwritten
  <2>3. /\ PackagesInv /\ made \in Nat /\ MaxPackages \in Nat
        /\ package \in [PackageId -> {Nothing} \cup PackageRow] /\ Packages \subseteq PackageId
    BY AtStage, PackageConstants DEF HistoryInv, PackagesInv, PackageTypes, Packages
  <2>4. \A p \in PackageId : package'[p] # Nothing => p \in Packages
    BY <2>2, <2>3 DEF Packages, HasRow
  <2>5. \A p \in Packages : package'[p].version = package[p].version
                            /\ package'[p].previous = package[p].previous
    BY <2>2, <2>3 DEF Packages, HasRow, PackageRow
  <2>6. \A p \in PackageId : package'[p] # Nothing /\ package'[p].previous # Nothing =>
            package'[package'[p].previous] # Nothing
    BY DEF PackagesInv, RowsFit, Packages, HasRow
  <2>7. 0 \notin Packages /\ 0 \notin 1 .. made /\ 0 \notin PackageId
    BY <2>3 DEF PackageId
  <2> QED
    BY <2>2, <2>4, <2>5, <2>6, <2>7, NumberedOverNewRows
<1> QED
  BY <1>1, <1>2

LEMMA DeleteRowNumbers ==
    ASSUME HistoryInv, NEW r \in PackageHandler, UnderWay(r), DeleteRow(r), PackagesInv'
    PROVE  VersionsFollow' /\ RequestsNumbered'
<1>1. PICK id : id = request[r].id
  OBVIOUS
<1>2. /\ Proceeds(r, Nothing)
      /\ package' = [q \in PackageId |-> IF q = id \/ ~HasRow(q) THEN Nothing ELSE Orphaned(q, id)]
  BY <1>1 DEF DeleteRow
<1>3. /\ PackagesInv /\ made \in Nat /\ MaxPackages \in Nat
      /\ package \in [PackageId -> {Nothing} \cup PackageRow] /\ Packages \subseteq PackageId
  BY AtStage, PackageConstants DEF HistoryInv, PackagesInv, PackageTypes, Packages
<1>4. \A p \in PackageId : package'[p] # Nothing => p \in Packages
  BY <1>2 DEF Packages
<1>5. ASSUME NEW p \in Packages, package'[p] # Nothing
      PROVE  /\ package'[p].version = package[p].version
             /\ package'[p].previous \in {Nothing, package[p].previous}
  <2>1. package[p] \in PackageRow /\ p \in PackageId
    BY <1>3 DEF Packages, HasRow
  <2>2. package'[p] = IF package[p].previous = id THEN [package[p] EXCEPT !.previous = Nothing]
                      ELSE package[p]
    BY <1>2, <1>5, <2>1 DEF Orphaned
  <2> QED
    BY <2>1, <2>2 DEF PackageRow
<1>6. \A p \in PackageId : package'[p] # Nothing /\ package'[p].previous # Nothing =>
          package'[package'[p].previous] # Nothing
  BY DEF PackagesInv, RowsFit, Packages, HasRow
<1>7. 0 \notin Packages /\ 0 \notin 1 .. made /\ 0 \notin PackageId
  BY <1>3 DEF PackageId
<1> QED
  BY <1>2, <1>4, <1>5, <1>6, <1>7, NumberedOverNewRows

LEMMA HistoryStep ==
    ASSUME HistoryInv, [PackagesNext]_packageVars PROVE HistoryInv'
<1>1. PackagesInv'
  BY PackagesStep DEF HistoryInv
<1>2. CASE UNCHANGED packageVars
  <2>1. package' = package /\ request' = request
    BY <1>2 DEF packageVars
  <2> QED
    BY <1>1, <2>1 DEF HistoryInv, VersionsFollow, RequestsNumbered, Follows, PreviousOf, Packages,
                      HasRow, UnderWay
<1>3. ASSUME NEW r \in PackageHandler, HandleRequest(r) PROVE HistoryInv'
  <2>1. ASSUME NEW kind, NEW pc \in {"store", "select"}, NEW p, Accept(r, NewRequest(kind, pc, p))
        PROVE  \E c : Proceeds(r, c) /\ package' = package /\ c.pc # "insert"
    BY <2>1 DEF Accept, NewRequest
  <2>2. ASSUME NEW p, NEW v, Accept(r, [NewRequest("rollback", "walk", p) EXCEPT !.target = v])
        PROVE  \E c : Proceeds(r, c) /\ package' = package /\ c.pc # "insert"
    BY <2>2 DEF Accept, NewRequest
  <2>3. PICK c : Proceeds(r, c) /\ package' = package /\ c.pc # "insert"
    BY <1>3, <2>1, <2>2 DEF HandleRequest, UploadPackage, CreatePackageVersion, UpdatePackage,
                            DeletePackage, RollbackPackageVersion
  <2> QED
    BY <1>1, <2>3, NumberedOverSameRows DEF HistoryInv
<1>4. ASSUME NEW r \in PackageHandler, UnderWay(r), RequestStep(r) PROVE HistoryInv'
  <2>1. request[r] \in PackageRequest /\ RequestFits(request[r], made, filed)
    BY <1>4, AtStage DEF HistoryInv
  <2>2. CASE Fails(r) /\ package' = package
    BY <1>1, <2>2, NumberedOverSameRows DEF HistoryInv, Fails, Proceeds
  <2>3. CASE StorePackage(r)
    <3>1. PICK c : Proceeds(r, c) /\ package' = package
                   /\ c = [request[r] EXCEPT !.file = filed + 1,
                              !.pc = CASE request[r].kind = "upload" -> "insert"
                                       [] request[r].kind = "version" -> "current"
                                       [] request[r].kind = "update" -> "overwrite"]
      BY <2>3 DEF StorePackage
    <3>2. c.pc = "insert" => c.kind = "upload"
      BY <2>1, <2>3, <3>1 DEF PackageRequest, StorePackage, RequestFits, StageOf
    <3> QED
      BY <1>1, <3>1, <3>2, NumberedOverSameRows DEF HistoryInv
  <2>4. CASE Current(r) /\ ~Fails(r)
    <3>1. PICK c : Proceeds(r, c) /\ package' = package
                   /\ c = [request[r] EXCEPT !.pc = "insert",
                                             !.version = package[request[r].id].version + 1]
      BY <2>4 DEF Current
    <3>2. c.version = package[c.id].version + 1
      BY <2>1, <3>1 DEF PackageRequest
    <3> QED
      BY <1>1, <3>1, <3>2, NumberedOverSameRows DEF HistoryInv
  <2>5. CASE Walk(r) /\ ~Fails(r)
    <3>1. PICK c, found : Proceeds(r, c) /\ package' = package
                   /\ c = [request[r] EXCEPT !.pc = "insert", !.row = found,
                                             !.version = package[request[r].id].version + 1]
      BY <2>5 DEF Walk
    <3>2. c.version = package[c.id].version + 1
      BY <2>1, <3>1 DEF PackageRequest
    <3> QED
      BY <1>1, <3>1, <3>2, NumberedOverSameRows DEF HistoryInv
  <2>6. CASE AnnounceVersion(r) \/ SelectRow(r) \/ RemoveFile(r)
    <3>1. PICK c : Proceeds(r, c) /\ package' = package /\ (c # Nothing => c.pc # "insert")
      <4>1. CASE AnnounceVersion(r)
        BY <4>1 DEF AnnounceVersion
      <4>2. CASE SelectRow(r)
        <5>1. PICK c, found : /\ Proceeds(r, c) /\ package' = package
                              /\ c = Nothing \/ c = [request[r] EXCEPT !.pc = "remove", !.row = found]
          BY <4>2 DEF SelectRow
        <5>2. c # Nothing => c.pc = "remove"
          BY <2>1, <5>1 DEF PackageRequest
        <5> QED
          BY <5>1, <5>2
      <4>3. CASE RemoveFile(r)
        <5>1. PICK c, pc : /\ Proceeds(r, c) /\ package' = package /\ pc \in {"store", "delete"}
                           /\ c = [request[r] EXCEPT !.removed = TRUE, !.pc = pc]
          BY <4>3 DEF RemoveFile
        <5>2. c.pc = pc
          BY <2>1, <5>1 DEF PackageRequest
        <5> QED
          BY <5>1, <5>2
      <4> QED
        BY <2>6, <4>1, <4>2, <4>3
    <3> QED
      BY <1>1, <3>1, NumberedOverSameRows DEF HistoryInv
  <2>7. CASE InsertRow(r) \/ Overwrite(r) \/ DeleteRow(r)
    BY <1>1, <1>4, <2>7, InsertRowNumbers, OverwriteNumbers, DeleteRowNumbers DEF HistoryInv
  <2> QED
    BY <1>4, <2>2, <2>3, <2>4, <2>5, <2>6, <2>7 DEF RequestStep, RequestAborts, Current, Walk
<1> QED
  BY <1>2, <1>3, <1>4 DEF PackagesNext, UnderWay

\* For any number of packages, files and requests at once: whatever package of a
\* history one asks, list_versions finds all of it, each version once and numbered
\* without a gap, and get_package_version and a comparison find each version up to
\* the package's own; and every row has its file while requests come one by one.
THEOREM PackagesAlwaysHold == PackagesSpec => []PackagesHold
<1>1. PackagesInit => HistoryInv
  BY PackagesBegin DEF HistoryInv, PackagesInit, VersionsFollow, RequestsNumbered, Packages, HasRow,
                       UnderWay
<1>2. HistoryInv => HistoryComplete
  BY HistoriesHold
<1> QED
  BY <1>1, <1>2, HistoryStep, FilesStayWithRows, PTL DEF PackagesSpec, PackagesHold

-----------------------------------------------------------------------------
(* The inductive invariant.                                                *)

Invocation ==
    [pc : {"read", "publish", "create", "answer"}, scoped : BOOLEAN, path : Path,
     inputs : SUBSET Argument, inouts : SUBSET Argument, number : 0..MaxInvocations]

InvocationRow == [path : Path, inputs : SUBSET Argument, inouts : SUBSET Argument, state : {"pending"}]

Handle == [number : Number, path : Path, inputs : SUBSET Argument, inouts : SUBSET Argument]

OperationsTypes ==
    /\ numbered \in 0..MaxInvocations
    /\ asked \in [Invoker -> Invocation \cup {Nothing}]
    /\ invocation \in [Number -> InvocationRow \cup {Nothing}]
    /\ handle \subseteq Handle

\* What is read has been committed.
DocumentTypes ==
    /\ submodel \in committed \cup {Nothing}
    /\ shell \in {TRUE, FALSE, Nothing}
    /\ copies \in [submodel : committed \cup {Nothing}, shell : {TRUE, FALSE, Nothing}]
    /\ committed \subseteq Document

\* A request or a handle asks for an operation of a committed document.
Asked(c) ==
    \E doc \in committed :
        /\ Declares(doc, c.path)
        /\ c.inputs \subseteq doc[c.path].inputs /\ c.inouts \subseteq doc[c.path].inouts

\* A request in flight has a number of its own until its row is there.
InFlight(r) ==
    LET c == asked[r] IN
    /\ c.pc \in {"publish", "create", "answer"} => Asked(c)
    /\ c.pc \in {"create", "answer"} => c.number \in 1..numbered
    /\ c.pc = "create" =>
          /\ invocation[c.number] = Nothing
          /\ \A s \in Invoker \ {r} :
                asked[s] # Nothing /\ asked[s].pc = "create" => asked[s].number # c.number
    /\ c.pc = "answer" => invocation[c.number] = Row(c)

Holds(h) ==
    /\ invocation[h.number] = Row(h)
    /\ Asked(h)

OInv ==
    /\ OperationsTypes /\ DocumentTypes
    /\ \A n \in Number : invocation[n] # Nothing => n <= numbered
    /\ \A r \in Invoker : asked[r] # Nothing => InFlight(r)
    /\ \A h \in handle : Holds(h)

\* What the assumption says of the sets above.
LEMMA NoneAbsent ==
    /\ MaxInvocations \in Nat /\ Nothing \notin Document
    /\ Nothing \notin Invocation /\ Nothing \notin InvocationRow
BY OperationsAssumption DEF Invocation, InvocationRow

LEMMA InitOInv == OperationsInit => OInv
<1> SUFFICES ASSUME OperationsInit PROVE OInv
  OBVIOUS
<1>1. /\ \A r \in Invoker : asked[r] = Nothing
      /\ \A n \in Number : invocation[n] = Nothing
      /\ handle = {}
  BY DEF OperationsInit
<1>2. OperationsTypes
  BY NoneAbsent DEF OperationsInit, OperationsTypes
<1>3. DocumentTypes
  BY NoneAbsent DEF OperationsInit, DocumentTypes
<1> QED
  BY <1>1, <1>2, <1>3 DEF OInv

LEMMA InvHolds == OInv => HandlesHold
<1> SUFFICES ASSUME OInv, NEW h \in handle
             PROVE  LET found == GetOperationStatus(h.number, h.path) IN
                    /\ \E x \in found : x.inputs = h.inputs /\ x.inouts = h.inouts
                    /\ shell = TRUE => GetOperationStatusForShell(h.number, h.path, shell) = found
                    /\ \A path \in Path \ {h.path} : GetOperationStatus(h.number, path) = {}
                    /\ \E doc \in committed :
                          /\ Declares(doc, h.path)
                          /\ h.inputs \subseteq doc[h.path].inputs
                          /\ h.inouts \subseteq doc[h.path].inouts
  BY DEF HandlesHold
<1>1. h \in Handle /\ invocation[h.number] = Row(h) /\ Asked(h)
  BY DEF OInv, OperationsTypes, Holds
<1>2. Row(h) \in InvocationRow /\ Row(h) # Nothing
  BY <1>1, NoneAbsent DEF Handle, InvocationRow, Row
<1>3. \A path \in Path : GetOperationStatus(h.number, path) = {x \in {Row(h)} : x.path = path}
  BY <1>1, <1>2 DEF GetOperationStatus
<1>4. Row(h).path = h.path /\ Row(h).inputs = h.inputs /\ Row(h).inouts = h.inouts /\ h.path \in Path
  BY <1>1 DEF Row, Handle
<1>5. Row(h) \in GetOperationStatus(h.number, h.path)
  BY <1>3, <1>4
<1>6. \A path \in Path \ {h.path} : GetOperationStatus(h.number, path) = {}
  BY <1>3, <1>4
<1> QED
  BY <1>1, <1>4, <1>5, <1>6 DEF Asked, GetOperationStatusForShell

-----------------------------------------------------------------------------
(* The steps.                                                              *)

\* What is committed stays so: more documents take nothing away.
LEMMA MoreCommitted ==
    ASSUME NEW c, Asked(c), committed \subseteq committed'
    PROVE  Asked(c)'
BY DEF Asked, Declares

\* Steps that write documents and copies.
LEMMA WritesKeep ==
    ASSUME OInv, DocumentTypes', committed \subseteq committed',
           UNCHANGED <<invocation, handle, asked, numbered>>
    PROVE  OInv'
<1>1. OperationsTypes'
  BY DEF OInv, OperationsTypes
<1>2. ASSUME NEW r \in Invoker, asked'[r] # Nothing
      PROVE  InFlight(r)'
  BY <1>2, MoreCommitted DEF OInv, InFlight
<1>3. ASSUME NEW h \in handle'
      PROVE  Holds(h)'
  BY <1>3, MoreCommitted DEF OInv, Holds
<1> QED
  BY <1>1, <1>2, <1>3 DEF OInv

LEMMA OthersKeep ==
    ASSUME OInv, SubmodelWritten \/ ShellWritten \/ CopiesChange
           \/ (\E n \in Number : Undeliverable(n))
    PROVE  OInv'
<1>1. CASE SubmodelWritten
  BY <1>1, WritesKeep, NoneAbsent DEF SubmodelWritten, OInv, DocumentTypes
<1>2. CASE ShellWritten
  BY <1>2, WritesKeep DEF ShellWritten, OInv, DocumentTypes
<1>3. CASE CopiesChange
  <2>1. DocumentTypes'
    <3>1. PICK s \in {submodel, Nothing}, h \in {shell, Nothing} :
             copies' = [submodel |-> s, shell |-> h]
      BY <1>3 DEF CopiesChange
    <3> QED
      BY <1>3, <3>1 DEF CopiesChange, OInv, DocumentTypes
  <2> QED
    BY <1>3, <2>1, WritesKeep DEF CopiesChange
<1>4. ASSUME NEW n \in Number, Undeliverable(n)
      PROVE  OInv'
  BY <1>4, WritesKeep DEF Undeliverable, OInv, DocumentTypes
<1> QED
  BY <1>1, <1>2, <1>3, <1>4

\* A request begins, ends, or goes on without a number.
LEMMA RequestMoves ==
    ASSUME OInv, NEW r \in Invoker, NEW c, c \in Invocation \cup {Nothing},
           c # Nothing => c.pc = "read" \/ (c.pc = "publish" /\ Asked(c)),
           Go(r, c), DocumentTypes', UNCHANGED <<invocation, handle, numbered, committed>>
    PROVE  OInv'
<1>1. /\ asked' \in [Invoker -> Invocation \cup {Nothing}]
      /\ \A s \in Invoker : asked'[s] = IF s = r THEN c ELSE asked[s]
  BY DEF Go, OInv, OperationsTypes
<1>2. OperationsTypes'
  BY <1>1 DEF OInv, OperationsTypes
<1>3. ASSUME NEW s \in Invoker, asked'[s] # Nothing
      PROVE  InFlight(s)'
  <2>1. CASE s = r
    BY <1>1, <1>3, <2>1 DEF InFlight, Asked
  <2>2. CASE s # r
    <3>1. asked'[s] = asked[s] /\ InFlight(s)
      BY <1>1, <1>3, <2>2 DEF OInv
    <3> QED
      BY <1>1, <3>1 DEF InFlight, Asked
  <2> QED
    BY <2>1, <2>2
<1>4. ASSUME NEW h \in handle'
      PROVE  Holds(h)'
  BY <1>4 DEF OInv, Holds, Asked
<1> QED
  BY <1>2, <1>3, <1>4 DEF OInv

\* The decision on a document that was committed.
LEMMA Decided ==
    ASSUME OInv, NEW r \in Invoker, asked[r] # Nothing, NEW doc \in committed \cup {Nothing},
           Decides(r, doc)
    PROVE  \E c \in Invocation \cup {Nothing} :
              /\ Go(r, c)
              /\ c # Nothing => c.pc = "publish" /\ Asked(c)
<1> DEFINE c == asked[r]
           valid == doc # Nothing /\ Declares(doc, c.path) /\ Validated(doc[c.path], c)
<1>1. c \in Invocation
  BY DEF OInv, OperationsTypes
<1>2. CASE valid
  <2> DEFINE d == [c EXCEPT !.pc = "publish"]
  <2>1. /\ d \in Invocation /\ d.pc = "publish" /\ d.path = c.path
        /\ d.inputs = c.inputs /\ d.inouts = c.inouts
    BY <1>1 DEF Invocation
  <2>2. Go(r, d)
    BY <1>2 DEF Decides
  <2> HIDE DEF d
  <2>3. Asked(d)
    BY <1>2, <2>1 DEF Asked, Validated
  <2> QED
    BY <2>1, <2>2, <2>3
<1>3. CASE ~valid
  BY <1>3 DEF Decides
<1> QED
  BY <1>2, <1>3

LEMMA LoadsKeep ==
    ASSUME OInv, NEW r \in Invoker, asked[r] # Nothing, Load(r) \/ LoadForShell(r)
    PROVE  OInv'
<1>1. CASE Load(r)
  <2>1. /\ Decides(r, submodel)
        /\ UNCHANGED <<submodel, shell, copies, invocation, handle, numbered, committed>>
    BY <1>1 DEF Load
  <2>2. submodel \in committed \cup {Nothing} /\ DocumentTypes'
    BY <2>1 DEF OInv, DocumentTypes
  <2> QED
    BY <2>1, <2>2, Decided, RequestMoves
<1>2. CASE LoadForShell(r)
  <2> DEFINE refers == IF copies.shell # Nothing THEN copies.shell ELSE shell
             doc == IF copies.submodel # Nothing THEN copies.submodel ELSE submodel
  <2>1. /\ IF refers = TRUE THEN Decides(r, doc) ELSE Ends(r)
        /\ copies' = [shell |-> refers, submodel |-> IF refers = TRUE THEN doc ELSE copies.submodel]
        /\ UNCHANGED <<submodel, shell, invocation, handle, numbered, committed>>
    BY <1>2 DEF LoadForShell
  <2>2. /\ doc \in committed \cup {Nothing} /\ copies.submodel \in committed \cup {Nothing}
        /\ refers \in {TRUE, FALSE, Nothing}
    BY DEF OInv, DocumentTypes
  <2> HIDE DEF refers, doc
  <2>3. DocumentTypes'
    BY <2>1, <2>2 DEF OInv, DocumentTypes
  <2>4. CASE Decides(r, doc)
    BY <2>1, <2>2, <2>3, <2>4, Decided, RequestMoves
  <2>5. CASE Ends(r)
    BY <2>1, <2>3, <2>5, RequestMoves DEF Ends
  <2> QED
    BY <2>1, <2>4, <2>5
<1> QED
  BY <1>1, <1>2

LEMMA EndKeeps ==
    ASSUME OInv, NEW r \in Invoker, Ends(r),
           UNCHANGED <<submodel, shell, copies, invocation, handle, numbered, committed>>
    PROVE  OInv'
<1>1. DocumentTypes'
  BY DEF OInv, DocumentTypes
<1> QED
  BY <1>1, RequestMoves DEF Ends

LEMMA InvokeKeeps ==
    ASSUME OInv, NEW r \in Invoker, NEW scoped \in BOOLEAN, Invoke(r, scoped)
    PROVE  OInv'
<1>1. PICK path \in Path, inputs \in SUBSET Argument, inouts \in SUBSET Argument :
         Go(r, [pc |-> "read", scoped |-> scoped, path |-> path, inputs |-> inputs,
                inouts |-> inouts, number |-> 0])
  BY DEF Invoke
<1>2. [pc |-> "read", scoped |-> scoped, path |-> path, inputs |-> inputs,
       inouts |-> inouts, number |-> 0] \in Invocation
  BY NoneAbsent DEF Invocation
<1>3. /\ DocumentTypes'
      /\ UNCHANGED <<invocation, handle, numbered, committed>>
  BY DEF Invoke, OInv, DocumentTypes
<1> QED
  BY <1>1, <1>2, <1>3, RequestMoves

\* The next number is nobody's.
LEMMA PublishInvocationKeeps ==
    ASSUME OInv, NEW r \in Invoker, asked[r] # Nothing, PublishInvocation(r)
    PROVE  OInv'
<1>0. UNCHANGED <<submodel, shell, copies, invocation, handle, committed>> /\ asked[r].pc = "publish"
  BY DEF PublishInvocation
<1>1. CASE Ends(r) /\ UNCHANGED numbered
  BY <1>0, <1>1, EndKeeps
<1>2. CASE /\ numbered < MaxInvocations /\ numbered' = numbered + 1
           /\ Go(r, [asked[r] EXCEPT !.pc = "create", !.number = numbered + 1])
  <2> DEFINE n == numbered + 1
             c == [asked[r] EXCEPT !.pc = "create", !.number = n]
  <2>1. n \in Number /\ n \in 0..MaxInvocations /\ numbered \in Nat /\ n > numbered
    BY <1>2, NoneAbsent DEF OInv, OperationsTypes, Number
  <2>2. asked[r] \in Invocation /\ Asked(asked[r])
    BY <1>0 DEF OInv, OperationsTypes, InFlight
  <2>3. /\ c \in Invocation /\ c.pc = "create" /\ c.number = n /\ Asked(c)
    BY <2>1, <2>2 DEF Invocation, Asked
  <2>4. asked' = [asked EXCEPT ![r] = c]
    BY <1>2 DEF Go
  <2> HIDE DEF c
  <2>5. /\ asked' \in [Invoker -> Invocation \cup {Nothing}]
        /\ \A s \in Invoker : asked'[s] = IF s = r THEN c ELSE asked[s]
    BY <2>3, <2>4 DEF OInv, OperationsTypes
  <2>6. invocation[n] = Nothing
    BY <2>1 DEF OInv
  <2>7. OperationsTypes'
    BY <1>0, <1>2, <2>1, <2>5 DEF OInv, OperationsTypes
  <2>8. DocumentTypes'
    BY <1>0 DEF OInv, DocumentTypes
  <2>9. \A m \in Number : invocation'[m] # Nothing => m <= numbered'
    BY <1>0, <1>2, <2>1 DEF OInv, Number
  <2>10. ASSUME NEW s \in Invoker, s # r, asked[s] # Nothing
         PROVE  /\ asked[s].pc \in {"create", "answer"} => asked[s].number \in 1..numbered
                /\ InFlight(s)
    BY <2>10 DEF OInv, InFlight
  <2>11. ASSUME NEW s \in Invoker, asked'[s] # Nothing
         PROVE  InFlight(s)'
    <3>1. CASE s = r
      <4>1. \A o \in Invoker \ {r} :
               asked'[o] # Nothing /\ asked'[o].pc = "create" => asked'[o].number # n
        BY <2>1, <2>5, <2>10
      <4>2. asked'[r] = c /\ Asked(asked'[r]) /\ committed' = committed
        BY <1>0, <2>3, <2>5
      <4>3. n \in 1..numbered'
        BY <1>2, <2>1
      <4> QED
        BY <1>0, <2>3, <2>5, <2>6, <3>1, <4>1, <4>2, <4>3 DEF InFlight, Asked
    <3>2. CASE s # r
      <4>1. asked'[s] = asked[s] /\ asked[s] # Nothing
        BY <2>5, <2>11, <3>2
      <4>2. asked[s].pc \in {"create", "answer"} =>
               asked[s].number \in 1..numbered' /\ asked[s].number # n
        BY <1>2, <2>1, <2>10, <3>2, <4>1
      <4> QED
        BY <1>0, <2>3, <2>5, <2>10, <3>2, <4>1, <4>2 DEF InFlight, Asked
    <3> QED
      BY <3>1, <3>2
  <2>12. ASSUME NEW h \in handle'
         PROVE  Holds(h)'
    BY <1>0, <2>12 DEF OInv, Holds, Asked
  <2> QED
    BY <2>7, <2>8, <2>9, <2>11, <2>12 DEF OInv
<1> QED
  BY <1>1, <1>2 DEF PublishInvocation

\* The row is written where there was none.
LEMMA CreateKeeps ==
    ASSUME OInv, NEW r \in Invoker, asked[r] # Nothing, Create(r)
    PROVE  OInv'
<1> DEFINE c == asked[r]
           d == [c EXCEPT !.pc = "answer"]
<1>1. /\ c.pc = "create" /\ c \in Invocation /\ InFlight(r)
      /\ invocation' = [invocation EXCEPT ![c.number] = Row(c)]
      /\ asked' = [asked EXCEPT ![r] = d]
      /\ UNCHANGED <<submodel, shell, copies, handle, numbered, committed>>
  BY DEF Create, Recorded, Go, OInv, OperationsTypes
<1>2. /\ c.number \in 1..numbered /\ c.number \in Number /\ invocation[c.number] = Nothing
  BY <1>1, NoneAbsent DEF InFlight, OInv, OperationsTypes, Number
<1>3. Row(c) \in InvocationRow /\ Row(c) # Nothing
  BY <1>1, NoneAbsent DEF InvocationRow, Row, Invocation
<1>4. /\ d \in Invocation /\ d.pc = "answer" /\ d.number = c.number /\ Row(d) = Row(c)
      /\ d.path = c.path /\ d.inputs = c.inputs /\ d.inouts = c.inouts
  BY <1>1 DEF Invocation, Row
<1> HIDE DEF d
<1>5. /\ asked' \in [Invoker -> Invocation \cup {Nothing}]
      /\ \A s \in Invoker : asked'[s] = IF s = r THEN d ELSE asked[s]
      /\ invocation' \in [Number -> InvocationRow \cup {Nothing}]
      /\ \A n \in Number : invocation'[n] = IF n = c.number THEN Row(c) ELSE invocation[n]
  BY <1>1, <1>2, <1>3, <1>4 DEF OInv, OperationsTypes
<1>6. OperationsTypes' /\ DocumentTypes'
  BY <1>1, <1>5 DEF OInv, OperationsTypes, DocumentTypes
<1>7. \A n \in Number : invocation'[n] # Nothing => n <= numbered'
  BY <1>1, <1>2, <1>5 DEF OInv, Number
<1>8. ASSUME NEW s \in Invoker, asked'[s] # Nothing
      PROVE  InFlight(s)'
  <2>1. CASE s = r
    <3>1. Asked(c)
      BY <1>1 DEF InFlight
    <3>2. Asked(d)
      BY <1>4, <3>1 DEF Asked
    <3>3. asked'[r] = d /\ Asked(asked'[r]) /\ committed' = committed
      BY <1>1, <1>5, <3>2
    <3>4. invocation'[asked'[r].number] = Row(asked'[r]) /\ asked'[r].number \in 1..numbered'
      BY <1>1, <1>2, <1>4, <1>5, <3>3
    <3> QED
      BY <1>4, <2>1, <3>3, <3>4 DEF InFlight, Asked
  <2>2. CASE s # r
    <3>1. asked'[s] = asked[s] /\ asked[s] # Nothing /\ InFlight(s) /\ asked[s] \in Invocation
      BY <1>5, <1>8, <2>2 DEF OInv, OperationsTypes
    <3>2. asked[s].pc = "create" => asked[s].number # c.number
      BY <1>1, <2>2, <3>1 DEF InFlight
    <3>3. asked[s].pc = "answer" => asked[s].number # c.number
      BY <1>2, <3>1, <1>3, NoneAbsent DEF InFlight, Row, InvocationRow, Invocation
    <3>4. asked[s].pc \in {"create", "answer"} =>
             /\ asked[s].number \in Number
             /\ invocation'[asked[s].number] = invocation[asked[s].number]
      BY <1>5, <3>1, <3>2, <3>3, NoneAbsent DEF InFlight, OInv, OperationsTypes, Number
    <3>5. \A o \in Invoker \ {s} : asked'[o] # Nothing /\ asked'[o].pc = "create"
             => asked[o] # Nothing /\ asked[o].pc = "create" /\ asked'[o] = asked[o]
      BY <1>1, <1>4, <1>5
    <3> QED
      BY <1>1, <3>1, <3>4, <3>5 DEF InFlight, Asked
  <2> QED
    BY <2>1, <2>2
<1>9. ASSUME NEW h \in handle'
      PROVE  Holds(h)'
  <2>1. h \in Handle /\ Holds(h)
    BY <1>1, <1>9 DEF OInv, OperationsTypes
  <2>2. Row(h) # Nothing
    BY <2>1, NoneAbsent DEF Handle, InvocationRow, Row
  <2>3. h.number # c.number /\ h.number \in Number
    BY <1>2, <2>1, <2>2 DEF Holds, Handle
  <2> QED
    BY <1>1, <1>5, <2>1, <2>3 DEF Holds, Asked
<1> QED
  BY <1>6, <1>7, <1>8, <1>9 DEF OInv

LEMMA AnswerKeeps ==
    ASSUME OInv, NEW r \in Invoker, asked[r] # Nothing, Answer(r)
    PROVE  OInv'
<1> DEFINE c == asked[r]
           h == [number |-> c.number, path |-> c.path, inputs |-> c.inputs, inouts |-> c.inouts]
<1>1. /\ c.pc = "answer" /\ c \in Invocation /\ InFlight(r) /\ handle' = handle \cup {h}
      /\ asked' = [asked EXCEPT ![r] = Nothing]
      /\ UNCHANGED <<submodel, shell, copies, invocation, numbered, committed>>
  BY DEF Answer, Ends, Go, OInv, OperationsTypes
<1>2. h \in Handle /\ Holds(h)
  <2>1. c.number \in Number /\ invocation[c.number] = Row(c) /\ Asked(c)
    BY <1>1, NoneAbsent DEF InFlight, OInv, OperationsTypes, Number
  <2>2. Row(h) = Row(c) /\ h.number = c.number
    BY DEF Row
  <2>3. Asked(h)
    BY <2>1 DEF Asked
  <2> QED
    BY <1>1, <2>1, <2>2, <2>3 DEF Holds, Handle, Invocation
<1> HIDE DEF h
<1>3. /\ asked' \in [Invoker -> Invocation \cup {Nothing}]
      /\ \A s \in Invoker : asked'[s] = IF s = r THEN Nothing ELSE asked[s]
  BY <1>1 DEF OInv, OperationsTypes
<1>4. OperationsTypes' /\ DocumentTypes'
  BY <1>1, <1>2, <1>3 DEF OInv, OperationsTypes, DocumentTypes
<1>5. ASSUME NEW s \in Invoker, asked'[s] # Nothing
      PROVE  InFlight(s)'
  <2>1. s # r /\ asked'[s] = asked[s] /\ InFlight(s)
    BY <1>3, <1>5 DEF OInv
  <2> QED
    BY <1>1, <1>3, <2>1 DEF InFlight, Asked
<1>6. ASSUME NEW g \in handle'
      PROVE  Holds(g)'
  <2>1. Holds(g)
    BY <1>1, <1>2, <1>6 DEF OInv
  <2> QED
    BY <1>1, <2>1 DEF Holds, Asked
<1> QED
  BY <1>1, <1>4, <1>5, <1>6 DEF OInv

-----------------------------------------------------------------------------
(* The theorems.                                                           *)

\* The inductive invariant of the invocations: what is read was committed, and every
\* request in flight has a number of its own (the invoke handlers).
THEOREM HandlesInvariance == OperationsSpec => []OInv
<1>1. OperationsInit => OInv
  BY InitOInv
<1>2. OInv /\ [OperationsNext]_operationVars => OInv'
  <2> SUFFICES ASSUME OInv, [OperationsNext]_operationVars PROVE OInv'
    OBVIOUS
  <2>1. CASE UNCHANGED operationVars
    BY <2>1, WritesKeep DEF OInv, DocumentTypes, operationVars
  <2>2. ASSUME NEW r \in Invoker, InvokeOperation(r) \/ InvokeOperationForShell(r)
        PROVE  OInv'
    BY <2>2, InvokeKeeps DEF InvokeOperation, InvokeOperationForShell
  <2>3. ASSUME NEW r \in Invoker, asked[r] # Nothing, InvokerStep(r) \/ InvocationFails(r)
        PROVE  OInv'
    <3>1. CASE InvocationFails(r)
      BY <3>1, EndKeeps DEF InvocationFails
    <3>2. CASE InvokerStep(r)
      BY <2>3, <3>2, LoadsKeep, PublishInvocationKeeps, CreateKeeps, AnswerKeeps DEF InvokerStep
    <3> QED
      BY <2>3, <3>1, <3>2
  <2>4. CASE \E n \in Number : Undeliverable(n)
    BY <2>4, OthersKeep
  <2>5. CASE SubmodelWritten \/ ShellWritten \/ CopiesChange
    BY <2>5, OthersKeep
  <2> QED
    BY <2>1, <2>2, <2>3, <2>4, <2>5 DEF OperationsNext
<1> QED
  BY <1>1, <1>2, PTL DEF OperationsSpec

\* A handle that a client was given can be asked for by the path of its operation and
\* by no other one, and tells of the arguments that were sent, all of them declared
\* by a committed document (get_operation_status and the invoke handlers).
THEOREM HandlesAlwaysHold == OperationsSpec => []HandlesHold
BY HandlesInvariance, InvHolds, PTL

\* What is left of the types: the writes, and that the events are numbered.
OperationsCounted ==
    /\ writes \in 0..MaxWrites
    /\ eventOf \in [Number -> {Nothing, "sent", "dead"}]
    /\ \A n \in Number : eventOf[n] = Nothing <=> n > numbered

LEMMA OperationsCountedStep ==
    ASSUME OInv, OperationsCounted, [OperationsNext]_operationVars
    PROVE  OperationsCounted'
<1>1. /\ MaxWrites \in Nat /\ MaxInvocations \in Nat /\ Nothing # "sent" /\ Nothing # "dead"
      /\ numbered \in 0..MaxInvocations
  BY OperationsAssumption DEF OInv, OperationsTypes
<1>2. CASE UNCHANGED <<eventOf, numbered, writes>>
  BY <1>2 DEF OperationsCounted
<1>3. CASE SubmodelWritten \/ ShellWritten \/ CopiesChange
  <2>1. writes < MaxWrites /\ writes' = writes + 1 /\ UNCHANGED <<eventOf, numbered>>
    <3>1. CASE SubmodelWritten
      BY <3>1 DEF SubmodelWritten, Writes
    <3>2. CASE ShellWritten
      BY <3>2 DEF ShellWritten, Writes
    <3>3. CASE CopiesChange
      BY <3>3 DEF CopiesChange, Writes
    <3> QED
      BY <1>3, <3>1, <3>2, <3>3
  <2> QED
    BY <1>1, <2>1 DEF OperationsCounted
<1>4. ASSUME NEW r \in Invoker, PublishInvocation(r) PROVE OperationsCounted'
  <2>1. CASE UNCHANGED <<eventOf, numbered>>
    BY <1>2, <1>4, <2>1 DEF PublishInvocation
  <2>2. CASE /\ numbered < MaxInvocations /\ numbered' = numbered + 1
             /\ eventOf' = [eventOf EXCEPT ![numbered + 1] = "sent"]
    BY <1>1, <1>4, <2>2 DEF OperationsCounted, Number, PublishInvocation
  <2> QED
    BY <1>4, <2>1, <2>2 DEF PublishInvocation
<1>5. ASSUME NEW n \in Number, Undeliverable(n) PROVE OperationsCounted'
  BY <1>1, <1>5 DEF OperationsCounted, Undeliverable
<1>6. ASSUME NEW r \in Invoker,
             \/ InvokeOperation(r) \/ InvokeOperationForShell(r)
             \/ LoadForShell(r) \/ Load(r) \/ Create(r) \/ Answer(r) \/ InvocationFails(r)
      PROVE  UNCHANGED <<eventOf, numbered, writes>>
  BY <1>6 DEF InvokeOperation, InvokeOperationForShell, Invoke, LoadForShell, Load, Create,
     Answer, InvocationFails
<1> QED
  BY <1>2, <1>3, <1>4, <1>5, <1>6 DEF OperationsNext, InvokerStep, operationVars

\* Documents, copies, numbers and events keep their types, and a row or a handle is of
\* a number whose event was sent before.
LEMMA OperationsTypesHold == OperationsSpec => []OperationsTypeOK
<1>1. OperationsInit => OperationsCounted
  BY OperationsAssumption DEF OperationsInit, OperationsCounted, Number
<1>2. OInv /\ OperationsCounted => OperationsTypeOK
  <2> SUFFICES ASSUME OInv, OperationsCounted PROVE OperationsTypeOK
    OBVIOUS
  <2>1. /\ submodel \in Document \cup {Nothing} /\ shell \in {TRUE, FALSE, Nothing}
        /\ copies.submodel \in committed \cup {Nothing} /\ copies.shell \in {TRUE, FALSE, Nothing}
    BY DEF OInv, DocumentTypes
  <2>2. numbered \in 0..MaxInvocations /\ MaxInvocations \in Nat
    BY OperationsAssumption DEF OInv, OperationsTypes
  <2>3. \A n \in Number : eventOf[n] \in {"sent", "dead"} <=> n <= numbered
    BY <2>2, OperationsAssumption DEF OperationsCounted, Number
  <2>4. ASSUME NEW h \in handle PROVE h.number \in 1..numbered
    <3>1. h \in Handle /\ invocation[h.number] = Row(h)
      BY DEF OInv, OperationsTypes, Holds
    <3>2. Row(h) \in InvocationRow /\ Row(h) # Nothing /\ h.number \in Number
      BY <3>1, NoneAbsent DEF Handle, InvocationRow, Row
    <3> QED
      BY <2>2, <3>1, <3>2 DEF OInv, Number
  <2> QED
    BY <2>1, <2>2, <2>3, <2>4 DEF OperationsTypeOK, OperationsCounted, OInv
<1> QED
  BY <1>1, <1>2, OperationsCountedStep, HandlesInvariance, PTL DEF OperationsSpec

-----------------------------------------------------------------------------
(* The registry.  What requests have flushed is kept apart by the row locks  *)
(* and the index, so that the identifiers of a table differ whoever commits; *)
(* and where no two updates crossed, the columns say what the document says. *)

CallShape(c) ==
    /\ c = [table |-> c.table, pc |-> c.pc, id |-> c.id, doc |-> c.doc, bulk |-> c.bulk,
            strict |-> c.strict, todo |-> c.todo, edit |-> c.edit, pk |-> c.pk, snap |-> c.snap,
            mine |-> c.mine]
    /\ c.table \in {ShellRow, SubmodelRow}
    /\ c.mine = [k \in DOMAIN c.mine |-> c.mine[k]]

\* A request has flushed rows of its own table, which nobody else may insert.
IsCall(c) ==
    /\ CallShape(c)
    /\ DOMAIN c.mine \subseteq c.table \cap used
    /\ c.pc \in {"update", "delete"} => c.pk \in c.table \cap used

RegistryTypes ==
    /\ used \subseteq Pk
    /\ rows = [pk \in Pk |-> rows[pk]]
    /\ \A pk \in Pk : rows[pk] # Nothing => pk \in used
    /\ call = [r \in Caller |-> call[r]]
    /\ \A r \in Caller : call[r] # Nothing => IsCall(call[r])

Differ(x, y) == x = Nothing \/ y = Nothing \/ x.id # y.id

RowsDiffer ==
    \A table \in {ShellRow, SubmodelRow} : \A k, l \in table : k # l => Differ(rows[k], rows[l])

VisibleDiffer ==
    \A r \in Caller : call[r] # Nothing =>
        \A k, l \in call[r].table :
            k # l => Differ(Visible(call[r], k), Visible(call[r], l))

\* Two requests have flushed different rows, of different identifiers.
FlushedApart ==
    \A r, o \in Caller : r # o /\ call[r] # Nothing /\ call[o] # Nothing =>
        \A k \in DOMAIN call[r].mine, l \in DOMAIN call[o].mine :
            /\ k # l
            /\ call[r].table = call[o].table => Differ(call[r].mine[k], call[o].mine[l])

\* A row whose columns are what its document says, unless two updates have crossed.
InStep(x) == x # Nothing /\ ~x.crossed => x.id = x.doc.id /\ x.index = x.doc.index

MineInStep(c) == \A k \in DOMAIN c.mine : InStep(c.mine[k])

AllInStep ==
    /\ \A pk \in Pk : InStep(rows[pk])
    /\ \A r \in Caller : call[r] # Nothing => MineInStep(call[r])

RegistryInv ==
    RegistryTypes /\ RowsDiffer /\ VisibleDiffer /\ FlushedApart /\ AllInStep

LEMMA TablesApart ==
    /\ ShellRow \cap SubmodelRow = {} /\ Pk = ShellRow \cup SubmodelRow
    /\ Nothing \notin ShellRow /\ Nothing \notin SubmodelRow
BY RegistryAssumption DEF Pk

\* The request goes on with what it has flushed.
LEMMA CallGoesOn ==
    ASSUME RegistryInv, NEW r \in Caller, NEW c, c = call[r], c # Nothing, NEW d,
           CallGoes(r, d), IsCall(d), d.mine = c.mine, d.table = c.table
    PROVE  RegistryInv'
<1>1. /\ call'[r] = d /\ \A o \in Caller \ {r} : call'[o] = call[o]
      /\ call' = [o \in Caller |-> call'[o]]
      /\ UNCHANGED <<rows, used>>
  BY DEF RegistryInv, RegistryTypes, CallGoes
<1>2. \A e, k : Visible(e, k)' = Visible(e, k)
  BY <1>1 DEF Visible
<1>3. \A k : Visible(d, k) = Visible(c, k)
  BY DEF Visible
<1>4. RegistryTypes'
  BY <1>1 DEF RegistryInv, RegistryTypes, IsCall
<1>5. RowsDiffer'
  BY <1>1 DEF RegistryInv, RowsDiffer
<1>6. VisibleDiffer'
  BY <1>1, <1>2, <1>3 DEF RegistryInv, VisibleDiffer
<1>7. FlushedApart'
  BY <1>1 DEF RegistryInv, FlushedApart
<1>8. AllInStep'
  BY <1>1 DEF RegistryInv, AllInStep, MineInStep, InStep
<1> QED
  BY <1>4, <1>5, <1>6, <1>7, <1>8 DEF RegistryInv

LEMMA CallOver ==
    ASSUME RegistryInv, NEW r \in Caller, CallEnds(r) PROVE RegistryInv'
<1>1. /\ call'[r] = Nothing /\ \A o \in Caller \ {r} : call'[o] = call[o]
      /\ call' = [o \in Caller |-> call'[o]]
      /\ UNCHANGED <<rows, used>>
  BY DEF RegistryInv, RegistryTypes, CallEnds, CallGoes
<1>2. \A e, k : Visible(e, k)' = Visible(e, k)
  BY <1>1 DEF Visible
<1>4. RegistryTypes'
  BY <1>1 DEF RegistryInv, RegistryTypes, IsCall
<1>5. RowsDiffer'
  BY <1>1 DEF RegistryInv, RowsDiffer
<1>6. VisibleDiffer'
  BY <1>1, <1>2 DEF RegistryInv, VisibleDiffer
<1>7. FlushedApart'
  BY <1>1 DEF RegistryInv, FlushedApart
<1>8. AllInStep'
  BY <1>1 DEF RegistryInv, AllInStep, MineInStep, InStep
<1> QED
  BY <1>4, <1>5, <1>6, <1>7, <1>8 DEF RegistryInv

\* Nobody else has flushed the row, nor does another row of the table have its identifier.
MayFlush(r, pk, x) ==
    /\ \A o \in Caller \ {r} : call[o] # Nothing => pk \notin DOMAIN call[o].mine
    /\ \A k \in call[r].table \ {pk} : Differ(Visible(call[r], k), x)
    /\ \A o \in Caller \ {r} : call[o] # Nothing /\ call[o].table = call[r].table =>
          \A l \in DOMAIN call[o].mine : Differ(call[o].mine[l], x)

\* The request flushes a row, whose identifier nobody else has or is to have.
LEMMA CallFlushes ==
    ASSUME RegistryInv, NEW r \in Caller, NEW c, c = call[r], c # Nothing, NEW d,
           call' = [call EXCEPT ![r] = d], UNCHANGED rows,
           used \subseteq used', used' \subseteq Pk, IsCall(d)', d.table = c.table,
           NEW pk \in c.table, NEW x, d.mine = Flushed(c, pk, x),
           MayFlush(r, pk, x), InStep(x)
    PROVE  RegistryInv'
<1>1. /\ call'[r] = d /\ \A o \in Caller \ {r} : call'[o] = call[o]
      /\ call' = [o \in Caller |-> call'[o]]
  BY DEF RegistryInv, RegistryTypes
<1>2. \A e, k : Visible(e, k)' = Visible(e, k)
  BY DEF Visible
<1>3. /\ DOMAIN d.mine = DOMAIN c.mine \cup {pk} /\ d.mine[pk] = x
      /\ \A k \in DOMAIN c.mine \ {pk} : d.mine[k] = c.mine[k]
      /\ Visible(d, pk) = x /\ \A k : k # pk => Visible(d, k) = Visible(c, k)
  BY DEF Flushed, Visible
<1>4. RegistryTypes'
  BY <1>1 DEF RegistryInv, RegistryTypes, IsCall
<1>5. RowsDiffer'
  BY DEF RegistryInv, RowsDiffer
<1>6. VisibleDiffer'
  <2>1. ASSUME NEW k \in c.table, NEW l \in c.table, k # l
        PROVE  Differ(Visible(d, k), Visible(d, l))
    <3>1. k # pk /\ l # pk => Differ(Visible(d, k), Visible(d, l))
      BY <1>3, <2>1 DEF RegistryInv, VisibleDiffer
    <3> QED
      BY <1>3, <2>1, <3>1 DEF Differ, MayFlush
  <2> QED
    BY <1>1, <1>2, <2>1 DEF RegistryInv, VisibleDiffer
<1>7. FlushedApart'
  <2>1. ASSUME NEW o \in Caller \ {r}, call[o] # Nothing, NEW k \in DOMAIN d.mine,
               NEW l \in DOMAIN call[o].mine
        PROVE  k # l /\ (d.table = call[o].table => Differ(d.mine[k], call[o].mine[l]))
    <3>1. CASE k = pk
      BY <1>3, <2>1, <3>1 DEF Differ, MayFlush
    <3>2. CASE k # pk
      BY <1>3, <2>1, <3>2 DEF RegistryInv, FlushedApart
    <3> QED
      BY <3>1, <3>2
  <2>2. ASSUME NEW o \in Caller \ {r}, NEW q \in Caller \ {r}, o # q,
               call[o] # Nothing, call[q] # Nothing,
               NEW k \in DOMAIN call[o].mine, NEW l \in DOMAIN call[q].mine
        PROVE  k # l /\ (call[o].table = call[q].table => Differ(call[o].mine[k], call[q].mine[l]))
    BY <2>2 DEF RegistryInv, FlushedApart
  <2> QED
    BY <1>1, <2>1, <2>2 DEF FlushedApart, Differ
<1>8. AllInStep'
  <2>1. MineInStep(d)
    BY <1>3 DEF RegistryInv, AllInStep, MineInStep
  <2> QED
    BY <1>1, <2>1 DEF RegistryInv, AllInStep, MineInStep, InStep
<1> QED
  BY <1>4, <1>5, <1>6, <1>7, <1>8 DEF RegistryInv

LEMMA CommitKeeps ==
    ASSUME RegistryInv, NEW r \in Caller, call[r] # Nothing, Commit(r) PROVE RegistryInv'
<1> PICK c : c = call[r]
  OBVIOUS
<1>1. /\ call'[r] = Nothing /\ \A o \in Caller \ {r} : call'[o] = call[o]
      /\ call' = [o \in Caller |-> call'[o]]
      /\ used' = used /\ used \subseteq Pk
      /\ rows' = [pk \in Pk |-> Visible(c, pk)] /\ IsCall(c) /\ c # Nothing
  BY DEF RegistryInv, RegistryTypes, Commit
<1>2. \A pk \in Pk : rows'[pk] = IF pk \in DOMAIN c.mine THEN c.mine[pk] ELSE rows[pk]
  BY <1>1 DEF Visible
<1>3. RegistryTypes'
  <2>1. rows' = [pk \in Pk |-> rows'[pk]]
    BY <1>1
  <2>2. \A pk \in Pk : rows'[pk] # Nothing => pk \in used
    BY <1>1, <1>2 DEF RegistryInv, RegistryTypes, IsCall
  <2>3. \A o \in Caller : call'[o] # Nothing => IsCall(call[o]) /\ call'[o] = call[o]
    BY <1>1 DEF RegistryInv, RegistryTypes
  <2> QED
    BY <1>1, <2>1, <2>2, <2>3 DEF RegistryTypes, IsCall
<1>4. RowsDiffer'
  <2>1. \A k, l \in c.table : k # l => Differ(rows'[k], rows'[l])
    BY <1>1, TablesApart DEF RegistryInv, VisibleDiffer, IsCall, CallShape
  <2>2. ASSUME NEW table \in {ShellRow, SubmodelRow}, table # c.table, NEW k \in table,
               NEW l \in table, k # l
        PROVE  Differ(rows'[k], rows'[l])
    <3>1. k \in Pk /\ l \in Pk /\ k \notin DOMAIN c.mine /\ l \notin DOMAIN c.mine
      BY <1>1, <2>2, TablesApart DEF IsCall, CallShape
    <3> QED
      BY <1>2, <2>2, <3>1 DEF RegistryInv, RowsDiffer
  <2> QED
    BY <2>1, <2>2 DEF RowsDiffer, Differ
<1>5. VisibleDiffer'
  <2>1. ASSUME NEW o \in Caller \ {r}, NEW e, e = call[o], e # Nothing, NEW k \in e.table,
               NEW l \in e.table, k # l
        PROVE  Differ(Visible(e, k)', Visible(e, l)')
    <3>1. IsCall(e) /\ k \in Pk /\ l \in Pk
      BY <2>1, TablesApart DEF RegistryInv, RegistryTypes, IsCall, CallShape
    <3>2. \A j \in e.table : Visible(e, j)' = IF j \in DOMAIN e.mine THEN e.mine[j] ELSE rows'[j]
      BY DEF Visible
    <3>3. Differ(Visible(e, k), Visible(e, l))
      BY <2>1 DEF RegistryInv, VisibleDiffer
    <3>4. Differ(Visible(c, k), Visible(c, l)) \/ e.table # c.table
      BY <1>1, <2>1 DEF RegistryInv, VisibleDiffer
    <3>5. /\ \A i \in DOMAIN c.mine, j \in DOMAIN e.mine :
                i # j /\ (c.table = e.table => Differ(c.mine[i], e.mine[j]))
          /\ e.table # c.table =>
                k \notin DOMAIN c.mine /\ l \notin DOMAIN c.mine
      BY <1>1, <2>1, <3>1, TablesApart DEF RegistryInv, FlushedApart, IsCall, CallShape
    <3>6. Differ(Visible(e, k)', Visible(e, l)')
      <4>1. /\ Visible(e, k) = IF k \in DOMAIN e.mine THEN e.mine[k] ELSE rows[k]
            /\ Visible(e, l) = IF l \in DOMAIN e.mine THEN e.mine[l] ELSE rows[l]
            /\ Visible(c, k) = IF k \in DOMAIN c.mine THEN c.mine[k] ELSE rows[k]
            /\ Visible(c, l) = IF l \in DOMAIN c.mine THEN c.mine[l] ELSE rows[l]
            /\ Visible(e, k)' = IF k \in DOMAIN e.mine THEN e.mine[k] ELSE rows'[k]
            /\ Visible(e, l)' = IF l \in DOMAIN e.mine THEN e.mine[l] ELSE rows'[l]
            /\ rows'[k] = IF k \in DOMAIN c.mine THEN c.mine[k] ELSE rows[k]
            /\ rows'[l] = IF l \in DOMAIN c.mine THEN c.mine[l] ELSE rows[l]
        BY <1>2, <2>1, <3>1, <3>2 DEF Visible
      <4>2. CASE e.table # c.table
        BY <3>3, <3>5, <4>1, <4>2
      <4>3. CASE e.table = c.table
        <5>1. CASE k \in DOMAIN e.mine /\ l \in DOMAIN e.mine
          BY <3>3, <4>1, <5>1
        <5>2. CASE k \notin DOMAIN e.mine /\ l \notin DOMAIN e.mine
          BY <3>4, <4>1, <4>3, <5>2
        <5>3. CASE k \in DOMAIN e.mine /\ l \notin DOMAIN e.mine
          BY <3>3, <3>5, <4>1, <4>3, <5>3 DEF Differ
        <5>4. CASE k \notin DOMAIN e.mine /\ l \in DOMAIN e.mine
          BY <3>3, <3>5, <4>1, <4>3, <5>4 DEF Differ
        <5> QED
          BY <5>1, <5>2, <5>3, <5>4
      <4> QED
        BY <4>2, <4>3
    <3> QED
      BY <3>6
  <2> QED
    BY <1>1, <2>1 DEF VisibleDiffer
<1>6. FlushedApart'
  BY <1>1 DEF RegistryInv, FlushedApart
<1>7. AllInStep'
  <2>1. \A pk \in Pk : InStep(rows'[pk])
    BY <1>1, <1>2 DEF RegistryInv, AllInStep, MineInStep
  <2> QED
    BY <1>1, <2>1 DEF RegistryInv, AllInStep, MineInStep, InStep
<1> QED
  BY <1>3, <1>4, <1>5, <1>6, <1>7 DEF RegistryInv

\* A request begins, and has flushed nothing yet.
LEMMA BeginCallKeeps ==
    ASSUME RegistryInv, NEW r \in Caller, NEW c, BeginCall(r, c), IsCall(c), DOMAIN c.mine = {}
    PROVE  RegistryInv'
<1>1. /\ call[r] = Nothing /\ call'[r] = c /\ \A o \in Caller \ {r} : call'[o] = call[o]
      /\ call' = [o \in Caller |-> call'[o]]
      /\ used' = used /\ rows' = rows
  BY DEF RegistryInv, RegistryTypes, BeginCall
<1>2. \A e, k : Visible(e, k)' = Visible(e, k)
  BY <1>1 DEF Visible
<1>3. \A k \in c.table : Visible(c, k) = rows[k]
  BY DEF Visible
<1>4. RegistryTypes'
  BY <1>1 DEF RegistryInv, RegistryTypes, IsCall
<1>5. RowsDiffer'
  BY <1>1 DEF RegistryInv, RowsDiffer
<1>6. VisibleDiffer'
  BY <1>1, <1>2, <1>3 DEF RegistryInv, VisibleDiffer, RowsDiffer, IsCall, CallShape
<1>7. FlushedApart'
  BY <1>1 DEF RegistryInv, FlushedApart
<1>8. AllInStep'
  BY <1>1 DEF RegistryInv, AllInStep, MineInStep, InStep
<1> QED
  BY <1>4, <1>5, <1>6, <1>7, <1>8 DEF RegistryInv

LEMMA CallFits ==
    ASSUME NEW table \in {ShellRow, SubmodelRow}, NEW pc \in {"exists", "match", "select", "load"},
           NEW id, NEW doc
    PROVE  IsCall(Call(table, pc, id, doc)) /\ DOMAIN Call(table, pc, id, doc).mine = {}
<1> PICK c : c = Call(table, pc, id, doc)
  OBVIOUS
<1>1. /\ CallShape(c) /\ c.pc = pc /\ DOMAIN c.mine = {}
  BY DEF Call, CallShape
<1> QED
  BY <1>1 DEF IsCall

LEMMA HandlerKeeps ==
    ASSUME RegistryInv, NEW r \in Caller, RegistryHandler(r) PROVE RegistryInv'
<1>1. ASSUME NEW table \in {ShellRow, SubmodelRow},
             \/ PostDescriptor(r, table) \/ PutDescriptorById(r, table) \/ DeleteDescriptorById(r, table)
      PROVE  RegistryInv'
  BY <1>1, CallFits, BeginCallKeeps DEF PostDescriptor, PutDescriptorById, DeleteDescriptorById
<1>2. ASSUME NEW table \in {ShellRow, SubmodelRow}, BulkCreateDescriptors(r, table) PROVE RegistryInv'
  <2>1. PICK first, second : BeginCall(r, [Call(table, "exists", first.id, first) EXCEPT
                                           !.bulk = TRUE, !.strict = FALSE, !.todo = <<second>>])
    BY <1>2 DEF BulkCreateDescriptors
  <2> PICK c : c = [Call(table, "exists", first.id, first) EXCEPT
                        !.bulk = TRUE, !.strict = FALSE, !.todo = <<second>>]
    OBVIOUS
  <2>2. CallShape(c) /\ c.pc = "exists" /\ DOMAIN c.mine = {}
    BY DEF Call, CallShape
  <2>3. IsCall(c)
    BY <2>2 DEF IsCall
  <2> QED
    BY <2>1, <2>2, <2>3, BeginCallKeeps
<1>3. ASSUME NEW kind, NEW old, NEW new, NEW strict, Edits(r, kind, old, new, strict)
      PROVE  RegistryInv'
  <2>1. PICK id \in Id : BeginCall(r, [Call(ShellRow, "load", id, Nothing) EXCEPT
                             !.edit = [kind |-> kind, old |-> old, new |-> new], !.strict = strict])
    BY <1>3 DEF Edits
  <2> PICK c : c = [Call(ShellRow, "load", id, Nothing) EXCEPT
                        !.edit = [kind |-> kind, old |-> old, new |-> new], !.strict = strict]
    OBVIOUS
  <2>2. CallShape(c) /\ c.pc = "load" /\ DOMAIN c.mine = {}
    BY DEF Call, CallShape
  <2>3. IsCall(c)
    BY <2>2 DEF IsCall
  <2> QED
    BY <2>1, <2>2, <2>3, BeginCallKeeps
<1> QED
  BY <1>1, <1>2, <1>3 DEF RegistryHandler, PostShellDescriptor, PutShellDescriptorById,
     DeleteShellDescriptorById, BulkCreateShellDescriptors, PostSubmodelDescriptor,
     PutSubmodelDescriptorById, DeleteSubmodelDescriptorById, BulkCreateSubmodelDescriptors,
     PostNestedSubmodelDescriptor, PutNestedSubmodelDescriptor, DeleteNestedSubmodelDescriptor,
     PostAssetLinksById, DeleteAssetLinksById

\* What the next document of a bulk request, or the commit, finds.
LEMMA FollowingFits ==
    ASSUME NEW c, CallShape(c), NEW d, d = Following(c)
    PROVE  /\ CallShape(d) /\ d.table = c.table /\ d.mine = c.mine
           /\ d.pc \in {"commit", "exists"}
           /\ DOMAIN c.mine \subseteq c.table \cap used => IsCall(d)
<1>1. CallShape(d) /\ d.table = c.table /\ d.mine = c.mine /\ d.pc \in {"commit", "exists"}
  BY DEF CallShape, Following
<1> QED
  BY <1>1 DEF IsCall

LEMMA AtCall ==
    ASSUME RegistryInv, NEW r \in Caller, NEW c, c = call[r], c # Nothing
    PROVE  /\ CallShape(c) /\ IsCall(c)
           /\ DOMAIN c.mine \subseteq c.table \cap used
           /\ \A k \in c.table : Visible(c, k) # Nothing => k \in c.table \cap used
<1>1. IsCall(c)
  BY DEF RegistryInv, RegistryTypes
<1>2. \A k \in c.table : Visible(c, k) # Nothing => k \in c.table \cap used
  BY <1>1, TablesApart DEF RegistryInv, RegistryTypes, Visible, IsCall, CallShape
<1> QED
  BY <1>1, <1>2 DEF IsCall

\* A request that only takes its next step.
LEMMA PcGoesOn ==
    ASSUME RegistryInv, NEW r \in Caller, NEW c, c = call[r], c # Nothing,
           NEW pc \in {"insert", "select"}, NEW doc, CallGoes(r, [c EXCEPT !.pc = pc, !.doc = doc])
    PROVE  RegistryInv'
<1> PICK d : d = [c EXCEPT !.pc = pc, !.doc = doc]
  OBVIOUS
<1>1. CallShape(c) /\ IsCall(c)
  BY AtCall
<1>2. CallShape(d) /\ d.table = c.table /\ d.mine = c.mine /\ d.pc = pc
  BY <1>1 DEF CallShape
<1>3. IsCall(d)
  BY <1>1, <1>2 DEF IsCall
<1> QED
  BY <1>2, <1>3, CallGoesOn

LEMMA LoadDocKeeps ==
    ASSUME RegistryInv, NEW r \in Caller, call[r] # Nothing, LoadDoc(r) PROVE RegistryInv'
<1>1. CASE CallEnds(r)
  BY <1>1, CallOver
<1>2. ASSUME NEW doc, CallGoes(r, [call[r] EXCEPT !.pc = "select", !.doc = doc]) PROVE RegistryInv'
  BY <1>2, PcGoesOn
<1> QED
  BY <1>1, <1>2 DEF LoadDoc

LEMMA SelectKeeps ==
    ASSUME RegistryInv, NEW r \in Caller, call[r] # Nothing, Select(r) PROVE RegistryInv'
<1> PICK c : c = call[r]
  OBVIOUS
<1>1. CASE CallEnds(r)
  BY <1>1, CallOver
<1>2. /\ CallShape(c) /\ IsCall(c) /\ c # Nothing
      /\ DOMAIN c.mine \subseteq c.table \cap used
  BY AtCall
<1>3. CASE CallGoes(r, Following(c))
  <2> PICK d : d = Following(c)
    OBVIOUS
  <2>1. IsCall(d) /\ d.table = c.table /\ d.mine = c.mine
    BY <1>2, FollowingFits
  <2> QED
    BY <1>2, <1>3, <2>1, CallGoesOn
<1>4. ASSUME NEW pk \in Find(c, c.id),
             CallGoes(r, [c EXCEPT !.pc = IF c.doc = Nothing THEN "delete" ELSE "update",
                               !.pk = pk, !.snap = Visible(c, pk)])
      PROVE  RegistryInv'
  <2> PICK snap : snap = Visible(c, pk)
    OBVIOUS
  <2> PICK pc : pc = IF c.doc = Nothing THEN "delete" ELSE "update"
    OBVIOUS
  <2> PICK d : d = [c EXCEPT !.pc = pc, !.pk = pk, !.snap = snap]
    OBVIOUS
  <2>1. pk \in c.table \cap used
    BY <1>2, AtCall DEF Find
  <2>2. /\ CallShape(d) /\ d.table = c.table /\ d.mine = c.mine /\ d.pc = pc
        /\ d.todo = c.todo /\ d.doc = c.doc /\ d.pk = pk /\ d.snap = snap
    BY <1>2 DEF CallShape
  <2>3. IsCall(d)
    BY <1>2, <2>1, <2>2 DEF IsCall
  <2>5. CallGoes(r, d)
    BY <1>4
  <2> QED
    BY <1>2, <2>2, <2>3, <2>5, CallGoesOn
<1> QED
  BY <1>1, <1>3, <1>4 DEF Select

\* A request flushes and goes on to the next document.
LEMMA FlushGoesOn ==
    ASSUME RegistryInv, NEW r \in Caller, NEW c, c = call[r], c # Nothing, NEW e, CallShape(e),
           call' = [call EXCEPT ![r] = Following(e)], UNCHANGED rows,
           used \subseteq used', used' \subseteq Pk, e.table = c.table,
           NEW pk \in c.table \cap used', NEW x, e.mine = Flushed(c, pk, x),
           MayFlush(r, pk, x), InStep(x)
    PROVE  RegistryInv'
<1> PICK d : d = Following(e)
  OBVIOUS
<1>1. IsCall(c) /\ DOMAIN c.mine \subseteq c.table \cap used
  BY AtCall
<1>2. CallShape(d) /\ d.table = e.table /\ d.mine = e.mine /\ d.pc \in {"commit", "exists"}
  BY FollowingFits
<1>3. DOMAIN e.mine = DOMAIN c.mine \cup {pk}
  BY DEF Flushed
<1>4. IsCall(d)'
  BY <1>1, <1>2, <1>3 DEF IsCall
<1>5. d.table = c.table /\ d.mine = Flushed(c, pk, x) /\ pk \in c.table
  BY <1>2
<1>6. call' = [call EXCEPT ![r] = d]
  OBVIOUS
<1>7. /\ RegistryInv /\ c = call[r] /\ c # Nothing /\ UNCHANGED rows
      /\ used \subseteq used' /\ used' \subseteq Pk /\ MayFlush(r, pk, x) /\ InStep(x)
  OBVIOUS
<1> QED
  BY ONLY r \in Caller, <1>4, <1>5, <1>6, <1>7, CallFlushes

\* Whom the index makes wait: nobody has flushed the identifier, or holds it back.
LEMMA NotContested ==
    ASSUME NEW r \in Caller, NEW c, c = call[r], NEW x, ~Contested(r, x.id)
    PROVE  \A o \in Caller \ {r} : call[o] # Nothing =>
              \A l \in DOMAIN call[o].mine \cap c.table : Differ(call[o].mine[l], x)
BY DEF Contested, Differ

LEMMA InsertKeeps ==
    ASSUME RegistryInv, NEW r \in Caller, call[r] # Nothing, Insert(r) PROVE RegistryInv'
<1> PICK c : c = call[r]
  OBVIOUS
<1>1. CASE CallEnds(r)
  BY <1>1, CallOver
<1>2. CASE ~CallEnds(r)
  <2> PICK pk : pk = CHOOSE k \in c.table \ used : TRUE
    OBVIOUS
  <2> PICK x : x = RowOf(c.doc)
    OBVIOUS
  <2> PICK e : e = [c EXCEPT !.mine = Flushed(c, pk, x)]
    OBVIOUS
  <2>1. /\ c.pc = "insert" /\ ~Contested(r, c.doc.id) /\ Taken(c, c.doc.id, Nothing) = {}
        /\ c.table \ used # {} /\ used' = used \cup {pk}
        /\ call' = [call EXCEPT ![r] = Following(e)]
        /\ rows' = rows /\ c # Nothing
    BY <1>2 DEF Insert
  <2>2. pk \in c.table \ used
    BY <2>1
  <2>3. CallShape(c) /\ IsCall(c) /\ c.table \subseteq Pk /\ used \subseteq Pk
    BY <2>1, AtCall, TablesApart, SMTT(60) DEF CallShape, RegistryInv, RegistryTypes
  <2>4. CallShape(e) /\ e.table = c.table /\ e.mine = Flushed(c, pk, x)
    BY <2>3 DEF CallShape, Flushed
  <2>5. x.id = c.doc.id /\ x.doc = c.doc /\ x.index = c.doc.index
    BY DEF RowOf
  <2>6. \A o \in Caller \ {r} : call[o] # Nothing =>
           pk \notin DOMAIN call[o].mine /\ DOMAIN call[o].mine \subseteq call[o].table
    BY <2>2 DEF RegistryInv, RegistryTypes, IsCall
  <2>7. \A k \in c.table \ {pk} : Differ(Visible(c, k), x)
    BY <2>1, <2>3, <2>5, TablesApart DEF Taken, Differ, CallShape
  <2>8. \A o \in Caller \ {r} : call[o] # Nothing /\ call[o].table = c.table =>
           \A l \in DOMAIN call[o].mine : Differ(call[o].mine[l], x)
    BY <2>1, <2>5, <2>6, NotContested
  <2>12. MayFlush(r, pk, x)
    BY <2>6, <2>7, <2>8 DEF MayFlush
  <2>9. InStep(x)
    BY <2>5 DEF InStep
  <2>10. used \subseteq used' /\ used' \subseteq Pk /\ pk \in c.table \cap used'
    BY <2>1, <2>2, <2>3
  <2>11. RegistryInv /\ c = call[r]
    OBVIOUS
  <2> QED
    BY ONLY r \in Caller, <2>1, <2>4, <2>9, <2>10, <2>11, <2>12, FlushGoesOn
<1> QED
  BY <1>1, <1>2

LEMMA DeleteKeeps ==
    ASSUME RegistryInv, NEW r \in Caller, call[r] # Nothing, Delete(r) PROVE RegistryInv'
<1> PICK c : c = call[r]
  OBVIOUS
<1> PICK mine : mine = Flushed(c, c.pk, Nothing)
  OBVIOUS
<1> PICK e : e = [c EXCEPT !.mine = mine, !.pk = Nothing, !.snap = Nothing]
  OBVIOUS
<1>1. /\ c.pc = "delete" /\ Holders(c.pk) \subseteq {r} /\ c # Nothing
      /\ call' = [call EXCEPT ![r] = Following(e)]
      /\ rows' = rows /\ used' = used
  BY DEF Delete, CallGoes
<1>2. CallShape(c) /\ IsCall(c) /\ used \subseteq Pk
  BY <1>1, AtCall DEF RegistryInv, RegistryTypes
<1>3. CallShape(e) /\ e.table = c.table /\ e.mine = Flushed(c, c.pk, Nothing)
  BY <1>2 DEF CallShape, Flushed
<1>4. \A o \in Caller \ {r} : call[o] # Nothing => c.pk \notin DOMAIN call[o].mine
  BY <1>1 DEF Holders
<1>5. /\ \A k \in c.table \ {c.pk} : Differ(Visible(c, k), Nothing)
      /\ \A o \in Caller \ {r} : call[o] # Nothing /\ call[o].table = c.table =>
            \A l \in DOMAIN call[o].mine : Differ(call[o].mine[l], Nothing)
      /\ InStep(Nothing)
  BY DEF Differ, InStep
<1>8. MayFlush(r, c.pk, Nothing)
  BY <1>4, <1>5 DEF MayFlush
<1>6. used \subseteq used' /\ used' \subseteq Pk /\ c.pk \in c.table \cap used'
  BY <1>1, <1>2 DEF IsCall
<1>7. RegistryInv /\ c = call[r]
  OBVIOUS
<1> QED
  BY ONLY r \in Caller, <1>1, <1>3, <1>5, <1>6, <1>7, <1>8, FlushGoesOn

\* A request with other flushed rows.
LEMMA MineTaken ==
    ASSUME NEW c, CallShape(c), NEW mine, mine = [k \in DOMAIN mine |-> mine[k]],
           NEW e, e = [c EXCEPT !.mine = mine]
    PROVE  /\ CallShape(e) /\ e.table = c.table /\ e.todo = c.todo /\ e.doc = c.doc
           /\ e.mine = mine
BY DEF CallShape

\* An UPDATE that finds what its SELECT has found leaves the columns of its document.
LEMMA UpdateInStep ==
    ASSUME NEW snap, NEW doc, NEW current, NEW x, x = SetColumns(snap, RowOf(doc), current)
    PROVE  InStep(x)
<1> SUFFICES ASSUME x # Nothing, ~x.crossed
             PROVE  x.id = x.doc.id /\ x.index = x.doc.index
  BY DEF InStep
<1>1. /\ x.id = Written(snap.id, doc.id, current.id)
      /\ x.index = Written(snap.index, doc.index, current.index)
      /\ x.doc = Written(snap.doc, doc, current.doc)
      /\ x.crossed = ~Same(current, snap)
  BY DEF SetColumns, RowOf
<1>2. Same(current, snap)
  BY <1>1
<1>3. x.id = doc.id /\ x.index = doc.index /\ x.doc = doc
  BY <1>1, <1>2 DEF Same, Written
<1> QED
  BY <1>3

LEMMA UpdateKeeps ==
    ASSUME RegistryInv, NEW r \in Caller, call[r] # Nothing, Update(r) PROVE RegistryInv'
<1> PICK c : c = call[r]
  OBVIOUS
<1> PICK done : done = [c EXCEPT !.pk = Nothing, !.snap = Nothing]
  OBVIOUS
<1> PICK current : current = Visible(c, c.pk)
  OBVIOUS
<1> PICK x : x = SetColumns(c.snap, RowOf(c.doc), current)
  OBVIOUS
<1>1. /\ CallShape(c) /\ IsCall(c) /\ used \subseteq Pk /\ c # Nothing /\ c.pc = "update"
      /\ DOMAIN c.mine \subseteq c.table \cap used
  BY AtCall DEF RegistryInv, RegistryTypes, Update
<1>2. /\ CallShape(done) /\ done.table = c.table /\ done.mine = c.mine /\ done.todo = c.todo
      /\ done.doc = c.doc
  BY <1>1 DEF CallShape
<1>3. CASE CallEnds(r)
  BY <1>3, CallOver
<1>4. CASE CallGoes(r, Following(done))
  <2>0. PICK d : d = Following(done)
    OBVIOUS
  <2>1. /\ d.table = done.table /\ d.mine = done.mine
        /\ DOMAIN done.mine \subseteq done.table \cap used => IsCall(d)
    BY ONLY <1>2, <2>0, FollowingFits
  <2>2. IsCall(d) /\ d.table = c.table /\ d.mine = c.mine
    BY ONLY <1>1, <1>2, <2>1
  <2> QED
    BY <1>1, <1>4, <2>0, <2>2, CallGoesOn
<1>5. ASSUME Holders(c.pk) \subseteq {r}, current # Nothing, ~Contested(r, x.id),
             Taken(c, x.id, c.pk) = {},
             CallGoes(r, Following([done EXCEPT !.mine = Flushed(c, c.pk, x)]))
      PROVE  RegistryInv'
  <2> PICK mine : mine = Flushed(c, c.pk, x)
    OBVIOUS
  <2>0. PICK e : e = [done EXCEPT !.mine = mine]
    OBVIOUS
  <2>1. /\ call' = [call EXCEPT ![r] = Following(e)]
        /\ rows' = rows /\ used' = used
    BY <1>5, <2>0 DEF CallGoes
  <2>2. CallShape(e) /\ e.table = c.table /\ e.mine = Flushed(c, c.pk, x)
    <3>1. mine = [k \in DOMAIN mine |-> mine[k]]
      BY DEF Flushed
    <3>2. CallShape(e) /\ e.table = done.table /\ e.mine = mine
      BY ONLY <1>2, <2>0, <3>1, MineTaken
    <3> QED
      BY <1>2, <3>2
  <2>3. \A o \in Caller \ {r} : call[o] # Nothing =>
           c.pk \notin DOMAIN call[o].mine /\ DOMAIN call[o].mine \subseteq call[o].table
    BY <1>5 DEF Holders, RegistryInv, RegistryTypes, IsCall
  <2>4. \A k \in c.table \ {c.pk} : Differ(Visible(c, k), x)
    BY <1>5 DEF Taken, Differ
  <2>5. \A o \in Caller \ {r} : call[o] # Nothing /\ call[o].table = c.table =>
           \A l \in DOMAIN call[o].mine : Differ(call[o].mine[l], x)
    BY <1>5, <2>3, NotContested
  <2>9. MayFlush(r, c.pk, x)
    BY <2>3, <2>4, <2>5 DEF MayFlush
  <2>6. InStep(x)
    BY UpdateInStep
  <2>7. used \subseteq used' /\ used' \subseteq Pk /\ c.pk \in c.table \cap used'
    BY <1>1, <2>1 DEF IsCall
  <2>8. RegistryInv /\ c = call[r] /\ c # Nothing
    BY <1>1
  <2> QED
    BY ONLY r \in Caller, <2>1, <2>2, <2>6, <2>7, <2>8, <2>9, FlushGoesOn
<1> QED
  BY <1>3, <1>4, <1>5 DEF Update

LEMMA RegistryStep ==
    ASSUME RegistryInv, [RegistryNext]_registryVars PROVE RegistryInv'
<1>1. CASE UNCHANGED registryVars
  <2>1. UNCHANGED <<rows, used, call>> /\ \A c, k : Visible(c, k)' = Visible(c, k)
    BY <1>1 DEF registryVars, Visible
  <2>2. RegistryTypes'
    BY <2>1 DEF RegistryInv, RegistryTypes, IsCall
  <2>5. RowsDiffer' /\ FlushedApart'
    BY <2>1 DEF RegistryInv, RowsDiffer, FlushedApart
  <2>3. VisibleDiffer'
    BY <2>1 DEF RegistryInv, VisibleDiffer
  <2>4. AllInStep'
    BY <2>1 DEF RegistryInv, AllInStep, MineInStep, InStep
  <2> QED
    BY <2>2, <2>3, <2>4, <2>5 DEF RegistryInv
<1>2. ASSUME NEW r \in Caller, call[r] # Nothing, SessionStep(r) PROVE RegistryInv'
  <2>0. ASSUME NEW pc \in {"insert", "select"}, CallGoes(r, [call[r] EXCEPT !.pc = pc])
        PROVE  RegistryInv'
    <3> PICK c, doc : c = call[r] /\ doc = c.doc
      OBVIOUS
    <3>1. [c EXCEPT !.pc = pc] = [c EXCEPT !.pc = pc, !.doc = doc]
      BY <1>2, AtCall DEF CallShape
    <3>2. CallGoes(r, [c EXCEPT !.pc = pc, !.doc = doc])
      BY <2>0, <3>1
    <3> QED
      BY <1>2, <3>2, PcGoesOn
  <2>1. CASE Exists(r)
    <3>1. \/ CallGoes(r, [call[r] EXCEPT !.pc = "insert"]) \/ CallGoes(r, [call[r] EXCEPT !.pc = "select"])
          \/ CallEnds(r)
      BY <2>1 DEF Exists
    <3> QED
      BY <2>0, <3>1, CallOver
  <2>2. CASE Match(r)
    <3>1. CallGoes(r, [call[r] EXCEPT !.pc = "select"]) \/ CallEnds(r)
      BY <2>2 DEF Match
    <3> QED
      BY <2>0, <3>1, CallOver
  <2>3. CASE AbortCall(r)
    BY <2>3, CallOver DEF AbortCall
  <2> QED
    BY <1>2, <2>1, <2>2, <2>3, InsertKeeps, LoadDocKeeps, SelectKeeps, UpdateKeeps, DeleteKeeps,
       CommitKeeps DEF SessionStep
<1> QED
  BY <1>1, <1>2, HandlerKeeps DEF RegistryNext

\* Every step keeps what requests have flushed apart.
LEMMA RegistryInvariance == RegistrySpec => []RegistryInv
<1>1. RegistryInit => RegistryInv
  BY TablesApart DEF RegistryInit, RegistryInv, RegistryTypes, RowsDiffer, VisibleDiffer, FlushedApart,
     AllInStep, MineInStep, InStep, Differ
<1> QED
  BY <1>1, RegistryStep, PTL DEF RegistrySpec

\* Whatever requests are under way together, renaming, creating and removing descriptors,
\* no two committed rows of a table have the same identifier.
THEOREM IdentifiersDiffer == RegistrySpec => []RowsDiffer
<1>1. RegistryInv => RowsDiffer
  BY DEF RegistryInv
<1> QED
  BY <1>1, RegistryInvariance, PTL

\* A row in which no two updates crossed says what its document says, and only it has its
\* identifier.
LEMMA UndisturbedRows ==
    ASSUME RegistryInv, NEW table \in {ShellRow, SubmodelRow}, NEW entry \in Undisturbed(table)
    PROVE  /\ entry \in Rows(table) /\ entry.id = entry.doc.id /\ entry.index = entry.doc.index
           /\ \A other \in Rows(table) : other.id = entry.id => other = entry
           /\ GetDescriptorById(table, entry.doc.id) = {entry.doc}
<1>1. PICK pk \in table : rows[pk] # Nothing /\ entry = rows[pk] /\ ~entry.crossed
  BY DEF Undisturbed, Rows
<1>2. InStep(entry) /\ entry # Nothing
  BY <1>1, TablesApart DEF RegistryInv, AllInStep
<1>3. entry.id = entry.doc.id /\ entry.index = entry.doc.index
  BY <1>1, <1>2 DEF InStep
<1>4. entry \in Rows(table)
  BY DEF Undisturbed
<1>5. ASSUME NEW other \in Rows(table), other.id = entry.id PROVE other = entry
  <2>1. PICK k \in table : rows[k] # Nothing /\ other = rows[k]
    BY DEF Rows
  <2> QED
    BY <1>1, <1>5, <2>1 DEF RegistryInv, RowsDiffer, Differ
<1>6. GetDescriptorById(table, entry.doc.id) = {entry.doc}
  BY <1>3, <1>4, <1>5 DEF GetDescriptorById
<1> QED
  BY <1>3, <1>4, <1>5, <1>6

\* What a query by a column may answer.
LEMMA AnswersFound ==
    ASSUME NEW table, NEW index, NEW found \in FoundByIndex(table, index)
    PROVE  /\ \A entry \in found : entry \in Rows(table) /\ entry.index = index
           /\ \A entry \in Rows(table) :
                 entry.index = index => entry \in found \/ Cardinality(found) = LookupLimit
BY DEF FoundByIndex

LEMMA FoundAsTheyWere ==
    ASSUME RegistryInv, NEW table \in {ShellRow, SubmodelRow} PROVE FoundAsWritten(table)
<1> SUFFICES ASSUME NEW entry \in Undisturbed(table)
             PROVE  /\ GetDescriptorById(table, entry.doc.id) = {entry.doc}
                    /\ \A index \in Index \ {NoIndex} : \A found \in FoundByIndex(table, index) :
                          /\ entry \in found => entry.doc.index = index
                          /\ entry.doc.index = index => entry \in found \/ Cardinality(found) = LookupLimit
  BY DEF FoundAsWritten
<1>1. /\ entry \in Rows(table) /\ entry.index = entry.doc.index
      /\ GetDescriptorById(table, entry.doc.id) = {entry.doc}
  BY UndisturbedRows
<1> QED
  BY <1>1, AnswersFound

LEMMA LinksLeadBack ==
    ASSUME RegistryInv PROVE FoundByItsLinks
<1> SUFFICES ASSUME NEW entry \in Undisturbed(ShellRow), entry.doc.info \in {NoIndex, entry.doc.index},
                    NEW index \in GetAssetLinksById(entry.doc.id),
                    Cardinality({x \in Rows(ShellRow) : x.index = index}) <= LookupLimit,
                    NEW answer \in SearchShellsByAssetLink({index})
             PROVE  entry.doc.id \in answer
  BY DEF FoundByItsLinks
<1>1. /\ entry \in Rows(ShellRow) /\ entry.index = entry.doc.index
      /\ GetDescriptorById(ShellRow, entry.doc.id) = {entry.doc}
  BY UndisturbedRows
<1>2. index = LinkOf(entry.doc) /\ index # NoIndex
  BY <1>1 DEF GetAssetLinksById, GetShellDescriptorById
<1>3. entry.index = index
  BY <1>1, <1>2 DEF LinkOf
<1>4. PICK found \in FoundByIndex(ShellRow, index) : answer = {x.doc.id : x \in found}
  <2>1. PICK a \in [{index} -> SUBSET Id] :
           a[index] \in LookupShells(index) /\ answer = UNION {a[i] : i \in {index}}
    BY DEF SearchShellsByAssetLink
  <2>2. answer = a[index]
    BY <2>1
  <2> QED
    BY <2>1, <2>2 DEF LookupShells
<1>5. found = {x \in Rows(ShellRow) : x.index = index}
  BY <1>4 DEF FoundByIndex
<1> QED
  BY <1>1, <1>3, <1>4, <1>5

\* Whatever was renamed, re-linked, created in bulk or aborted, in any interleaving, a row
\* that no two updates crossed in is found by what its document says and by nothing else,
\* its links lead back to it and its nested descriptors are under it, up to the limit of
\* the lookup, for any identifiers, links and number of requests (lookup_shells,
\* search_shells_by_asset_link, list_with_filters).
THEOREM LookupsAgree == RegistrySpec => []LookupsMatch
<1>1. RegistryInv => LookupsMatch
  <2> SUFFICES ASSUME RegistryInv PROVE LookupsMatch
    OBVIOUS
  <2>1. FoundAsWritten(ShellRow) /\ FoundAsWritten(SubmodelRow) /\ FoundByItsLinks
    BY FoundAsTheyWere, LinksLeadBack
  <2>2. ASSUME NEW entry \in Undisturbed(ShellRow)
        PROVE  GetNestedSubmodelDescriptors(entry.doc.id) = NestedIn(entry.doc)
    <3>1. GetShellDescriptorById(entry.doc.id) = {entry.doc}
      BY UndisturbedRows DEF GetShellDescriptorById
    <3> QED
      BY <3>1 DEF GetNestedSubmodelDescriptors
  <2> QED
    BY <2>1, <2>2 DEF LookupsMatch
<1> QED
  BY <1>1, RegistryInvariance, PTL

-----------------------------------------------------------------------------
(* The types of the registry: what requests carry and flush are descriptors, *)
(* whatever their nested descriptors were made to be, and every commit has   *)
(* written rows of descriptors.                                              *)

DocType == [id : Id, index : Index, info : Index, nested : [Nested -> Nat]]

RowTyped(x) == x.id \in Id /\ x.index \in Index /\ x.doc \in DocType /\ x.crossed \in BOOLEAN

\* An edit that a handler takes along to the document it is to find.
EditTyped(edit) ==
    /\ edit.kind \in {"post", "put", "remove", "links"}
    /\ edit.kind \in {"put", "remove"} => edit.old \in Nested
    /\ edit.kind \in {"post", "put"} => edit.new \in Nested
    /\ edit.kind = "links" => edit.new \in Index

MineTyped(mine) == \A k \in DOMAIN mine : mine[k] # Nothing => RowTyped(mine[k])

CallTyped(c) ==
    /\ MineTyped(c.mine)
    /\ c.todo \in Seq(Descriptor)
    /\ c.doc # Nothing \/ c.pc \in {"exists", "insert", "update"} => c.doc \in DocType
    /\ c.pc = "load" => EditTyped(c.edit)

RegistryValues ==
    /\ begun \in 0..MaxStarted
    /\ \A pk \in Pk : rows[pk] # Nothing => RowTyped(rows[pk])
    /\ \A r \in Caller : call[r] # Nothing => CallTyped(call[r])

LEMMA DescriptorsTyped ==
    /\ Descriptor \subseteq DocType
    /\ \A doc \in DocType : RowTyped(RowOf(doc))
<1>1. ASSUME NEW doc \in Descriptor PROVE doc \in DocType
  <2>1. [n \in Nested |-> 0] \in [Nested -> Nat]
    OBVIOUS
  <2> QED
    BY <2>1 DEF Descriptor, DocType
<1>2. ASSUME NEW doc \in DocType PROVE RowTyped(RowOf(doc))
  BY DEF DocType, RowTyped, RowOf
<1> QED
  BY <1>1, <1>2

\* The call that a step leaves carries descriptors again.
LEMMA CallStaysTyped ==
    ASSUME RegistryInv, RegistryValues, NEW r \in Caller, NEW d, call' = [call EXCEPT ![r] = d],
           UNCHANGED <<rows, begun>>, d = Nothing \/ CallTyped(d)
    PROVE  RegistryValues'
<1>1. call'[r] = d /\ \A o \in Caller \ {r} : call'[o] = call[o]
  BY DEF RegistryInv, RegistryTypes
<1> QED
  BY <1>1 DEF RegistryValues

LEMMA AtTypedCall ==
    ASSUME RegistryInv, RegistryValues, NEW r \in Caller, NEW c, c = call[r], c # Nothing
    PROVE  /\ CallShape(c) /\ CallTyped(c) /\ c.table \subseteq Pk
           /\ \A k \in Pk : Visible(c, k) # Nothing => RowTyped(Visible(c, k))
<1>1. CallShape(c) /\ CallTyped(c)
  BY AtCall DEF RegistryValues
<1>2. c.table \subseteq Pk
  BY <1>1, TablesApart DEF CallShape
<1>3. \A k \in Pk : Visible(c, k) # Nothing => RowTyped(Visible(c, k))
  BY <1>1 DEF Visible, CallTyped, MineTyped, RegistryValues
<1> QED
  BY <1>1, <1>2, <1>3

LEMMA FollowingTyped ==
    ASSUME NEW c, CallShape(c), MineTyped(c.mine), c.todo \in Seq(Descriptor),
           c.doc # Nothing => c.doc \in DocType
    PROVE  CallTyped(Following(c))
<1> PICK d : d = Following(c)
  OBVIOUS
<1>1. CASE c.todo = <<>>
  <2>1. d.mine = c.mine /\ d.pc = "commit" /\ d.todo = c.todo /\ d.doc = c.doc
    BY <1>1 DEF CallShape, Following
  <2> QED
    BY <2>1 DEF CallTyped
<1>2. CASE c.todo # <<>>
  <2>1. d.mine = c.mine /\ d.pc = "exists" /\ d.todo = Tail(c.todo) /\ d.doc = Head(c.todo)
    BY <1>2 DEF CallShape, Following
  <2>2. Head(c.todo) \in Descriptor /\ Tail(c.todo) \in Seq(Descriptor)
    BY <1>2
  <2>3. d.doc \in DocType
    BY <2>1, <2>2, DescriptorsTyped
  <2> QED
    BY <2>1, <2>2, <2>3 DEF CallTyped
<1> QED
  BY <1>1, <1>2

LEMMA FlushedTyped ==
    ASSUME NEW c, MineTyped(c.mine), NEW pk, NEW x, x = Nothing \/ RowTyped(x)
    PROVE  MineTyped(Flushed(c, pk, x))
BY DEF MineTyped, Flushed

\* A put takes one away of the descriptors it was found among.
LEMMA RenestedTyped ==
    ASSUME NEW edit, EditTyped(edit), edit.kind # "links", NEW doc \in DocType, Applies(edit, doc)
    PROVE  Renested(edit, doc) \in DocType
<1>1. /\ doc.nested \in [Nested -> Nat] /\ doc.id \in Id /\ doc.index \in Index /\ doc.info \in Index
      /\ doc = [id |-> doc.id, index |-> doc.index, info |-> doc.info, nested |-> doc.nested]
  BY DEF DocType
<1>2. ASSUME NEW nested \in [Nested -> Nat] PROVE [doc EXCEPT !.nested = nested] \in DocType
  BY <1>1 DEF DocType
<1>3. CASE edit.kind = "post"
  <2>1. Renested(edit, doc) = [doc EXCEPT !.nested = [doc.nested EXCEPT ![edit.new] = @ + 1]]
    BY <1>1, <1>3 DEF Renested
  <2>2. [doc.nested EXCEPT ![edit.new] = @ + 1] \in [Nested -> Nat]
    BY <1>1, <1>3 DEF EditTyped
  <2> QED
    BY <1>2, <2>1, <2>2
<1>4. CASE edit.kind = "put"
  <2> PICK less : less = [doc.nested EXCEPT ![edit.old] = @ - 1]
    OBVIOUS
  <2>0. PICK nested : nested = [doc.nested EXCEPT ![edit.old] = @ - 1, ![edit.new] = @ + 1]
    OBVIOUS
  <2>1. Renested(edit, doc) = [doc EXCEPT !.nested = nested]
    BY <1>1, <1>4, <2>0 DEF Renested
  <2>2. edit.old \in Nested /\ edit.new \in Nested /\ doc.nested[edit.old] > 0
    BY <1>4 DEF EditTyped, Applies, NestedIn
  <2>3. less \in [Nested -> Nat]
    BY <1>1, <2>2
  <2>4. nested \in [Nested -> Nat]
    <3>1. nested = [less EXCEPT ![edit.new] = @ + 1]
      BY <2>0
    <3> QED
      BY <2>2, <2>3, <3>1
  <2> QED
    BY <1>2, <2>1, <2>4
<1>5. CASE edit.kind = "remove"
  <2>1. Renested(edit, doc) = [doc EXCEPT !.nested = [doc.nested EXCEPT ![edit.old] = 0]]
    BY <1>1, <1>5 DEF Renested
  <2>2. [doc.nested EXCEPT ![edit.old] = 0] \in [Nested -> Nat]
    BY <1>1, <1>5 DEF EditTyped
  <2> QED
    BY <1>2, <2>1, <2>2
<1> QED
  BY <1>3, <1>4, <1>5 DEF EditTyped

\* What is validated afterwards may have its asset id copied, and links are set in both places.
LEMMA EditedTyped ==
    ASSUME NEW edit, EditTyped(edit), NEW doc \in DocType, Applies(edit, doc)
    PROVE  Edited(edit, doc) \in DocType
<1>1. CASE edit.kind = "links"
  <2>1. Edited(edit, doc) = [doc EXCEPT !.index = edit.new, !.info = edit.new] /\ edit.new \in Index
    BY <1>1 DEF Edited, EditTyped
  <2> QED
    BY <2>1 DEF DocType
<1>2. CASE edit.kind # "links"
  <2> PICK new : new = Renested(edit, doc)
    OBVIOUS
  <2>1. new \in DocType
    BY <1>2, RenestedTyped
  <2>2. [new EXCEPT !.index = new.info] \in DocType
    BY <2>1 DEF DocType
  <2> QED
    BY <1>2, <2>1, <2>2 DEF Edited, Normalized
<1> QED
  BY <1>1, <1>2

LEMMA BeginStaysTyped ==
    ASSUME RegistryInv, RegistryValues, NEW r \in Caller, NEW c, BeginCall(r, c), CallTyped(c)
    PROVE  RegistryValues'
<1>1. call'[r] = c /\ \A o \in Caller \ {r} : call'[o] = call[o]
  BY DEF RegistryInv, RegistryTypes, BeginCall
<1>2. begun' \in 0..MaxStarted
  BY RegistryAssumption DEF RegistryValues, BeginCall
<1>3. rows' = rows
  BY DEF BeginCall
<1> QED
  BY <1>1, <1>2, <1>3 DEF RegistryValues

LEMMA CallTypeFits ==
    ASSUME NEW table, NEW pc \in {"exists", "match", "select"}, NEW id, NEW doc,
           doc \in DocType \/ (pc # "exists" /\ doc = Nothing)
    PROVE  CallTyped(Call(table, pc, id, doc))
<1> PICK c : c = Call(table, pc, id, doc)
  OBVIOUS
<1>1. c.pc = pc /\ c.doc = doc /\ c.todo = <<>> /\ DOMAIN c.mine = {}
  BY DEF Call
<1>2. <<>> \in Seq(Descriptor)
  OBVIOUS
<1> QED
  BY <1>1, <1>2 DEF CallTyped, MineTyped

LEMMA HandlerStaysTyped ==
    ASSUME RegistryInv, RegistryValues, NEW r \in Caller, RegistryHandler(r) PROVE RegistryValues'
<1>1. \A table : \A doc \in DescriptorOf(table) : doc \in DocType /\ doc \in Descriptor
  BY DescriptorsTyped DEF DescriptorOf
<1>2. ASSUME NEW table, PostDescriptor(r, table) PROVE RegistryValues'
  BY <1>1, <1>2, CallTypeFits, BeginStaysTyped DEF PostDescriptor
<1>3. ASSUME NEW table, PutDescriptorById(r, table) PROVE RegistryValues'
  BY <1>1, <1>3, CallTypeFits, BeginStaysTyped DEF PutDescriptorById
<1>4. ASSUME NEW table, DeleteDescriptorById(r, table) PROVE RegistryValues'
  BY <1>4, CallTypeFits, BeginStaysTyped DEF DeleteDescriptorById
<1>5. ASSUME NEW table, BulkCreateDescriptors(r, table) PROVE RegistryValues'
  <2>1. PICK first \in DescriptorOf(table), second \in DescriptorOf(table) :
           BeginCall(r, [Call(table, "exists", first.id, first) EXCEPT
                         !.bulk = TRUE, !.strict = FALSE, !.todo = <<second>>])
    BY <1>5 DEF BulkCreateDescriptors
  <2> PICK c : c = [Call(table, "exists", first.id, first) EXCEPT
                        !.bulk = TRUE, !.strict = FALSE, !.todo = <<second>>]
    OBVIOUS
  <2>2. c.pc = "exists" /\ c.doc = first /\ c.todo = <<second>> /\ DOMAIN c.mine = {}
    BY DEF Call
  <2>3. c.todo \in Seq(Descriptor)
    BY <1>1, <2>2
  <2>4. CallTyped(c)
    BY <1>1, <2>2, <2>3 DEF CallTyped, MineTyped
  <2> QED
    BY <2>1, <2>4, BeginStaysTyped
<1>6. ASSUME NEW kind, NEW old, NEW new, NEW strict, Edits(r, kind, old, new, strict),
             EditTyped([kind |-> kind, old |-> old, new |-> new])
      PROVE  RegistryValues'
  <2>1. PICK id \in Id : BeginCall(r, [Call(ShellRow, "load", id, Nothing) EXCEPT
                             !.edit = [kind |-> kind, old |-> old, new |-> new], !.strict = strict])
    BY <1>6 DEF Edits
  <2> PICK edit : edit = [kind |-> kind, old |-> old, new |-> new]
    OBVIOUS
  <2> PICK c : c = [Call(ShellRow, "load", id, Nothing) EXCEPT !.edit = edit, !.strict = strict]
    OBVIOUS
  <2>2. /\ c.pc = "load" /\ c.doc = Nothing /\ c.todo = <<>> /\ DOMAIN c.mine = {}
        /\ c.edit = edit
    BY DEF Call
  <2>3. <<>> \in Seq(Descriptor)
    OBVIOUS
  <2>4. CallTyped(c)
    BY <1>6, <2>2, <2>3 DEF CallTyped, MineTyped
  <2> QED
    BY <2>1, <2>4, BeginStaysTyped
<1>7. ASSUME NEW n \in Nested, Edits(r, "post", Nothing, n, TRUE) PROVE RegistryValues'
  BY <1>6, <1>7 DEF EditTyped
<1>8. ASSUME NEW n \in Nested, NEW m \in Nested, Edits(r, "put", n, m, TRUE) PROVE RegistryValues'
  BY <1>6, <1>8 DEF EditTyped
<1>9. ASSUME NEW n \in Nested, Edits(r, "remove", n, Nothing, FALSE) PROVE RegistryValues'
  BY <1>6, <1>9 DEF EditTyped
<1>10. ASSUME NEW index \in Index, Edits(r, "links", Nothing, index, FALSE) PROVE RegistryValues'
  BY <1>6, <1>10 DEF EditTyped
<1>11. NoIndex \in Index
  BY RegistryAssumption
<1> QED
  BY <1>2, <1>3, <1>4, <1>5, <1>7, <1>8, <1>9, <1>10, <1>11
     DEF RegistryHandler, PostShellDescriptor, PutShellDescriptorById,
     DeleteShellDescriptorById, BulkCreateShellDescriptors, PostSubmodelDescriptor,
     PutSubmodelDescriptorById, DeleteSubmodelDescriptorById, BulkCreateSubmodelDescriptors,
     PostNestedSubmodelDescriptor, PutNestedSubmodelDescriptor, DeleteNestedSubmodelDescriptor,
     PostAssetLinksById, DeleteAssetLinksById

LEMMA EndStaysTyped ==
    ASSUME RegistryInv, RegistryValues, NEW r \in Caller, CallEnds(r) PROVE RegistryValues'
BY CallStaysTyped DEF CallEnds, CallGoes

LEMMA LoadStaysTyped ==
    ASSUME RegistryInv, RegistryValues, NEW r \in Caller, call[r] # Nothing, LoadDoc(r)
    PROVE  RegistryValues'
<1> PICK c : c = call[r]
  OBVIOUS
<1>1. CASE CallEnds(r)
  BY <1>1, EndStaysTyped
<1>2. ASSUME NEW pk \in Find(c, c.id), Applies(c.edit, Visible(c, pk).doc),
             CallGoes(r, [c EXCEPT !.pc = "select", !.doc = Edited(c.edit, Visible(c, pk).doc)])
      PROVE  RegistryValues'
  <2> PICK doc : doc = Edited(c.edit, Visible(c, pk).doc)
    OBVIOUS
  <2> PICK d : d = [c EXCEPT !.pc = "select", !.doc = doc]
    OBVIOUS
  <2>1. /\ CallShape(c) /\ CallTyped(c) /\ c.pc = "load" /\ pk \in c.table /\ c.table \subseteq Pk
        /\ Visible(c, pk) # Nothing
        /\ \A k \in Pk : Visible(c, k) # Nothing => RowTyped(Visible(c, k))
    BY AtTypedCall DEF LoadDoc, Find
  <2>2. d.mine = c.mine /\ d.pc = "select" /\ d.todo = c.todo /\ d.doc = doc
    BY <2>1 DEF CallShape
  <2>3. Visible(c, pk).doc \in DocType /\ EditTyped(c.edit)
    BY <2>1 DEF RowTyped, CallTyped
  <2>4. doc \in DocType
    BY <1>2, <2>3, EditedTyped
  <2>5. CallTyped(d)
    BY <2>1, <2>2, <2>4 DEF CallTyped
  <2>6. call' = [call EXCEPT ![r] = d] /\ UNCHANGED <<rows, begun>>
    BY <1>2 DEF CallGoes
  <2> QED
    BY <2>5, <2>6, CallStaysTyped
<1> QED
  BY <1>1, <1>2 DEF LoadDoc

LEMMA SelectStaysTyped ==
    ASSUME RegistryInv, RegistryValues, NEW r \in Caller, call[r] # Nothing, Select(r)
    PROVE  RegistryValues'
<1> PICK c : c = call[r]
  OBVIOUS
<1>1. CASE CallEnds(r)
  BY <1>1, EndStaysTyped
<1>2. CallShape(c) /\ CallTyped(c)
  BY AtTypedCall
<1>3. CASE CallGoes(r, Following(c))
  <2>1. CallTyped(Following(c))
    BY <1>2, FollowingTyped DEF CallTyped
  <2> QED
    BY <1>3, <2>1, CallStaysTyped DEF CallGoes
<1>4. ASSUME NEW pk \in Find(c, c.id),
             CallGoes(r, [c EXCEPT !.pc = IF c.doc = Nothing THEN "delete" ELSE "update",
                               !.pk = pk, !.snap = Visible(c, pk)])
      PROVE  RegistryValues'
  <2> PICK snap : snap = Visible(c, pk)
    OBVIOUS
  <2> PICK pc : pc = IF c.doc = Nothing THEN "delete" ELSE "update"
    OBVIOUS
  <2> PICK d : d = [c EXCEPT !.pc = pc, !.pk = pk, !.snap = snap]
    OBVIOUS
  <2>1. d.mine = c.mine /\ d.pc = pc /\ d.todo = c.todo /\ d.doc = c.doc
    BY <1>2 DEF CallShape
  <2>2. CallTyped(d)
    BY <1>2, <2>1 DEF CallTyped
  <2>3. call' = [call EXCEPT ![r] = d] /\ UNCHANGED <<rows, begun>>
    BY <1>4 DEF CallGoes
  <2> QED
    BY <2>2, <2>3, CallStaysTyped
<1> QED
  BY <1>1, <1>3, <1>4 DEF Select

LEMMA InsertStaysTyped ==
    ASSUME RegistryInv, RegistryValues, NEW r \in Caller, call[r] # Nothing, Insert(r)
    PROVE  RegistryValues'
<1> PICK c : c = call[r]
  OBVIOUS
<1>1. CASE CallEnds(r)
  BY <1>1, EndStaysTyped
<1>2. CASE ~CallEnds(r)
  <2>1. PICK mine, pk : /\ mine = Flushed(c, pk, RowOf(c.doc)) /\ c.pc = "insert"
                        /\ call' = [call EXCEPT ![r] = Following([c EXCEPT !.mine = mine])]
                        /\ UNCHANGED <<rows, begun>>
    BY <1>2 DEF Insert
  <2> PICK e : e = [c EXCEPT !.mine = mine]
    OBVIOUS
  <2>2. CallShape(c) /\ CallTyped(c)
    BY AtTypedCall
  <2>3. c.doc \in DocType /\ RowTyped(RowOf(c.doc)) /\ MineTyped(c.mine)
    BY <2>1, <2>2, DescriptorsTyped DEF CallTyped
  <2>4. MineTyped(mine)
    BY <2>1, <2>3, FlushedTyped
  <2>5. CallShape(e) /\ e.mine = mine /\ e.todo = c.todo /\ e.doc = c.doc
    BY <2>1, <2>2 DEF CallShape, Flushed
  <2>6. CallTyped(Following(e))
    BY <2>2, <2>3, <2>4, <2>5, FollowingTyped DEF CallTyped
  <2> QED
    BY <2>1, <2>6, CallStaysTyped
<1> QED
  BY <1>1, <1>2

LEMMA DeleteStaysTyped ==
    ASSUME RegistryInv, RegistryValues, NEW r \in Caller, call[r] # Nothing, Delete(r)
    PROVE  RegistryValues'
<1> PICK c : c = call[r]
  OBVIOUS
<1> PICK mine : mine = Flushed(c, c.pk, Nothing)
  OBVIOUS
<1> PICK e : e = [c EXCEPT !.mine = mine, !.pk = Nothing, !.snap = Nothing]
  OBVIOUS
<1>1. call' = [call EXCEPT ![r] = Following(e)] /\ UNCHANGED <<rows, begun>>
  BY DEF Delete, CallGoes
<1>2. CallShape(c) /\ CallTyped(c)
  BY AtTypedCall
<1>3. MineTyped(mine)
  BY <1>2, FlushedTyped DEF CallTyped
<1>4. CallShape(e) /\ e.mine = mine /\ e.todo = c.todo /\ e.doc = c.doc
  BY <1>2 DEF CallShape, Flushed
<1>5. CallTyped(Following(e))
  BY <1>2, <1>3, <1>4, FollowingTyped DEF CallTyped
<1> QED
  BY <1>1, <1>5, CallStaysTyped

LEMMA UpdateStaysTyped ==
    ASSUME RegistryInv, RegistryValues, NEW r \in Caller, call[r] # Nothing, Update(r)
    PROVE  RegistryValues'
<1> PICK c : c = call[r]
  OBVIOUS
<1> PICK done : done = [c EXCEPT !.pk = Nothing, !.snap = Nothing]
  OBVIOUS
<1> PICK current : current = Visible(c, c.pk)
  OBVIOUS
<1> PICK x : x = SetColumns(c.snap, RowOf(c.doc), current)
  OBVIOUS
<1>1. /\ CallShape(c) /\ CallTyped(c) /\ c.table \subseteq Pk /\ c.pc = "update"
      /\ current # Nothing /\ c.pk \in Pk => RowTyped(current)
  BY AtTypedCall DEF Update
<1>2. CallShape(done) /\ done.mine = c.mine /\ done.todo = c.todo /\ done.doc = c.doc
  BY <1>1 DEF CallShape
<1>3. c.pk \in Pk /\ c.doc \in DocType
  BY <1>1, AtCall DEF IsCall, CallTyped
<1>4. CASE CallEnds(r)
  BY <1>4, EndStaysTyped
<1>5. CASE CallGoes(r, Following(done))
  <2>1. CallTyped(Following(done))
    BY <1>1, <1>2, FollowingTyped DEF CallTyped
  <2> QED
    BY <1>5, <2>1, CallStaysTyped DEF CallGoes
<1>6. ASSUME current # Nothing, CallGoes(r, Following([done EXCEPT !.mine = Flushed(c, c.pk, x)]))
      PROVE  RegistryValues'
  <2> PICK mine : mine = Flushed(c, c.pk, x)
    OBVIOUS
  <2>0. PICK e : e = [done EXCEPT !.mine = mine]
    OBVIOUS
  <2>1. call' = [call EXCEPT ![r] = Following(e)] /\ UNCHANGED <<rows, begun>>
    BY <1>6, <2>0 DEF CallGoes
  <2>2. RowTyped(x)
    <3> PICK new : new = RowOf(c.doc)
      OBVIOUS
    <3>1. RowTyped(new) /\ RowTyped(current)
      BY <1>1, <1>3, <1>6, DescriptorsTyped
    <3>2. x.crossed \in BOOLEAN
      BY DEF SetColumns, Same
    <3>3. /\ x.id \in {current.id, new.id} /\ x.index \in {current.index, new.index}
          /\ x.doc \in {current.doc, new.doc}
      BY DEF SetColumns, Written
    <3> QED
      BY <3>1, <3>2, <3>3 DEF RowTyped
  <2>3. MineTyped(mine)
    BY <1>1, <2>2, FlushedTyped DEF CallTyped
  <2>4. CallShape(e) /\ e.mine = mine /\ e.todo = c.todo /\ e.doc = c.doc
    <3>1. mine = [k \in DOMAIN mine |-> mine[k]]
      BY DEF Flushed
    <3>2. CallShape(e) /\ e.mine = mine /\ e.todo = done.todo /\ e.doc = done.doc
      BY ONLY <1>2, <2>0, <3>1, MineTaken
    <3> QED
      BY <1>2, <3>2
  <2>5. CallTyped(Following(e))
    BY <1>1, <2>3, <2>4, FollowingTyped DEF CallTyped
  <2> QED
    BY <2>1, <2>5, CallStaysTyped
<1> QED
  BY <1>4, <1>5, <1>6 DEF Update

LEMMA CommitStaysTyped ==
    ASSUME RegistryInv, RegistryValues, NEW r \in Caller, call[r] # Nothing, Commit(r)
    PROVE  RegistryValues'
<1> PICK c : c = call[r]
  OBVIOUS
<1>1. \A k \in Pk : Visible(c, k) # Nothing => RowTyped(Visible(c, k))
  BY AtTypedCall
<1>2. /\ rows' = [pk \in Pk |-> Visible(c, pk)] /\ begun' = begun
      /\ call'[r] = Nothing /\ \A o \in Caller \ {r} : call'[o] = call[o]
  BY DEF Commit, RegistryInv, RegistryTypes
<1> QED
  BY <1>1, <1>2 DEF RegistryValues

LEMMA RegistryValuesStep ==
    ASSUME RegistryInv, RegistryValues, [RegistryNext]_registryVars PROVE RegistryValues'
<1>1. CASE UNCHANGED registryVars
  BY <1>1 DEF registryVars, RegistryValues
<1>2. ASSUME NEW r \in Caller, call[r] # Nothing, SessionStep(r) PROVE RegistryValues'
  <2>1. ASSUME NEW pc \in {"insert", "select"}, pc = "insert" => call[r].pc = "exists",
               CallGoes(r, [call[r] EXCEPT !.pc = pc])
        PROVE  RegistryValues'
    <3> PICK c : c = call[r]
      OBVIOUS
    <3> PICK d : d = [c EXCEPT !.pc = pc]
      OBVIOUS
    <3>1. CallShape(c) /\ CallTyped(c)
      BY <1>2, AtTypedCall
    <3>2. d.mine = c.mine /\ d.pc = pc /\ d.todo = c.todo /\ d.doc = c.doc
      BY <3>1 DEF CallShape
    <3>3. CallTyped(d)
      BY <2>1, <3>1, <3>2 DEF CallTyped
    <3> QED
      BY <2>1, <3>3, CallStaysTyped DEF CallGoes
  <2>2. CASE Exists(r)
    <3>1. \/ CallGoes(r, [call[r] EXCEPT !.pc = "insert"]) \/ CallGoes(r, [call[r] EXCEPT !.pc = "select"])
          \/ CallEnds(r)
      BY <2>2 DEF Exists
    <3>2. call[r].pc = "exists"
      BY <2>2 DEF Exists
    <3> QED
      BY <2>1, <3>1, <3>2, EndStaysTyped
  <2>3. CASE Match(r)
    <3>1. CallGoes(r, [call[r] EXCEPT !.pc = "select"]) \/ CallEnds(r)
      BY <2>3 DEF Match
    <3> QED
      BY <2>1, <3>1, EndStaysTyped
  <2>4. CASE AbortCall(r)
    BY <2>4, EndStaysTyped DEF AbortCall
  <2> QED
    BY <1>2, <2>2, <2>3, <2>4, InsertStaysTyped, LoadStaysTyped, SelectStaysTyped, UpdateStaysTyped,
       DeleteStaysTyped, CommitStaysTyped DEF SessionStep
<1> QED
  BY <1>1, <1>2, HandlerStaysTyped DEF RegistryNext

\* Whatever edits of a descriptor, renames and bulk requests overlap, every committed row
\* holds a descriptor and its columns an identifier and an index, the requests are
\* counted, and the identifiers of a table differ, for any tables, identifiers, indexes
\* and nested descriptors (RegistryShellDescriptorTable, RegistrySubmodelDescriptorTable).
THEOREM RegistryTypesHold == RegistrySpec => []RegistryTypeOK
<1>1. ASSUME RegistryInit PROVE RegistryValues
  <2>1. begun = 0 /\ MaxStarted \in Nat
    BY <1>1, RegistryAssumption DEF RegistryInit
  <2>2. (\A pk \in Pk : rows[pk] = Nothing) /\ \A r \in Caller : call[r] = Nothing
    BY <1>1 DEF RegistryInit
  <2>3. begun \in 0..MaxStarted
    BY <2>1
  <2> QED
    BY <2>2, <2>3 DEF RegistryValues
<1>2. RegistryInv /\ RegistryValues => RegistryTypeOK
  <2> SUFFICES ASSUME RegistryInv, RegistryValues PROVE RegistryTypeOK
    OBVIOUS
  <2>1. ASSUME NEW pk \in Pk, rows[pk] # Nothing
        PROVE  /\ pk \in used
               /\ rows[pk].id \in Id /\ rows[pk].index \in Index /\ rows[pk].crossed \in BOOLEAN
               /\ rows[pk].doc.id \in Id /\ rows[pk].doc.index \in Index /\ rows[pk].doc.info \in Index
               /\ rows[pk].doc.nested \in [Nested -> Nat]
    <3>1. pk \in used /\ RowTyped(rows[pk])
      BY <2>1 DEF RegistryInv, RegistryTypes, RegistryValues
    <3> QED
      BY <3>1 DEF RowTyped, DocType
  <2>2. \A table \in {ShellRow, SubmodelRow} : \A k, l \in table :
           k # l /\ rows[k] # Nothing /\ rows[l] # Nothing => rows[k].id # rows[l].id
    BY DEF RegistryInv, RowsDiffer, Differ
  <2>3. used \subseteq Pk /\ begun \in 0..MaxStarted
    BY DEF RegistryInv, RegistryTypes, RegistryValues
  <2> QED
    BY <2>1, <2>2, <2>3 DEF RegistryTypeOK
<1> QED
  BY <1>1, <1>2, RegistryValuesStep, RegistryInvariance, PTL DEF RegistrySpec

-----------------------------------------------------------------------------
(* The composition of MCDocuments.  Whichever part moves, the others keep still. *)

\* The requests for documents, the registry, the packages, the operations, the collections
\* and the blobs behave, one beside the other, as each does alone.
THEOREM PartsBehave ==
    DocumentsSpec => /\ Spec /\ CarefulSpec /\ OperationsSpec /\ RegistrySpec
                     /\ CollectionsSpec /\ BlobsSpec /\ PackagesSpec
<1>1. DocumentsInit => /\ Init /\ OperationsInit /\ RegistryInit
                       /\ CollectionsInit /\ BlobsInit /\ PackagesInit
  BY DEF DocumentsInit
<1>2. [DocumentsNext]_documentsVars
      => /\ [Next]_vars /\ [CarefulNext]_vars
         /\ [OperationsNext]_operationVars /\ [RegistryNext]_registryVars
         /\ [CollectionsNext]_collectionVars /\ [BlobsNext]_blobVars
         /\ [PackagesNext]_packageVars
  <2>1. CarefulNext => Next
    BY DEF CarefulNext, Next
  <2>2. ASSUME UNCHANGED documentsVars
        PROVE  UNCHANGED <<vars, operationVars, registryVars, packageVars, collectionVars, blobVars>>
    BY <2>2 DEF documentsVars
  <2> QED
    BY <2>1, <2>2 DEF DocumentsNext, OfRequests, OfRegistry, OfPackages, OfOperations, OfPages, OfBlobs
<1> QED
  BY <1>1, <1>2, PTL DEF DocumentsSpec, Spec, CarefulSpec, OperationsSpec, RegistrySpec,
     CollectionsSpec, BlobsSpec, PackagesSpec

\* And with one client at a time no handler leaves a stale document or $value in the cache,
\* in the composition too.
THEOREM NothingStaleInDocuments ==
    ASSUME NEW c, Client = {c}
    PROVE  DocumentsSpec => []SequentialFresh
<1>1. CarefulSpec => []SequentialFresh
  BY NothingStaleAlone
<1> QED
  BY <1>1, PartsBehave, PTL

\* So all that was proved of the parts holds of the composition: the requests implement the
\* document store, handles, identifiers, pages, attachments and packages are as they should,
\* an import keeps what it was not to change, and every part keeps its types.
THEOREM DocumentsHold ==
    DocumentsSpec =>
        /\ ImplementsStore /\ ImportsKeep
        /\ []DocumentsTypeOK
        /\ []NothingUncommittedLeaks
        /\ []HandlesHold
        /\ [](RowsDiffer /\ LookupsMatch)
        /\ []PagesCompleteUntied
        /\ []AttachmentsWhole
        /\ [](FilesMatchRowsAlone /\ PackagesHold)
<1>1. /\ TypeOK /\ OperationsTypeOK /\ RegistryTypeOK
      /\ PackagesTypeOK /\ CollectionsTypeOK /\ BlobsTypeOK
      => DocumentsTypeOK
  BY DEF DocumentsTypeOK
<1> QED
  BY <1>1, PartsBehave, Refinement, TypeCorrectness, NoLeak, OperationsTypesHold, HandlesAlwaysHold,
     IdentifiersDiffer, RegistryTypesHold, LookupsAgree, CollectionsTypesHold, PagesAreComplete,
     CommitsKeep, BlobsTypesHold, AttachmentsStayWhole, FilesStayWithRows, PackagesAlwaysHold, PTL
===============================================================================
