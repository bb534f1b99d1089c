----------------------------- MODULE SavedLists -----------------------------
(***************************************************************************)
(* What a user saves by name: baskets of symbols, in two tables            *)
(* (internal/api/baskets.go), and layouts of the chart, in one             *)
(* (internal/api/layouts.go).                                              *)
(*                                                                         *)
(* saved are the committed rows, by id: the kind, the name and the body,   *)
(* which is the members of a basket or the indicators of a layout.  Of     *)
(* each request, pc is where it stands, asked what it asks, seen what it   *)
(* has read, draft the row it has written in a transaction that is not     *)
(* committed: the others do not see it, and wait for it where PostgreSQL   *)
(* makes them.  accepted holds what the committed requests asked for, no   *)
(* code uses it.  One user is modelled: every statement has user_id in it. *)
(***************************************************************************)
EXTENDS Integers, FiniteSets, SequencesExt

CONSTANTS Names, Requests,
          RawBaskets, RawLayouts,   \* bodies that are sent
          Upper,                    \* [ticker as it is sent -> trimmed, in capitals]
          Canonical,                \* [indicator as it is sent -> its key]: indicator.Parse
          Outputs,                  \* [key of an indicator -> its outputs]
          PaletteSlots, MaxIndicators, MaxSymbols,
          MaxRows,                  \* maxUserBaskets, maxUserLayouts
          MaxWrites                 \* bound on the creates and updates

ASSUME SavedListsAssumption ==
  /\ PaletteSlots \in Nat \ {0} /\ MaxRows \in Nat \ {0}
  /\ MaxSymbols \in Nat \ {0} /\ MaxIndicators \in Nat
  /\ IsFiniteSet(Requests)

Tickers == DOMAIN Upper
Keys == DOMAIN Outputs
RawEntry == [key : STRING, visible : {"", "shown", "hidden"}, style : STRING, colors : Seq(Int)]

\* What is written in its own way already stays as it is (library_test.go parses
\* every key again).
ASSUME SpellingAssumption ==
  /\ RawBaskets \subseteq Seq(Tickers) /\ Upper \in [Tickers -> Tickers]
  /\ \A ticker \in Tickers : Upper[Upper[ticker]] = Upper[ticker]
  /\ RawLayouts \subseteq Seq(RawEntry) /\ Outputs \in [Keys -> Nat]
  /\ \A text \in DOMAIN Canonical : Canonical[text] \in Keys
  /\ \A key \in Keys : key \in DOMAIN Canonical /\ Canonical[key] = key

VARIABLES saved, pc, asked, seen, draft, accepted, writes

listVars == <<saved, pc, asked, seen, draft, accepted, writes>>

NoRow == [kind |-> "none", name |-> "", body |-> <<>>]
NoDraft == [id |-> 0, row |-> NoRow]
Styles == {"solid", "dotted"}

-----------------------------------------------------------------------------
(* What a request may say. *)

\* normalizeTickers: each symbol once, where it is named first; blanks are dropped.
NormalizeTickers(raw) ==
  LET first == {i \in DOMAIN raw : /\ Upper[raw[i]] # ""
                                   /\ \A j \in 1..(i - 1) : Upper[raw[j]] # Upper[raw[i]]}
      place(i) == Cardinality({j \in first : j <= i})
  IN  [k \in 1..Cardinality(first) |-> Upper[raw[CHOOSE i \in first : place(i) = k]]]

\* readSavedBasket: some symbols, and not too many.
BasketAccepted(raw) == Len(NormalizeTickers(raw)) \in 1..MaxSymbols

\* A mutant's: the outputs past the palette are given slots past it.
NormalizeColorsPast(key, colors) ==
  [i \in 1..Outputs[key] |-> IF i <= Len(colors) THEN colors[i] ELSE i - 1]

\* normalizeColors: a slot of the palette for every output.
NormalizeColors(key, colors) ==
  [i \in 1..Outputs[key] |->
     IF i <= Len(colors) THEN colors[i] ELSE (i - 1) % PaletteSlots]

\* normalizeLayout: indicators that exist, each once however it is written,
\* colours and styles that fit.
LayoutAccepted(raw) ==
  /\ Len(raw) <= MaxIndicators
  /\ \A i \in DOMAIN raw :
        /\ raw[i].key \in DOMAIN Canonical
        /\ Len(raw[i].colors) <= Outputs[Canonical[raw[i].key]]
        /\ Range(raw[i].colors) \subseteq 0..(PaletteSlots - 1)
        /\ raw[i].style \in Styles \cup {""}
  /\ \A i, j \in DOMAIN raw : i # j => Canonical[raw[i].key] # Canonical[raw[j].key]

OrElse(said, default) == IF said = "" THEN default ELSE said

NormalizeLayout(raw) ==
  [i \in DOMAIN raw |->
     [key |-> Canonical[raw[i].key],
      visible |-> OrElse(raw[i].visible, "shown"),
      style |-> OrElse(raw[i].style, "solid"),
      colors |-> NormalizeColors(Canonical[raw[i].key], raw[i].colors)]]

Accepted(kind, raw) == IF kind = "basket" THEN BasketAccepted(raw) ELSE LayoutAccepted(raw)
Normalize(kind, raw) == IF kind = "basket" THEN NormalizeTickers(raw) ELSE NormalizeLayout(raw)

Kinds == {"basket", "layout"}
Raw(kind) == IF kind = "basket" THEN RawBaskets ELSE RawLayouts
Wanted ==
  UNION {[kind : {kind}, name : Names,
          body : {Normalize(kind, raw) : raw \in {b \in Raw(kind) : Accepted(kind, b)}}] :
         kind \in Kinds}

-----------------------------------------------------------------------------
ListsInit ==
  /\ saved = <<>> /\ accepted = {} /\ writes = 0
  /\ pc = [r \in Requests |-> "idle"]
  /\ asked = [r \in Requests |-> NoRow]
  /\ seen = [r \in Requests |-> <<>>]
  /\ draft = [r \in Requests |-> NoDraft]

Held(kind) == {id \in DOMAIN saved : saved[id].kind = kind}
Put(id, row) == [i \in DOMAIN saved \cup {id} |-> IF i = id THEN row ELSE saved[i]]

\* A row that a transaction has written is locked until it ends.
Locked(id) == \E r \in Requests : draft[r].id = id

\* UNIQUE (user_id, name): an index entry of a transaction under way, the new
\* name or the old one, makes the others wait.
Taken(row, id) == \E other \in Held(row.kind) \ {id} : saved[other].name = row.name
MustWait(row, id) ==
  \/ \E r \in Requests : /\ draft[r].row.kind = row.kind /\ draft[r].row.name = row.name
                         /\ draft[r].id # id
  \/ \E other \in Held(row.kind) \ {id} : saved[other].name = row.name /\ Locked(other)

Goto(r, stage) == pc' = [pc EXCEPT ![r] = stage]
Rollback(r) == draft' = [draft EXCEPT ![r] = NoDraft]

\* A row takes effect: a statement of its own, or the end of a transaction.
Store(r, id, row) ==
  /\ saved' = Put(id, row) /\ accepted' = accepted \cup {asked[r]}
  /\ Goto(r, "idle") /\ Rollback(r)

\* handleCreate: the rows are counted; over the limit it ends there.
Create(r) ==
  /\ pc[r] = "idle" /\ writes < MaxWrites
  /\ \E row \in Wanted :
        /\ Cardinality(Held(row.kind)) < MaxRows
        /\ asked' = [asked EXCEPT ![r] = row]
        /\ draft' = [draft EXCEPT ![r].id = writes + 1]
  /\ Goto(r, "insert") /\ writes' = writes + 1
  /\ UNCHANGED <<saved, seen, accepted>>

\* The row is inserted under a new id, unless its name is taken: of a basket in
\* a transaction, to which the members are copied next.
Insert(r) ==
  LET row == asked[r] id == draft[r].id IN
  /\ pc[r] = "insert" /\ ~ MustWait(row, id)
  /\ IF Taken(row, id) THEN Goto(r, "idle") /\ Rollback(r) /\ UNCHANGED <<saved, accepted>>
     ELSE IF row.kind = "layout" THEN Store(r, id, row)
     ELSE /\ draft' = [draft EXCEPT ![r].row = [row EXCEPT !.body = <<>>]]
          /\ Goto(r, "copy") /\ UNCHANGED <<saved, accepted>>
  /\ UNCHANGED <<asked, seen, writes>>

\* handleUpdate: the row of the id, if there is one, gets the name and a layout
\* its body; the members of a basket are replaced in the same transaction.
AskUpdate(r) ==
  /\ pc[r] = "idle" /\ writes < MaxWrites
  /\ \E row \in Wanted, id \in 1..writes :
        /\ asked' = [asked EXCEPT ![r] = row]
        /\ seen' = [seen EXCEPT ![r] = <<id>>]
  /\ Goto(r, "update") /\ writes' = writes + 1
  /\ UNCHANGED <<saved, draft, accepted>>

Update(r) ==
  LET row == asked[r] id == seen[r][1] IN
  /\ pc[r] = "update" /\ ~ Locked(id)
  /\ seen' = [seen EXCEPT ![r] = <<>>]
  /\ IF id \notin Held(row.kind) THEN Goto(r, "idle") /\ UNCHANGED <<saved, draft, accepted>>
     ELSE /\ ~ MustWait(row, id)
          /\ IF Taken(row, id) THEN Goto(r, "idle") /\ UNCHANGED <<saved, draft, accepted>>
             ELSE IF row.kind = "layout" THEN Store(r, id, row)
             ELSE /\ draft' = [draft EXCEPT ![r] =
                       [id |-> id, row |-> [row EXCEPT !.body = saved[id].body]]]
                  /\ Goto(r, "clear") /\ UNCHANGED <<saved, accepted>>
  /\ UNCHANGED <<asked, writes>>

\* A mutant's: the members are deleted outside the transaction.
ClearAtOnce(r) ==
  /\ pc[r] = "clear" /\ Goto(r, "copy")
  /\ draft' = [draft EXCEPT ![r].row.body = <<>>]
  /\ saved' = [saved EXCEPT ![draft[r].id].body = <<>>]
  /\ UNCHANGED <<asked, seen, accepted, writes>>

Clear(r) ==
  /\ pc[r] = "clear" /\ Goto(r, "copy")
  /\ draft' = [draft EXCEPT ![r].row.body = <<>>]
  /\ UNCHANGED <<saved, asked, seen, accepted, writes>>

Copy(r) ==
  /\ pc[r] = "copy" /\ Goto(r, "commit")
  /\ draft' = [draft EXCEPT ![r].row.body = asked[r].body]
  /\ UNCHANGED <<saved, asked, seen, accepted, writes>>

Commit(r) ==
  /\ pc[r] = "commit" /\ Store(r, draft[r].id, draft[r].row)
  /\ UNCHANGED <<asked, seen, writes>>

\* A statement fails, the client goes away or the process dies: the transaction
\* is rolled back.
FailRequest(r) ==
  /\ pc[r] # "idle" /\ Goto(r, "idle") /\ Rollback(r)
  /\ seen' = [seen EXCEPT ![r] = <<>>]
  /\ UNCHANGED <<saved, asked, accepted, writes>>

\* handleDelete: the members go with the row.
Delete(id) ==
  /\ id \in DOMAIN saved /\ ~ Locked(id)
  /\ saved' = [i \in DOMAIN saved \ {id} |-> saved[i]]
  /\ UNCHANGED <<pc, asked, seen, draft, accepted, writes>>

\* handleListBaskets and handleGetBasket: the rows of all or of one, then, in
\* another statement, the members of those.
ReadRows(r) ==
  /\ pc[r] = "idle" /\ Held("basket") # {}
  /\ \E ids \in {Held("basket")} \cup {{id} : id \in Held("basket")} :
        seen' = [seen EXCEPT ![r] = [id \in ids |-> [saved[id] EXCEPT !.body = <<>>]]]
  /\ Goto(r, "members")
  /\ UNCHANGED <<saved, asked, draft, accepted, writes>>

ReadMembers(r) ==
  /\ pc[r] = "members" /\ Goto(r, "answered")
  /\ seen' = [seen EXCEPT ![r] =
       [id \in DOMAIN seen[r] |->
          [seen[r][id] EXCEPT !.body = IF id \in DOMAIN saved THEN saved[id].body ELSE <<>>]]]
  /\ UNCHANGED <<saved, asked, draft, accepted, writes>>

Answered(r) ==
  /\ pc[r] = "answered" /\ Goto(r, "idle")
  /\ seen' = [seen EXCEPT ![r] = <<>>]
  /\ UNCHANGED <<saved, asked, draft, accepted, writes>>

ListsNext ==
  \/ \E r \in Requests :
       \/ Create(r) \/ Insert(r) \/ AskUpdate(r) \/ Update(r)
       \/ Clear(r) \/ Copy(r) \/ Commit(r) \/ FailRequest(r)
       \/ ReadRows(r) \/ ReadMembers(r) \/ Answered(r)
  \/ \E id \in DOMAIN saved : Delete(id)

ListsSpec == ListsInit /\ [][ListsNext]_listVars

-----------------------------------------------------------------------------
\* SavedListsAreWhole: however creates, updates, deletes, reads and failures
\* interleave, a saved row is the name and the body of one request, never a mix
\* of two, no two have a name, the limit is passed by no more than the requests
\* that counted at the same time, and an answer shows of each basket a name and a
\* membership that were saved, or no member at all if it was deleted between the
\* two reads ("the name and the membership are written together and replaced
\* together", baskets.go).
SavedListsAreWhole ==
  /\ \A id \in DOMAIN saved : saved[id] \in accepted
  /\ \A id, other \in DOMAIN saved :
       saved[id].kind = saved[other].kind /\ saved[id].name = saved[other].name => id = other
  /\ \A kind \in Kinds :
       Cardinality(Held(kind)) < MaxRows + Cardinality(Requests)
  /\ \A r \in Requests : pc[r] = "answered" =>
       \A id \in DOMAIN seen[r] :
          LET basket == seen[r][id] IN
          /\ \E row \in accepted : row.kind = "basket" /\ row.name = basket.name
          /\ \/ basket.body = <<>> /\ id \notin DOMAIN saved
             \/ \E row \in accepted : row.kind = "basket" /\ row.body = basket.body

\* SavedListsReplay: what is stored is stored again as it is: the page that reads
\* a list and saves it unchanged under another name is never refused and loses
\* nothing (normalizeLayout, normalizeTickers: "it cannot replay" is refused).
SavedListsReplay ==
  \A id \in DOMAIN saved :
     LET row == saved[id]
     IN  Accepted(row.kind, row.body) /\ Normalize(row.kind, row.body) = row.body
=============================================================================
