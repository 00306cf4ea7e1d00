----------------------------- MODULE ChartEditor -----------------------------
(***************************************************************************)
(* The chart editor in the browser (static/js/chart_editor.js): its        *)
(* sections, its undo history, whether there is anything to save; and the  *)
(* requests it shares a chart with other tabs by: a new section, a section *)
(* moved up or down, Save Layout (dashboard/views.py).                     *)
(*                                                                         *)
(* The script runs one handler at a time, and an answer is handled when it *)
(* comes, whatever was done since the request was sent.  Several requests  *)
(* may be in flight, the editor's and another tab's, and an answer may be  *)
(* lost after the work was done.  What a section looks like is one value.  *)
(***************************************************************************)
EXTENDS Naturals, Sequences, FiniteSets, Functions

CONSTANTS Key,        \* sections by primary key, which also orders their names
          First,      \* the sections the page was loaded with
          Look,       \* what the parameters and seat overrides of a section may be
          Fresh,      \* that of a new one: the model's defaults
          Clamp,      \* what the server makes of it: an offset, a count or a delta out of bounds
          Slot,       \* requests in flight at once
          HistoryLimit, \* _historyLimit
          MaxEdit,    \* bound: how often a control is moved
          MaxRequest  \* bound: how many requests are sent

ASSUME SectionKeys  == Key \subseteq Nat /\ IsFiniteSet(Key) /\ First \subseteq Key
ASSUME FreshIsAShape == Fresh \in Look /\ "absent" \notin Look
ASSUME ServerClamps  == Clamp \in [Look -> Look] /\ Clamp[Fresh] = Fresh
ASSUME EditorBounds == HistoryLimit \in Nat \ {0} /\ {MaxEdit, MaxRequest} \subseteq Nat

VARIABLES known,    \* the sections the script has, by their key
          drawn,    \* what each looks like on the canvas
          order,    \* sectionOrder
          undo,     \* undoStack
          redo,     \* redoStack
          pending,  \* _pendingBaseline: a sequence of at most one snapshot
          dirty,    \* there are unsaved changes
          saving,   \* the Save button waits for its answer
          creating, \* newSectionSaving
          row,      \* the Section table: what is stored of each section
          rank,     \* and its ordering
          req,      \* the requests in flight
          seen,     \* what has happened, for the properties
          edits, sent

client == <<known, drawn, order, undo, redo, pending, dirty, saving, creating>>
server == <<row, rank>>
editorVars == <<client, server, req, seen, edits, sent>>

Idle   == [kind |-> "idle"]
Stored == {i \in Key : row[i] # "absent"}

(* What the controls that keep to their bounds produce. *)
InBounds == Range(Clamp)

(* order_by("ordering", "name") *)
Before(i, j) == rank[i] < rank[j] \/ (rank[i] = rank[j] /\ i < j)
Listed       == CHOOSE q \in [1..Cardinality(Stored) -> Stored] :
                  \A m, n \in DOMAIN q : m < n => Before(q[m], q[n])

(* A chart of new sections, and the page that was loaded with it. *)
EditorInit ==
  /\ row = [i \in Key |-> IF i \in First THEN Fresh ELSE "absent"]
  /\ rank = [i \in Key |-> IF i \in First THEN Cardinality({j \in First : j < i}) ELSE 0]
  /\ known = First
  /\ drawn = row
  /\ order = Listed
  /\ undo = <<>> /\ redo = <<>> /\ pending = <<>>
  /\ dirty = FALSE /\ saving = FALSE /\ creating = FALSE
  /\ req = [s \in Slot |-> Idle]
  /\ seen = {}
  /\ edits = 0 /\ sent = 0

-----------------------------------------------------------------------------
(* Gestures and their history                                              *)

(* snapshotState.  Two are the same if they look the same: what is         *)
(* selected does not count (materialKey).                                  *)
Snapshot == [look |-> [i \in Range(order) \cap known |-> drawn[i]], order |-> order]

Last(q)     == q[Len(q)]
Front(q)    == SubSeq(q, 1, Len(q) - 1)

(* Mutant: nothing is dropped from the far end. *)
PushUnbounded(q, x) == Append(q, x)

Push(q, x) == IF Len(q) < HistoryLimit THEN Append(q, x) ELSE Append(Tail(q), x)

(* endCoalesce, for the baseline the gesture began with. *)
EndGesture ==
  IF pending # <<>> /\ pending[1] # Snapshot
  THEN undo' = Push(undo, pending[1]) /\ redo' = <<>>
  ELSE UNCHANGED <<undo, redo>>

(* beginCoalesce: a slider is grabbed, a field entered, a handle or a seat *)
(* pressed; a gesture whose end never came is ended first.                 *)
Begin == /\ EndGesture
         /\ pending' = <<Snapshot>>
         /\ UNCHANGED <<known, drawn, order, dirty, saving, creating, server, req, seen, edits, sent>>

(* A value changes under the gesture; or without one: a slider is moved by *)
(* the keyboard, or a field goes on being typed in after Enter.            *)
Input(i, v) == /\ edits < MaxEdit
               /\ i \in known
               /\ drawn' = [drawn EXCEPT ![i] = v]
               /\ dirty' = TRUE
               /\ seen' = seen \cup (IF pending = <<>> THEN {"loose"} ELSE {})
                               \cup (IF saving THEN {"late"} ELSE {})
               /\ edits' = edits + 1
               /\ UNCHANGED <<known, order, undo, redo, pending, saving, creating, server, req, sent>>

End == /\ EndGesture
       /\ pending' = <<>>
       /\ UNCHANGED <<known, drawn, order, dirty, saving, creating, server, req, seen, edits, sent>>

(* A stepper, a toggle, the popover of a seat: a gesture in one event,      *)
(* which keeps to the bounds (a field that is typed in does not), unless    *)
(* something else of the section has left them.                             *)
Step(i, v) ==
  /\ edits < MaxEdit
  /\ i \in known
  /\ v \in InBounds \/ drawn[i] \notin InBounds
  /\ LET was  == Snapshot
         now  == [was EXCEPT !.look = [j \in DOMAIN @ |-> IF j = i THEN v ELSE @[j]]]
         open == pending # <<>> /\ pending[1] # was
         base == IF open THEN Push(undo, pending[1]) ELSE undo
     IN  /\ undo' = IF now # was THEN Push(base, was) ELSE base
         /\ redo' = IF now # was \/ open THEN <<>> ELSE redo
  /\ drawn' = [drawn EXCEPT ![i] = v]
  /\ pending' = <<>>
  /\ dirty' = TRUE
  /\ seen' = seen \cup (IF saving THEN {"late"} ELSE {})
  /\ edits' = edits + 1
  /\ UNCHANGED <<known, order, saving, creating, server, req, sent>>

(* restoreState *)
Restore(snap) == /\ drawn' = [i \in Key |-> IF i \in DOMAIN snap.look /\ i \in known
                                                THEN snap.look[i] ELSE drawn[i]]
                 /\ order' = snap.order
                 /\ dirty' = TRUE
                 /\ seen' = seen \cup (IF saving THEN {"late"} ELSE {})
                 /\ UNCHANGED <<known, saving, creating, server, req, edits, sent>>

(* undo(): the gesture under way is ended first, and then undone. *)
Undo == LET open == pending # <<>> /\ pending[1] # Snapshot
            u    == IF open THEN Push(undo, pending[1]) ELSE undo
            r    == IF open THEN <<>> ELSE redo
        IN  /\ u # <<>>
            /\ undo' = Front(u)
            /\ redo' = Append(r, Snapshot)
            /\ pending' = <<>>
            /\ Restore(Last(u))

(* redo(): a gesture under way is ended, and there is nothing to redo.     *)
Redo == /\ ~(pending # <<>> /\ pending[1] # Snapshot)
        /\ redo # <<>>
        /\ redo' = Front(redo)
        /\ undo' = Append(undo, Snapshot)
        /\ pending' = <<>>
        /\ Restore(Last(redo))

(* Mutant: the gesture under way keeps its baseline. *)
ClearStacks == /\ undo' = <<>>
               /\ redo' = <<>>
               /\ UNCHANGED pending

ClearHistory == /\ undo' = <<>>
                /\ redo' = <<>>
                /\ pending' = <<>>

-----------------------------------------------------------------------------
(* Requests                                                                *)

InFlight(k)  == {s \in Slot : req[s].kind = k /\ req[s].mine}
At(s, k, st) == req[s].kind = k /\ req[s].step = st

Send(s, r) == /\ sent < MaxRequest
              /\ req[s] = Idle
              /\ req' = [req EXCEPT ![s] = r]
              /\ sent' = sent + 1

Done(s) == req' = [req EXCEPT ![s] = Idle]

(* The answer goes to the editor, or to a tab that is not modelled. *)
Answer(s, r) == req' = [req EXCEPT ![s] = IF req[s].mine THEN r ELSE Idle]

(* Another request has read the order and has not written what it makes of *)
(* it, or the ordering of a section that is now exchanged.                 *)
Overlap(s) == \E o \in Slot \ {s} :
                \/ At(o, "create", "insert") \/ At(o, "reorder", "swap")
                \/ At(o, "reorder", "read") /\ At(s, "reorder", "swap") /\ req[o].id \in DOMAIN req[s].new

(* submitNewSection, once at a time *)
NewSection(s) == /\ ~creating
                 /\ Send(s, [kind |-> "create", step |-> "count", mine |-> TRUE])
                 /\ creating' = TRUE
                 /\ seen' = seen \cup (IF InFlight("reorder") # {} THEN {"mixed"} ELSE {})
                 /\ UNCHANGED <<known, drawn, order, undo, redo, pending, dirty, saving, server, edits>>

NewSectionElsewhere(s) == /\ Send(s, [kind |-> "create", step |-> "count", mine |-> FALSE])
                          /\ UNCHANGED <<client, server, seen, edits>>

(* SectionCreateView.form_valid: the sections are counted, or the form is  *)
(* refused,                                                                *)
Count(s) == /\ At(s, "create", "count")
            /\ \/ req' = [req EXCEPT ![s] = [kind |-> "create", step |-> "insert", mine |-> @.mine,
                                             count |-> Cardinality(Stored)]]
               \/ Answer(s, [kind |-> "create", step |-> "refused", mine |-> TRUE])
            /\ UNCHANGED <<client, server, seen, edits, sent>>

(* Mutant: a new section goes to the front. *)
InsertFirst(s) ==
  /\ At(s, "create", "insert")
  /\ \E i \in Key \ Stored :
       /\ \A j \in Key \ Stored : i <= j
       /\ row' = [row EXCEPT ![i] = Fresh]
       /\ rank' = [rank EXCEPT ![i] = 0]
       /\ Answer(s, [kind |-> "create", step |-> "created", mine |-> TRUE, id |-> i])
  /\ seen' = seen \cup (IF Overlap(s) THEN {"raced"} ELSE {})
                  \cup (IF req[s].mine THEN {} ELSE {"strangers"})
  /\ UNCHANGED <<client, edits, sent>>

(* and the section is stored at the end of the list as it was counted.     *)
Insert(s) ==
  /\ At(s, "create", "insert")
  /\ \E i \in Key \ Stored :
       /\ \A j \in Key \ Stored : i <= j
       /\ row' = [row EXCEPT ![i] = Fresh]
       /\ rank' = [rank EXCEPT ![i] = req[s].count]
       /\ Answer(s, [kind |-> "create", step |-> "created", mine |-> TRUE, id |-> i])
  /\ seen' = seen \cup (IF Overlap(s) THEN {"raced"} ELSE {})
                  \cup (IF req[s].mine THEN {} ELSE {"strangers"})
  /\ UNCHANGED <<client, edits, sent>>

(* Mutant: the section is drawn, and not put in the list. *)
CreatedUnlisted(s) ==
  /\ At(s, "create", "created")
  /\ known' = known \cup {req[s].id}
  /\ drawn' = [drawn EXCEPT ![req[s].id] = Fresh]
  /\ ClearHistory
  /\ creating' = FALSE
  /\ Done(s)
  /\ UNCHANGED <<order, dirty, saving, server, seen, edits, sent>>

(* The section is put at the end of the list, and history ends with it. *)
Created(s) ==
  /\ At(s, "create", "created")
  /\ known' = known \cup {req[s].id}
  /\ drawn' = [drawn EXCEPT ![req[s].id] = Fresh]
  /\ order' = Append(order, req[s].id)
  /\ ClearHistory
  /\ creating' = FALSE
  /\ Done(s)
  /\ UNCHANGED <<dirty, saving, server, seen, edits, sent>>

Refused(s) == /\ At(s, "create", "refused")
              /\ creating' = FALSE
              /\ Done(s)
              /\ UNCHANGED <<known, drawn, order, undo, redo, pending, dirty, saving, server, seen, edits, sent>>

(* reorderSection: nothing waits for an earlier one. *)
Reorder(s, i, d) ==
  /\ i \in known
  /\ Send(s, [kind |-> "reorder", step |-> "load", mine |-> TRUE, id |-> i, dir |-> d])
  /\ seen' = seen \cup (IF InFlight("create") # {} THEN {"mixed"} ELSE {})
  /\ UNCHANGED <<client, server, edits>>

ReorderElsewhere(s, i, d) ==
  /\ i \in Stored
  /\ Send(s, [kind |-> "reorder", step |-> "load", mine |-> FALSE, id |-> i, dir |-> d])
  /\ UNCHANGED <<client, server, seen, edits>>

(* section_reorder reads the section, with its ordering,                    *)
Load(s) ==
  /\ At(s, "reorder", "load")
  /\ req' = [req EXCEPT ![s] = [kind |-> "reorder", step |-> "read", mine |-> @.mine,
                                id |-> @.id, dir |-> @.dir, own |-> rank[@.id]]]
  /\ UNCHANGED <<client, server, seen, edits, sent>>

(* and then the list: who is beside it, with which ordering, is read from   *)
(* the list, and what is given for that is the section's own as it was      *)
(* before.                                                                  *)
Read(s) ==
  /\ At(s, "reorder", "read")
  /\ LET n == CHOOSE n \in DOMAIN Listed : Listed[n] = req[s].id
         m == IF req[s].dir = "up" THEN n - 1 ELSE n + 1
     IN  IF m \in DOMAIN Listed
         THEN req' = [req EXCEPT ![s] = [kind |-> "reorder", step |-> "swap", mine |-> @.mine,
                        new |-> [j \in {Listed[n], Listed[m]} |->
                                   IF j = Listed[n] THEN rank[Listed[m]] ELSE req[s].own]]]
         ELSE req' = [req EXCEPT ![s] = [kind |-> "reorder", step |-> "list", mine |-> @.mine]]
  /\ UNCHANGED <<client, server, seen, edits, sent>>

(* The two rows are written in one transaction. *)
Swap(s) ==
  /\ At(s, "reorder", "swap")
  /\ rank' = [j \in Key |-> IF j \in DOMAIN req[s].new THEN req[s].new[j] ELSE rank[j]]
  /\ req' = [req EXCEPT ![s] = [kind |-> "reorder", step |-> "list", mine |-> @.mine]]
  /\ seen' = seen \cup (IF Overlap(s) THEN {"raced"} ELSE {})
  /\ UNCHANGED <<client, row, edits, sent>>

(* The answer is the list as it is then. *)
List(s) == /\ At(s, "reorder", "list")
           /\ Answer(s, [kind |-> "reorder", step |-> "moved", mine |-> TRUE, order |-> Listed])
           /\ UNCHANGED <<client, server, seen, edits, sent>>

(* The editor takes the server's order over as it stands. *)
Moved(s) ==
  /\ At(s, "reorder", "moved")
  /\ order' = req[s].order
  /\ ClearHistory
  /\ Done(s)
  /\ UNCHANGED <<known, drawn, dirty, saving, creating, server, seen, edits, sent>>

(* save(): every section listed is sent.  With one in the list that the    *)
(* script does not have, buildPayload throws and nothing is.               *)
Save(s) == /\ dirty /\ ~saving
           /\ Range(order) \subseteq known
           /\ Send(s, [kind |-> "save", step |-> "write", mine |-> TRUE,
                       rows |-> [i \in Range(order) |-> drawn[i]]])
           /\ saving' = TRUE
           /\ seen' = seen \ {"late"}
           /\ UNCHANGED <<known, drawn, order, undo, redo, pending, dirty, creating, server, edits>>

(* Another tab sends what, as far as the server is concerned, is v. *)
SaveElsewhere(s, v) == /\ Send(s, [kind |-> "save", step |-> "write", mine |-> FALSE, rows |-> v])
                       /\ UNCHANGED <<client, server, seen, edits>>

(* chart_editor_save: the sections whose seats cannot be regenerated, or    *)
(* that hold something that is no number, stay as they were and are         *)
(* reported; the others are stored, clamped, of which the answer says       *)
(* nothing.                                                                 *)
Store(s) ==
  /\ At(s, "save", "write")
  /\ \E bad \in SUBSET (DOMAIN req[s].rows \cap Stored) :
       /\ row' = [i \in Key |-> IF i \in (DOMAIN req[s].rows \cap Stored) \ bad
                                    THEN Clamp[req[s].rows[i]] ELSE row[i]]
       /\ Answer(s, [kind |-> "save", step |-> "answer", mine |-> TRUE, errors |-> bad # {}])
  /\ seen' = seen \cup (IF req[s].mine THEN {} ELSE {"overwritten"})
  /\ UNCHANGED <<client, rank, edits, sent>>

(* Mutant: an answer is a success. *)
SavedAnyhow(s) ==
  /\ At(s, "save", "answer")
  /\ dirty' = FALSE
  /\ saving' = FALSE
  /\ Done(s)
  /\ UNCHANGED <<known, drawn, order, undo, redo, pending, creating, server, seen, edits, sent>>

(* Nothing is unsaved any more, unless a section was reported. *)
LayoutSaved(s) ==
  /\ At(s, "save", "answer")
  /\ dirty' = (dirty /\ req[s].errors)
  /\ saving' = FALSE
  /\ Done(s)
  /\ UNCHANGED <<known, drawn, order, undo, redo, pending, creating, server, seen, edits, sent>>

(* The connection fails, before the request got there, after it was        *)
(* served, or while it is being served, which then goes on: the button can *)
(* be pressed again.                                                       *)
Fail(s) ==
  /\ req[s].kind # "idle" /\ req[s].mine
  /\ \/ req[s].step \notin {"insert", "read", "swap", "list"} /\ Done(s)
     \/ /\ req[s].step \notin {"created", "refused", "moved", "answer"}
        /\ req' = [req EXCEPT ![s].mine = FALSE]
  /\ saving' = (saving /\ req[s].kind # "save")
  /\ creating' = (creating /\ req[s].kind # "create")
  /\ seen' = seen \cup (IF req[s].step = "created" THEN {"strangers"} ELSE {})
  /\ UNCHANGED <<known, drawn, order, undo, redo, pending, dirty, server, edits, sent>>

-----------------------------------------------------------------------------
Gesture == \/ Begin \/ End \/ Undo \/ Redo
           \/ \E i \in Key, v \in Look : Input(i, v) \/ Step(i, v)

Asked(s) == \/ NewSection(s) \/ NewSectionElsewhere(s) \/ Save(s)
            \/ \E v \in [First -> InBounds] : SaveElsewhere(s, v)
            \/ \E i \in Key, d \in {"up", "down"} : Reorder(s, i, d) \/ ReorderElsewhere(s, i, d)

Served(s) == \/ Count(s) \/ Insert(s) \/ Load(s) \/ Read(s) \/ Swap(s) \/ List(s) \/ Store(s)

Answered(s) == Created(s) \/ Refused(s) \/ Moved(s) \/ LayoutSaved(s) \/ Fail(s)

EditorNext == Gesture \/ \E s \in Slot : Asked(s) \/ Served(s) \/ Answered(s)

EditorSpec == EditorInit /\ [][EditorNext]_editorVars

-----------------------------------------------------------------------------
Snapshots == [look : UNION {[D -> Look] : D \in SUBSET Key}, order : Seq(Key)]

(* A request in flight: what the server has read for it, or the answer.    *)
Counting  == [kind : {"create"}, step : {"count"}, mine : BOOLEAN]
Inserting == [kind : {"create"}, step : {"insert"}, mine : BOOLEAN, count : 0..Cardinality(Key)]
Refusal   == [kind : {"create"}, step : {"refused"}, mine : {TRUE}]
Creation  == [kind : {"create"}, step : {"created"}, mine : {TRUE}, id : Key]
Loading   == [kind : {"reorder"}, step : {"load"}, mine : BOOLEAN, id : Key, dir : {"up", "down"}]
Reading   == [kind : {"reorder"}, step : {"read"}, mine : BOOLEAN, id : Key, dir : {"up", "down"},
              own : 0..Cardinality(Key)]
Swapping  == [kind : {"reorder"}, step : {"swap"}, mine : BOOLEAN,
              new : UNION {[D -> 0..Cardinality(Key)] : D \in SUBSET Key}]
Listing   == [kind : {"reorder"}, step : {"list"}, mine : BOOLEAN]
NewOrder  == [kind : {"reorder"}, step : {"moved"}, mine : {TRUE}, order : Seq(Key)]
Storing   == [kind : {"save"}, step : {"write"}, mine : BOOLEAN,
              rows : UNION {[D -> Look] : D \in SUBSET Key}]
Receipt   == [kind : {"save"}, step : {"answer"}, mine : {TRUE}, errors : BOOLEAN]

Request == {Idle} \cup Counting \cup Inserting \cup Refusal \cup Creation
                  \cup Loading \cup Reading \cup Swapping \cup Listing \cup NewOrder
                  \cup Storing \cup Receipt

Events  == {"loose", "late", "mixed", "strangers", "raced", "overwritten"}

(* The types: the stacks stay within their limit, which redo reaches only  *)
(* by what undo gave up.                                                   *)
EditorTypeOK ==
  /\ known \subseteq Key
  /\ drawn \in [Key -> Look \cup {"absent"}] /\ \A i \in known : drawn[i] \in Look
  /\ order \in Seq(Key)
  /\ undo \in Seq(Snapshots) /\ redo \in Seq(Snapshots) /\ pending \in Seq(Snapshots)
  /\ Len(undo) + Len(redo) <= HistoryLimit /\ Len(pending) <= 1
  /\ {dirty, saving, creating} \subseteq BOOLEAN
  /\ row \in [Key -> Look \cup {"absent"}] /\ rank \in [Key -> 0..Cardinality(Key)]
  /\ req \in [Slot -> Request]
  /\ seen \subseteq Events /\ edits \in 0..MaxEdit /\ sent \in 0..MaxRequest

(* What is drawn, or asked about by key, is stored, and what is sent to be *)
(* stored is drawn: no request deletes a section.                          *)
DrawnAreStored ==
  /\ known \subseteq Stored
  /\ \A s \in Slot : /\ At(s, "create", "created") => req[s].id \in Stored
                     /\ At(s, "reorder", "load") => req[s].id \in Stored
                     /\ At(s, "reorder", "read") => req[s].id \in Stored
                     /\ At(s, "reorder", "swap") => DOMAIN req[s].new \subseteq Stored
                     /\ At(s, "save", "write") /\ req[s].mine => DOMAIN req[s].rows \subseteq known

(* The editor sends one new section at a time and one save at a time, and  *)
(* waits for them.                                                         *)
OneAtATime ==
  /\ saving   = (InFlight("save") # {})   /\ \A s, o \in InFlight("save")   : s = o
  /\ creating = (InFlight("create") # {}) /\ \A s, o \in InFlight("create") : s = o

(* "undoing to it would orphan a real DB row" (chart_editor.js:814): every *)
(* snapshot that undo, redo or the end of a gesture could bring back lists *)
(* the sections that are listed now, in the order they are in now.         *)
HistoryKeepsSections ==
  \A snap \in Range(undo) \cup Range(redo) \cup Range(pending) : snap.order = order

(* The list has each section the editor has, once, and no other: what is   *)
(* not listed is not saved, and what is listed and not known stops every   *)
(* save.  It is otherwise only when a section was created that the editor  *)
(* was not told of, or a new section and a move were under way at once.    *)
ListedAreKnown ==
  seen \cap {"strangers", "mixed"} = {} => IsInjective(order) /\ Range(order) = known

(* Without `Unsaved changes` on the page, what is drawn is stored as the     *)
(* server takes it, unless something was changed while the save was under    *)
(* way, another tab saved, or the list was wrong.  "What staff see is exactly *)
(* what gets persisted" (dashboard/views.py:1635) is CleanIsExact: a value    *)
(* typed past a field's limits is clamped and answered with ok, and stays on  *)
(* the page as it was typed.                                                 *)
CleanIsSaved ==
  ~dirty /\ seen \cap {"late", "overwritten", "strangers", "mixed"} = {} =>
    \A i \in known : row[i] = Clamp[drawn[i]]

CleanIsExact ==
  ~dirty /\ seen \cap {"late", "overwritten", "strangers", "mixed"} = {} =>
    \A i \in known : row[i] = drawn[i]

(* No two sections have the same ordering, by which the arrows would stop  *)
(* moving them past each other, unless two requests that change it were    *)
(* served at the same time.                                                *)
OrderingsApart ==
  "raced" \notin seen => \A i, j \in Stored : rank[i] = rank[j] => i = j

-----------------------------------------------------------------------------
(* What keeps them true                                                    *)

(* Until a section is stored that the editor is not told of, or a new one  *)
(* and a move are under way at once, an answer on its way fits the list.   *)
AnswersFitTheList ==
  seen \cap {"strangers", "mixed"} = {} =>
    /\ InFlight("create") = {} \/ InFlight("reorder") = {}
    /\ \A i \in Stored \ known : \E s \in Slot : At(s, "create", "created") /\ req[s].id = i
    /\ \A s \in Slot : At(s, "create", "created") => req[s].id \notin known
    /\ \A s \in Slot : At(s, "reorder", "moved") =>
         IsInjective(req[s].order) /\ Range(req[s].order) = known

(* What a save sends is what is still drawn, a section drawn since is as   *)
(* it was stored, and so everything is, clamped, once a save succeeded.    *)
AnswersFitTheDrawing ==
  /\ seen \cap {"overwritten", "strangers", "mixed"} = {} =>
       \A s \in Slot : At(s, "create", "created") => row[req[s].id] = Fresh
  /\ seen \cap {"late", "overwritten", "strangers", "mixed"} = {} =>
       \A s \in InFlight("save") :
         /\ req[s].step = "write" => \A i \in known :
              IF i \in DOMAIN req[s].rows THEN drawn[i] = req[s].rows[i] ELSE row[i] = Clamp[drawn[i]]
         /\ req[s].step = "answer" /\ ~req[s].errors => \A i \in known : row[i] = Clamp[drawn[i]]

(* Served one after the other, a new section is counted to the end of the  *)
(* list, and a move exchanges two orderings as they are.                   *)
PlansFitTheOrderings ==
  "raced" \notin seen =>
    /\ \A i \in Stored : rank[i] < Cardinality(Stored)
    /\ \A s \in Slot :
         /\ At(s, "create", "insert") => req[s].count = Cardinality(Stored)
         /\ At(s, "reorder", "read") => req[s].own = rank[req[s].id]
         /\ At(s, "reorder", "swap") =>
              \E i, j \in Stored : /\ DOMAIN req[s].new = {i, j}
                                   /\ req[s].new[i] = rank[j] /\ req[s].new[j] = rank[i]

EditorInv ==
  /\ EditorTypeOK /\ DrawnAreStored /\ OneAtATime /\ HistoryKeepsSections
  /\ ListedAreKnown /\ AnswersFitTheList
  /\ CleanIsSaved /\ AnswersFitTheDrawing
  /\ OrderingsApart /\ PlansFitTheOrderings
=============================================================================
