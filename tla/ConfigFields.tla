----------------------------- MODULE ConfigFields -----------------------------
(***************************************************************************)
(* One control of the configuration panel (ConfigPanel.tsx) over the value *)
(* its step stores: what the operator does with the control, what undo and *)
(* redo do to the value underneath it, and the requests of a control that  *)
(* searches.                                                               *)
(*                                                                         *)
(* The panel is mounted anew for every step, so a behaviour has one field. *)
(* An action is one handler, or the settling of one request, with the      *)
(* render and the effects that follow.                                     *)
(***************************************************************************)
EXTENDS FieldValues, FiniteSets
LOCAL INSTANCE SequencesExt
LOCAL INSTANCE Bags

CONSTANTS
    Fields,      \* what an action's form may declare
    Opened,      \* the values each control may be opened with
    Amounts,     \* amounts an operator may type
    Texts,       \* what may be typed into a text input
    Events,      \* the registered trigger events
    Secrets,     \* the names of the secrets
    CaseKeys,    \* what may be typed as a case key, and the key it comes to
    Queries,     \* search queries, with their lengths
    Results,     \* what the option source finds for each of them
    Resolvable,  \* the values the option source can name
    MaxEdits,    \* bound on commits, undos and redos
    MaxRows      \* bound on the rows of a list

\* A stored duration has a form, an amount is a number or none yet, and a search
\* opens with the empty query.
ASSUME FieldsAssumption ==
    /\ Opened["duration"] \subseteq Durations
    /\ \A amount \in Amounts : amount = NoAmount \/ (amount \in Seq(Int) /\ Len(amount) = 1)
    /\ "" \in DOMAIN Queries

VARIABLES
    field,       \* the field shown
    stored,      \* the value in the step's configuration
    past, future,\* the values that undo and redo bring back
    ctl,         \* the control's own state
    edits        \* how often the history has moved

vars == <<field, stored, past, future, ctl, edits>>

(***************************************************************************)
(* Which control a field gets                                              *)
(***************************************************************************)
Plain(type) == [type |-> type, options |-> <<>>, searches |-> FALSE, min |-> 0]

DelayFields == {Plain("duration"), Plain("boolean"), Plain("text")}
WaitFields == {Plain("event"), Plain("duration")}
ApprovalFields == {Plain("text"), Plain("duration"), Plain("boolean"), Plain("payload"), Plain("emails")}
SwitchFields == {Plain("cases")}

StepFields == DelayFields \cup WaitFields \cup ApprovalFields \cup SwitchFields

OptionMode(f) == CASE f.options # <<>> -> "inline"
                   [] f.options = <<>> /\ f.searches -> "search"
                   [] OTHER -> "none"

ControlOf(f) ==
    CASE f.type = "multiselect" /\ OptionMode(f) = "inline" -> "multiselect"
      [] f.type # "multiselect" /\ OptionMode(f) = "inline" -> "select"
      [] f.type = "multiselect" /\ OptionMode(f) = "search" -> "chips"
      [] f.type # "multiselect" /\ OptionMode(f) = "search" -> "search"
      [] OTHER -> IF f \in StepFields \/ f.type \in {"boolean", "secret"} THEN f.type ELSE "text"

Control == ControlOf(field)
Searches == Control \in {"search", "chips"}

(***************************************************************************)
(* A search: the requests that run, the one that was not overtaken live.   *)
(***************************************************************************)
Wanted(value) == IF Control = "chips" THEN Pieces(value) ELSE Pieces(<<value>>)

LongEnough(query) == Queries[query] >= field.min

\* Mutant of Overtaken: a request that was overtaken may still answer.
NotOvertaken(requests) == requests

Overtaken(requests) == {[r EXCEPT !.live = FALSE] : r \in requests}

\* The search effect: what runs is overtaken; a query too short asks nothing.
Fetch(c) ==
    IF LongEnough(c.debounced)
    THEN [c EXCEPT !.loading = TRUE,
                   !.searches = Overtaken(@) \cup {[query |-> c.debounced, live |-> TRUE]}]
    ELSE [c EXCEPT !.searches = Overtaken(@)]

\* The label effect: each wanted value is looked up once, whatever comes of it.
LookUp(c, value) ==
    LET pending == ToSet(Wanted(value)) \ c.attempted
        asked == {[value |-> v, live |-> TRUE] : v \in pending}
    IN  [c EXCEPT !.attempted = @ \cup pending, !.lookups = Overtaken(@) \cup asked]

OpenSearch(value) ==
    Fetch(LookUp([query |-> "", debounced |-> "", options |-> {}, labels |-> {}, loading |-> FALSE,
                  attempted |-> {}, lookups |-> {}, searches |-> {}], value))

(***************************************************************************)
(* The duration field and the case keys keep drafts of their own.          *)
(***************************************************************************)
OpenDuration(value) ==
    [manual |-> value # NoDuration /\ ~Splits(value),
     amount |-> IF Splits(value) THEN <<value.amount>> ELSE NoAmount,
     unit |-> IF Splits(value) THEN value.unit ELSE "hours"]

\* Rows are kept by position: a draft gives way where another key takes its place.
SettleDrafts(c, keys) ==
    [drafts |-> [i \in DOMAIN keys |->
        IF i \in DOMAIN c.drafts /\ i \in DOMAIN stored /\ stored[i] = keys[i]
        THEN c.drafts[i] ELSE keys[i]]]

\* Mutant of Resync: the draft follows the value only where it was typed.
NoResync(c, value) == c

Resync(c, value) ==
    IF value # stored /\ Splits(value)
    THEN [c EXCEPT !.amount = <<value.amount>>, !.unit = value.unit]
    ELSE c

Pinned == stored # NoDuration /\ ~Splits(stored)
Iso == ctl.manual \/ Pinned

(***************************************************************************)
(* Commits, and the render that follows each: the panel hands its controls *)
(* a new field object, so a search starts over.                            *)
(***************************************************************************)
AfterRender(c, value) ==
    CASE Control = "duration" -> Resync(c, value)
      [] Control = "cases" -> SettleDrafts(c, value)
      [] Searches -> Fetch(IF Wanted(value) # Wanted(stored) THEN LookUp(c, value) ELSE c)
      [] OTHER -> c

Counted == edits < MaxEdits /\ edits' = edits + 1

Commit(value, c) ==
    /\ Counted
    /\ past' = Append(past, stored)
    /\ future' = <<>>
    /\ stored' = value
    /\ ctl' = AfterRender(c, value)
    /\ UNCHANGED field

Undo ==
    /\ past # <<>>
    /\ Counted
    /\ stored' = Last(past)
    /\ past' = Front(past)
    /\ future' = <<stored>> \o future
    /\ ctl' = AfterRender(ctl, Last(past))
    /\ UNCHANGED field

Redo ==
    /\ future # <<>>
    /\ Counted
    /\ stored' = Head(future)
    /\ future' = Tail(future)
    /\ past' = Append(past, stored)
    /\ ctl' = AfterRender(ctl, Head(future))
    /\ UNCHANGED field

\* Only the control changes.
Local(c) == ctl' = c /\ UNCHANGED <<field, stored, past, future, edits>>

\* The editor renders for another reason: an answer of the validator, say.
PanelRenders == Searches /\ Local(AfterRender(ctl, stored))

(***************************************************************************)
(* Texts, selects and checkboxes; the event and its free-entry hatch       *)
(***************************************************************************)
Type ==
    /\ Control = "text" \/ (Control = "event" /\ ctl.manual)
    /\ \E text \in Texts : Commit(text, ctl)

\* The select never takes a value over by itself, offered or not.
Choose ==
    \/ /\ Control = "select"
       /\ \E o \in ToSet(field.options) \cup {NoPiece} : Commit(o, ctl)
    \/ /\ Control = "secret"
       /\ \E name \in Secrets \cup {NoPiece} : Commit(name, ctl)

Tick == Control = "boolean" /\ Commit(~stored, ctl)

ChooseEvent ==
    /\ Control = "event" /\ ~ctl.manual
    /\ \E e \in Events \cup {NoPiece} : Commit(e, ctl)

ToggleFreeEntry ==
    /\ Control = "event" /\ Events # {}
    /\ Local([ctl EXCEPT !.manual = ~@])

(***************************************************************************)
(* Durations                                                               *)
(***************************************************************************)
\* What cannot be composed leaves the stored value alone.
Compose(c) ==
    IF Composes(c.amount) THEN Commit(Simple(c.amount[1], c.unit), c) ELSE Local(c)

TypeAmount ==
    /\ Control = "duration" /\ ~Iso
    /\ \E amount \in Amounts : Compose([ctl EXCEPT !.amount = amount])

ChooseUnit ==
    /\ Control = "duration" /\ ~Iso
    /\ \E unit \in Units : Compose([ctl EXCEPT !.unit = unit])

TypeIso ==
    /\ Control = "duration" /\ Iso
    /\ \E value \in Opened["duration"] : Commit(value, [ctl EXCEPT !.manual = TRUE])

ToggleIso ==
    /\ Control = "duration" /\ ~Pinned
    /\ Local([ctl EXCEPT !.manual = ~Iso])

(***************************************************************************)
(* The keys of a switch's cases: a refused key stays on screen only.       *)
(***************************************************************************)
KeyAccepted(i, key) == key # "" /\ \A j \in DOMAIN stored \ {i} : stored[j] # key

TypeKey ==
    /\ Control = "cases"
    /\ \E i \in DOMAIN stored, raw \in DOMAIN CaseKeys :
          LET typed == [ctl EXCEPT !.drafts[i] = raw]
          IN  IF KeyAccepted(i, CaseKeys[raw]) THEN Commit(ReplaceAt(stored, i, CaseKeys[raw]), typed)
              ELSE Local(typed)

(***************************************************************************)
(* Lists                                                                   *)
(***************************************************************************)
\* A click, with or without Ctrl or Shift, may leave any part of the list selected: a
\* plain one drops all that was selected before, offered or not.
SelectOptions ==
    /\ Control = "multiselect"
    /\ LET selected == Pieces(stored)
       IN  \E chosen \in SUBSET ToSet(MultiOptions(field.options, selected)) \ {ToSet(selected)} :
              Commit(Selection(field.options, selected, chosen), ctl)

Rows == IF Control = "payload" THEN ReadRows(stored) ELSE stored

ChangeRow ==
    /\ Control = "payload"
    /\ \E i \in DOMAIN Rows :
       \E key \in {OwnKey, 1, 2}, type \in TypeOptions(Rows[i].type), required \in BOOLEAN :
          LET row == [key |-> key, type |-> type, required |-> required]
          IN  /\ Cardinality({k \in DOMAIN row : row[k] # Rows[i][k]}) = 1
              /\ Commit(ReplaceAt(Rows, i, row), ctl)

ChangeRecipient ==
    /\ Control = "emails"
    /\ \E i \in DOMAIN stored, text \in Texts : Commit(ReplaceAt(stored, i, text), ctl)

MoveRow ==
    /\ Control \in {"payload", "cases"}
    /\ \E i \in DOMAIN Rows, delta \in {-1, 1} :
          /\ i + delta \in DOMAIN Rows
          /\ Commit(MoveItem(Rows, i, delta), ctl)

\* A switch keeps one case.
RemoveRow ==
    /\ Control \in {"payload", "emails", "cases"}
    /\ Control = "cases" => Len(stored) > 1
    /\ \E i \in DOMAIN Rows : Commit(RemoveAt(Rows, i), ctl)

AddRow ==
    /\ Control \in {"payload", "emails"}
    /\ Len(stored) < MaxRows
    /\ Commit(Append(Rows, IF Control = "payload" THEN BlankRow(Rows) ELSE NoPiece), ctl)

(***************************************************************************)
(* Searching                                                               *)
(***************************************************************************)
TypeQuery ==
    /\ Searches
    /\ \E q \in DOMAIN Queries \ {ctl.query} : Local([ctl EXCEPT !.query = q])

\* The operator paused: the debounced query follows.
Debounced ==
    /\ Searches /\ ctl.query # ctl.debounced
    /\ Local(Fetch([ctl EXCEPT !.debounced = ctl.query]))

SearchAnswers ==
    /\ Searches
    /\ \E r \in ctl.searches : \E found \in {Results[r.query], {}} :
           LET rest == [ctl EXCEPT !.searches = @ \ {r}]
           IN  Local(IF r.live
                     THEN [rest EXCEPT !.options = found, !.loading = FALSE,
                                       !.labels = @ \cup (found \cap ToSet(Wanted(stored)))]
                     ELSE rest)

LookupAnswers ==
    /\ Searches
    /\ \E l \in ctl.lookups : \E named \in {{l.value} \cap Resolvable, {}} :
           Local([ctl EXCEPT !.lookups = @ \ {l},
                             !.labels = IF l.live THEN @ \cup named ELSE @])

PickOption ==
    /\ Control = "search"
    /\ \E o \in OptionsWithSelected(ctl.options, stored) \cup {NoPiece} : Commit(o, ctl)

AddChip ==
    /\ Control = "chips"
    /\ \E o \in SearchAddOptions(ctl.options, Pieces(stored)) : Commit(AddToMulti(stored, o), ctl)

RemoveChip ==
    /\ Control = "chips"
    /\ \E o \in ToSet(Pieces(stored)) : Commit(RemoveFromMulti(stored, o), ctl)

(***************************************************************************)
(* The specification                                                       *)
(***************************************************************************)
OpenControl(value) ==
    CASE Control = "duration" -> OpenDuration(value)
      [] Control = "event" -> [manual |-> Events = {} \/ (value # NoPiece /\ value \notin Events)]
      [] Control = "cases" -> [drafts |-> value]
      [] Searches -> OpenSearch(value)
      [] OTHER -> [none |-> TRUE]

Init ==
    /\ field \in Fields \cup StepFields
    /\ stored \in Opened[Control]
    /\ ctl = OpenControl(stored)
    /\ past = <<>> /\ future = <<>> /\ edits = 0

Next ==
    \/ Type \/ Choose \/ Tick \/ ChooseEvent \/ ToggleFreeEntry
    \/ TypeAmount \/ ChooseUnit \/ TypeIso \/ ToggleIso
    \/ TypeKey
    \/ SelectOptions \/ ChangeRow \/ ChangeRecipient \/ MoveRow \/ RemoveRow \/ AddRow
    \/ TypeQuery \/ Debounced \/ SearchAnswers \/ LookupAnswers \/ PickOption \/ AddChip \/ RemoveChip
    \/ PanelRenders \/ Undo \/ Redo

Spec == Init /\ [][Next]_vars

(***************************************************************************)
(* Properties                                                              *)
(***************************************************************************)
\* The picker holds nothing back: an amount it shows that makes a duration is the
\* stored one, whatever was half typed, entered as ISO, toggled, undone or redone
\* before.  A step without a duration is the exception: its picker shows the last
\* amount, next to the message that one is required.
NothingUncommitted ==
    (Control = "duration" /\ ~Iso /\ stored # NoDuration /\ Composes(ctl.amount))
        => stored = Simple(ctl.amount[1], ctl.unit)

\* The offered options answer the query on screen: an answer that was overtaken
\* by a later query, an edit or an undo is dropped, and when nothing is under way
\* for a query long enough, the options are what the source has for it.
OptionsAnswerTheQuery ==
    Searches =>
        /\ \A r \in ctl.searches : r.live => r.query = ctl.debounced
        /\ (LongEnough(ctl.debounced) /\ \A r \in ctl.searches : ~r.live)
              => ctl.options \in {Results[ctl.debounced], {}} /\ ~ctl.loading

\* What a list holds, as a bag: order is the operator's.
Held(value) ==
    ToBag(CASE Control = "chips" -> Pieces(value)
            [] Control = "payload" -> ReadRows(value)
            [] Control \in {"emails", "cases"} -> value)

\* An edit of the rows of a form, the recipients, the cases or the chips takes out one
\* entry and brings in one at most: rows of unknown or no type, chips the source cannot
\* name and the other cases survive, and a row that is added has a key of its own,
\* whichever were moved or removed before.  A multiselect promises no such thing.
EditsAreLocal ==
    [][(past' = Append(past, stored) /\ Control \in {"chips", "payload", "emails", "cases"}) =>
          /\ BagCardinality(Held(stored) (-) Held(stored')) <= 1
          /\ BagCardinality(Held(stored') (-) Held(stored)) <= 1
          /\ (Control = "payload" /\ Len(stored') > Len(stored))
                => Last(stored').key \notin Keys(Front(stored'))]_vars

\* No key input shows a key that the step would accept and does not have.  It does
\* when a key is refused because another case has it, and that case is removed: the
\* message goes with it, the refused key stays on screen and is not stored.
KeyShownIsKeyStored ==
    Control = "cases" =>
        \A i \in DOMAIN stored :
            LET shown == ctl.drafts[i]
            IN  (shown = CaseKeys[shown] /\ KeyAccepted(i, shown)) => stored[i] = shown
=============================================================================
