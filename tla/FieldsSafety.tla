---------------------------- MODULE FieldsSafety ----------------------------
(***************************************************************************)
(* The safety properties of ConfigFields that TLAPS can reach: what the    *)
(* duration picker and the searches show, for every field, every stored    *)
(* value, every option source and any number of edits.                     *)
(***************************************************************************)
EXTENDS ConfigFields, TLAPS
LOCAL INSTANCE SequencesExt

(***************************************************************************)
(* The duration picker                                                     *)
(***************************************************************************)
Pickers == [manual : BOOLEAN, amount : Seq(Int), unit : Units]

ShowsStored(picker, value) ==
    Splits(value) /\ Composes(picker.amount)
        => value = Simple(picker.amount[1], picker.unit)

\* What the picker shows follows the stored value even while the ISO input covers
\* it, so that toggling back needs no second look at it.
PickerInv ==
    Control = "duration" =>
        /\ stored \in Durations
        /\ past \in Seq(Durations) /\ future \in Seq(Durations)
        /\ ctl \in Pickers /\ Len(ctl.amount) <= 1
        /\ ShowsStored(ctl, stored)

LEMMA PickerFollows ==
    ASSUME NEW picker \in Pickers, Len(picker.amount) <= 1,
           stored \in Durations, NEW value \in Durations,
           Control = "duration",
           value = stored => ShowsStored(picker, value)
    PROVE  LET shown == AfterRender(picker, value)
           IN  shown \in Pickers /\ Len(shown.amount) <= 1 /\ ShowsStored(shown, value)
<1> DEFINE shown == AfterRender(picker, value)
<1>1. shown = Resync(picker, value)
  BY DEF AfterRender, Searches
<1>2. CASE value # stored /\ Splits(value)
  <2>1. value \in [form : {"simple"}, amount : Nat, unit : Units]
    BY <1>2 DEF Durations, Splits, Compound, Malformed, NoDuration
  <2>2. shown = [picker EXCEPT !.amount = <<value.amount>>, !.unit = value.unit]
    BY <1>1, <1>2 DEF Resync
  <2>3. <<value.amount>> \in Seq(Int) /\ Len(<<value.amount>>) = 1 /\ value.unit \in Units
    BY <2>1
  <2>4. shown \in Pickers /\ shown.amount = <<value.amount>> /\ shown.unit = value.unit
    BY <2>2, <2>3 DEF Pickers
  <2>5. value = Simple(value.amount, value.unit)
    BY <2>1 DEF Simple
  <2> QED  BY <2>1, <2>3, <2>4, <2>5 DEF ShowsStored
<1>3. CASE ~(value # stored /\ Splits(value))
  BY <1>1, <1>3 DEF Resync, ShowsStored
<1> QED  BY <1>2, <1>3

LEMMA SequenceEnds ==
    ASSUME NEW S, NEW s \in Seq(S), s # <<>>
    PROVE  /\ Last(s) \in S /\ Front(s) \in Seq(S)
           /\ Head(s) \in S /\ Tail(s) \in Seq(S)
BY DEF Last, Front

(***************************************************************************)
(* No step changes the field shown.                                        *)
(***************************************************************************)
LEMMA FieldStays ==
    ASSUME [Next]_vars
    PROVE  field' = field
<1>1. CASE Type \/ Choose \/ Tick \/ ChooseEvent \/ ToggleFreeEntry
  BY <1>1 DEF Type, Choose, Tick, ChooseEvent, ToggleFreeEntry, Commit, Local
<1>2. CASE TypeAmount \/ ChooseUnit \/ TypeIso \/ ToggleIso
  BY <1>2 DEF TypeAmount, ChooseUnit, TypeIso, ToggleIso, Compose, Commit, Local
<1>3. CASE TypeKey
  BY <1>3 DEF TypeKey, Commit, Local
<1>4. CASE SelectOptions \/ ChangeRecipient \/ MoveRow \/ RemoveRow \/ AddRow
  BY <1>4 DEF SelectOptions, ChangeRecipient, MoveRow, RemoveRow, AddRow, Commit
<1>5. CASE ChangeRow
  BY <1>5 DEF ChangeRow, Commit
<1>6. CASE TypeQuery \/ Debounced \/ SearchAnswers \/ LookupAnswers \/ PanelRenders
  BY <1>6 DEF TypeQuery, Debounced, SearchAnswers, LookupAnswers, PanelRenders, Local
<1>7. CASE PickOption \/ AddChip \/ RemoveChip
  BY <1>7 DEF PickOption, AddChip, RemoveChip, Commit
<1>8. CASE Undo \/ Redo
  BY <1>8 DEF Undo, Redo
<1>9. CASE UNCHANGED vars
  BY <1>9 DEF vars
<1> QED  BY <1>1, <1>2, <1>3, <1>4, <1>5, <1>6, <1>7, <1>8, <1>9 DEF Next

LEMMA ControlStays ==
    ASSUME field' = field
    PROVE  Control' = Control /\ Searches' = Searches
BY DEF Control, Searches

LEMMA DurationSteps ==
    ASSUME [Next]_vars, Control = "duration"
    PROVE  TypeAmount \/ ChooseUnit \/ TypeIso \/ ToggleIso \/ Undo \/ Redo \/ UNCHANGED vars
<1>1. ~(Type \/ Choose \/ Tick \/ ChooseEvent \/ ToggleFreeEntry \/ TypeKey)
  BY DEF Type, Choose, Tick, ChooseEvent, ToggleFreeEntry, TypeKey
<1>2. ~(SelectOptions \/ ChangeRow \/ ChangeRecipient \/ MoveRow \/ RemoveRow \/ AddRow)
  BY DEF SelectOptions, ChangeRow, ChangeRecipient, MoveRow, RemoveRow, AddRow
<1>3. ~(TypeQuery \/ Debounced \/ SearchAnswers \/ LookupAnswers \/ PanelRenders)
  BY DEF TypeQuery, Debounced, SearchAnswers, LookupAnswers, PanelRenders, Searches
<1>4. ~(PickOption \/ AddChip \/ RemoveChip)
  BY DEF PickOption, AddChip, RemoveChip
<1> QED  BY <1>1, <1>2, <1>3, <1>4 DEF Next

LEMMA CommitKeepsPicker ==
    ASSUME PickerInv, Control = "duration",
           NEW value \in Durations, NEW picker \in Pickers, Len(picker.amount) <= 1,
           value = stored => ShowsStored(picker, value),
           Commit(value, picker)
    PROVE  PickerInv'
<1>1. /\ field' = field /\ stored' = value /\ future' = <<>>
      /\ past' = Append(past, stored) /\ ctl' = AfterRender(picker, value)
  BY DEF Commit
<1>2. past' \in Seq(Durations) /\ future' \in Seq(Durations) /\ stored \in Durations
  BY <1>1 DEF PickerInv
<1>3. ctl' \in Pickers /\ Len(ctl'.amount) <= 1 /\ ShowsStored(ctl', value)
  BY <1>1, <1>2, PickerFollows
<1> QED  BY <1>1, <1>2, <1>3 DEF PickerInv, ShowsStored

LEMMA LocalKeepsPicker ==
    ASSUME PickerInv, Control = "duration",
           NEW picker \in Pickers, Len(picker.amount) <= 1, ShowsStored(picker, stored),
           Local(picker)
    PROVE  PickerInv'
<1>1. ctl' = picker /\ UNCHANGED <<stored, past, future>>
  BY DEF Local
<1> QED  BY <1>1 DEF PickerInv, ShowsStored

LEMMA ComposeKeepsPicker ==
    ASSUME PickerInv, Control = "duration",
           NEW picker \in Pickers, Len(picker.amount) <= 1,
           Compose(picker)
    PROVE  PickerInv'
<1>1. CASE Composes(picker.amount)
  <2> DEFINE value == Simple(picker.amount[1], picker.unit)
  <2>1. picker.amount \in Seq(Int) /\ picker.unit \in Units /\ picker.amount # <<>>
    BY <1>1 DEF Pickers, Composes, NoAmount
  <2>2. picker.amount[1] \in Nat
    BY <1>1, <2>1 DEF Composes
  <2>3. value \in Durations
    BY <2>1, <2>2 DEF Simple, Durations
  <2>4. ShowsStored(picker, value)
    BY DEF ShowsStored
  <2>5. Commit(value, picker)
    BY <1>1 DEF Compose
  <2> QED  BY <2>3, <2>4, <2>5, CommitKeepsPicker
<1>2. CASE ~Composes(picker.amount)
  <2>1. Local(picker)
    BY <1>2 DEF Compose
  <2>2. ShowsStored(picker, stored)
    BY <1>2 DEF ShowsStored
  <2> QED  BY <2>1, <2>2, LocalKeepsPicker
<1> QED  BY <1>1, <1>2

LEMMA PickerStep ==
    ASSUME PickerInv, [Next]_vars
    PROVE  PickerInv'
<1>1. field' = field /\ Control' = Control
  BY FieldStays, ControlStays
<1> SUFFICES ASSUME Control = "duration"
             PROVE  PickerInv'
  BY <1>1 DEF PickerInv
<1>2. /\ stored \in Durations /\ past \in Seq(Durations) /\ future \in Seq(Durations)
      /\ ctl \in Pickers /\ Len(ctl.amount) <= 1 /\ ShowsStored(ctl, stored)
  BY DEF PickerInv
<1>3. CASE TypeAmount
  <2>1. PICK amount \in Amounts : Compose([ctl EXCEPT !.amount = amount])
    BY <1>3 DEF TypeAmount
  <2>2. amount \in Seq(Int) /\ Len(amount) <= 1
    <3>1. NoAmount \in Seq(Int) /\ Len(NoAmount) = 0
      BY DEF NoAmount
    <3>2. amount = NoAmount \/ (amount \in Seq(Int) /\ Len(amount) = 1)
      BY FieldsAssumption
    <3>3. CASE amount = NoAmount
      BY <3>1, <3>3
    <3>4. CASE amount \in Seq(Int) /\ Len(amount) = 1
      BY <3>4
    <3> QED  BY <3>2, <3>3, <3>4
  <2>3. [ctl EXCEPT !.amount = amount] \in Pickers /\ [ctl EXCEPT !.amount = amount].amount = amount
    BY <1>2, <2>2 DEF Pickers
  <2> QED  BY <2>1, <2>2, <2>3, ComposeKeepsPicker
<1>4. CASE ChooseUnit
  <2>1. PICK unit \in Units : Compose([ctl EXCEPT !.unit = unit])
    BY <1>4 DEF ChooseUnit
  <2>2. [ctl EXCEPT !.unit = unit] \in Pickers /\ [ctl EXCEPT !.unit = unit].amount = ctl.amount
    BY <1>2 DEF Pickers
  <2> QED  BY <1>2, <2>1, <2>2, ComposeKeepsPicker
<1>5. CASE TypeIso
  <2> DEFINE typed == [ctl EXCEPT !.manual = TRUE]
  <2>1. PICK value \in Durations : Commit(value, typed)
    BY <1>5, FieldsAssumption DEF TypeIso
  <2>2. typed \in Pickers /\ typed.amount = ctl.amount /\ typed.unit = ctl.unit
    BY <1>2 DEF Pickers
  <2>3. value = stored => ShowsStored(typed, value)
    BY <1>2, <2>2 DEF ShowsStored
  <2> HIDE DEF typed
  <2> QED  BY <1>2, <2>1, <2>2, <2>3, CommitKeepsPicker
<1>6. CASE ToggleIso
  <2> DEFINE toggled == [ctl EXCEPT !.manual = ~Iso]
  <2>1. Local(toggled)
    BY <1>6 DEF ToggleIso
  <2>2. toggled \in Pickers /\ toggled.amount = ctl.amount /\ toggled.unit = ctl.unit
    <3>1. (~Iso) \in BOOLEAN
      OBVIOUS
    <3> QED  BY <1>2, <3>1 DEF Pickers
  <2>3. ShowsStored(toggled, stored)
    BY <1>2, <2>2 DEF ShowsStored
  <2> HIDE DEF toggled
  <2> QED  BY <1>2, <2>1, <2>2, <2>3, LocalKeepsPicker
<1>7. CASE Undo
  <2>1. /\ past # <<>> /\ stored' = Last(past) /\ past' = Front(past)
        /\ future' = <<stored>> \o future /\ ctl' = AfterRender(ctl, Last(past))
    BY <1>7 DEF Undo
  <2>2. stored' \in Durations /\ past' \in Seq(Durations)
    BY <1>2, <2>1, SequenceEnds
  <2>3. future' \in Seq(Durations)
    BY <1>2, <2>1
  <2>4. ctl' \in Pickers /\ Len(ctl'.amount) <= 1 /\ ShowsStored(ctl', stored')
    BY <1>2, <2>1, <2>2, PickerFollows
  <2> QED  BY <1>1, <2>2, <2>3, <2>4 DEF PickerInv, ShowsStored
<1>8. CASE Redo
  <2>1. /\ future # <<>> /\ stored' = Head(future) /\ future' = Tail(future)
        /\ past' = Append(past, stored) /\ ctl' = AfterRender(ctl, Head(future))
    BY <1>8 DEF Redo
  <2>2. stored' \in Durations /\ future' \in Seq(Durations)
    BY <1>2, <2>1, SequenceEnds
  <2>3. past' \in Seq(Durations)
    BY <1>2, <2>1
  <2>4. ctl' \in Pickers /\ Len(ctl'.amount) <= 1 /\ ShowsStored(ctl', stored')
    BY <1>2, <2>1, <2>2, PickerFollows
  <2> QED  BY <1>1, <2>2, <2>3, <2>4 DEF PickerInv, ShowsStored
<1>9. CASE UNCHANGED vars
  BY <1>1, <1>2, <1>9 DEF vars, PickerInv, ShowsStored
<1> QED  BY <1>3, <1>4, <1>5, <1>6, <1>7, <1>8, <1>9, DurationSteps

LEMMA PickerInit ==
    ASSUME Init
    PROVE  PickerInv
<1> SUFFICES ASSUME Control = "duration"
             PROVE  PickerInv
  BY DEF PickerInv
<1>1. stored \in Durations /\ past = <<>> /\ future = <<>>
  BY FieldsAssumption DEF Init
<1>2. ctl = OpenDuration(stored)
  BY DEF Init, OpenControl, Searches
<1>3. CASE Splits(stored)
  <2>1. stored \in [form : {"simple"}, amount : Nat, unit : Units]
    BY <1>1, <1>3 DEF Durations, Splits, Compound, Malformed, NoDuration
  <2>2. <<stored.amount>> \in Seq(Int) /\ stored.unit \in Units
    BY <2>1
  <2>3. (stored # NoDuration /\ ~Splits(stored)) \in BOOLEAN
    OBVIOUS
  <2>4. ctl \in Pickers /\ ctl.amount = <<stored.amount>> /\ ctl.unit = stored.unit
    BY <1>2, <1>3, <2>2, <2>3 DEF OpenDuration, Pickers
  <2>5. stored = Simple(stored.amount, stored.unit)
    BY <2>1 DEF Simple
  <2> QED  BY <1>1, <2>1, <2>4, <2>5 DEF PickerInv, ShowsStored
<1>4. CASE ~Splits(stored)
  <2>1. NoAmount \in Seq(Int) /\ Len(NoAmount) = 0 /\ "hours" \in Units
    BY DEF NoAmount, Units
  <2>2. (stored # NoDuration /\ ~Splits(stored)) \in BOOLEAN
    OBVIOUS
  <2>3. ctl \in Pickers /\ ctl.amount = NoAmount
    BY <1>2, <1>4, <2>1, <2>2 DEF OpenDuration, Pickers
  <2> QED  BY <1>1, <1>4, <2>1, <2>3 DEF PickerInv, ShowsStored
<1> QED  BY <1>3, <1>4

\* The duration picker of the panel (ConfigPanel.tsx, DurationField) shows no amount
\* that makes a duration other than the stored one, for every field, every value a
\* step may come with, and any number of edits, undos and redos.
THEOREM PickerHoldsNothingBack == Spec => []NothingUncommitted
<1>1. PickerInv => NothingUncommitted
  <2> SUFFICES ASSUME PickerInv, Control = "duration", ~Iso, stored # NoDuration,
                      Composes(ctl.amount)
               PROVE  stored = Simple(ctl.amount[1], ctl.unit)
    BY DEF NothingUncommitted
  <2>1. Splits(stored)
    BY DEF Iso, Pinned
  <2> QED  BY <2>1 DEF PickerInv, ShowsStored
<1> QED  BY <1>1, PickerInit, PickerStep, PTL DEF Spec
-----------------------------------------------------------------------------
(***************************************************************************)
(* The searches.  Every request that was not overtaken asks for the query  *)
(* on screen, and there is one such request at most.                       *)
(***************************************************************************)
Requests == [query : DOMAIN Queries, live : BOOLEAN]

SearchState ==
    {"query", "debounced", "options", "labels", "loading", "attempted", "lookups", "searches"}

Idle(c) == \A r \in c.searches : ~r.live

SearchOK(c) ==
    /\ SearchState \subseteq DOMAIN c
    /\ c.query \in DOMAIN Queries /\ c.debounced \in DOMAIN Queries
    /\ c.searches \subseteq Requests
    /\ \A r \in c.searches : r.live => r.query = c.debounced
    /\ LongEnough(c.debounced) /\ Idle(c)
          => c.options \in {Results[c.debounced], {}} /\ ~c.loading

SearchInv == Searches => SearchOK(ctl)

\* What a search keeps while only its labels and its input change.
SameSearch(c, d) ==
    /\ SearchState \subseteq DOMAIN d
    /\ d.debounced = c.debounced /\ d.searches = c.searches
    /\ d.options = c.options /\ d.loading = c.loading

LEMMA SameSearchIsOK ==
    ASSUME NEW c, NEW d, SearchOK(c), SameSearch(c, d), d.query \in DOMAIN Queries
    PROVE  SearchOK(d)
BY DEF SearchOK, SameSearch, Idle

\* Less is asked of a search that starts over: its query and its requests.
LEMMA FetchIsOK ==
    ASSUME NEW c, SearchState \subseteq DOMAIN c, c.searches \subseteq Requests,
           c.query \in DOMAIN Queries, c.debounced \in DOMAIN Queries
    PROVE  SearchOK(Fetch(c))
<1> DEFINE gone == Overtaken(c.searches)
           asked == [query |-> c.debounced, live |-> TRUE]
<1>1. gone \subseteq Requests /\ \A r \in gone : ~r.live
  <2> SUFFICES ASSUME NEW r \in gone
               PROVE  r \in Requests /\ ~r.live
    OBVIOUS
  <2>1. PICK s \in c.searches : r = [s EXCEPT !.live = FALSE]
    BY DEF Overtaken
  <2> QED  BY <2>1 DEF Requests
<1>2. asked \in Requests /\ asked.live /\ asked.query = c.debounced
  BY DEF Requests
<1> HIDE DEF asked, gone
<1>3. CASE LongEnough(c.debounced)
  <2>1. Fetch(c) = [c EXCEPT !.loading = TRUE, !.searches = gone \cup {asked}]
    BY <1>3 DEF Fetch, gone, asked
  <2>2. /\ SearchState \subseteq DOMAIN Fetch(c) /\ Fetch(c).searches = gone \cup {asked}
        /\ Fetch(c).query = c.query /\ Fetch(c).debounced = c.debounced
    BY <2>1 DEF SearchState
  <2> QED  BY <1>1, <1>2, <2>2 DEF SearchOK, Idle
<1>4. CASE ~LongEnough(c.debounced)
  <2>1. Fetch(c) = [c EXCEPT !.searches = gone]
    BY <1>4 DEF Fetch, gone
  <2>2. /\ SearchState \subseteq DOMAIN Fetch(c) /\ Fetch(c).searches = gone
        /\ Fetch(c).query = c.query /\ Fetch(c).debounced = c.debounced
    BY <2>1 DEF SearchState
  <2> QED  BY <1>1, <1>4, <2>2 DEF SearchOK, Idle
<1> QED  BY <1>3, <1>4

LEMMA LookUpKeeps ==
    ASSUME NEW c, NEW value, SearchState \subseteq DOMAIN c
    PROVE  SameSearch(c, LookUp(c, value)) /\ LookUp(c, value).query = c.query
BY DEF LookUp, SameSearch, SearchState

LEMMA RenderIsOK ==
    ASSUME NEW c, NEW value, SearchOK(c), Searches
    PROVE  SearchOK(AfterRender(c, value))
<1> DEFINE d == IF Wanted(value) # Wanted(stored) THEN LookUp(c, value) ELSE c
<1>1. AfterRender(c, value) = Fetch(d)
  BY DEF AfterRender, Searches
<1>2. SameSearch(c, d) /\ d.query = c.query
  BY LookUpKeeps DEF SearchOK, SameSearch
<1> HIDE DEF d
<1> QED  BY <1>1, <1>2, FetchIsOK DEF SearchOK, SameSearch

LEMMA SearchSteps ==
    ASSUME [Next]_vars, Searches
    PROVE  \/ PanelRenders \/ Undo \/ Redo \/ PickOption \/ AddChip \/ RemoveChip
           \/ TypeQuery \/ Debounced \/ SearchAnswers \/ LookupAnswers \/ UNCHANGED vars
<1> USE DEF Searches
<1>1. ~(Type \/ Choose \/ Tick \/ ChooseEvent \/ ToggleFreeEntry \/ TypeKey)
  BY DEF Type, Choose, Tick, ChooseEvent, ToggleFreeEntry, TypeKey
<1>2. ~(SelectOptions \/ ChangeRow \/ ChangeRecipient \/ MoveRow \/ RemoveRow \/ AddRow)
  BY DEF SelectOptions, ChangeRow, ChangeRecipient, MoveRow, RemoveRow, AddRow
<1>3. ~(TypeAmount \/ ChooseUnit \/ TypeIso \/ ToggleIso)
  BY DEF TypeAmount, ChooseUnit, TypeIso, ToggleIso
<1> QED  BY <1>1, <1>2, <1>3 DEF Next

\* An answer that is live is the only one, and it empties the list of those awaited.
LEMMA AnswerIsOK ==
    ASSUME SearchInv, Searches, SearchAnswers
    PROVE  SearchOK(ctl')
<1> USE DEF Requests
<1>1. PICK r \in ctl.searches : \E found \in {Results[r.query], {}} :
         LET rest == [ctl EXCEPT !.searches = @ \ {r}]
         IN  Local(IF r.live
                   THEN [rest EXCEPT !.options = found, !.loading = FALSE,
                                     !.labels = @ \cup (found \cap ToSet(Wanted(stored)))]
                   ELSE rest)
  BY DEF SearchAnswers
<1> DEFINE rest == [ctl EXCEPT !.searches = @ \ {r}]
<1>2. SearchOK(ctl)
  BY DEF SearchInv
<1>3. /\ SearchState \subseteq DOMAIN rest /\ rest.searches = ctl.searches \ {r}
      /\ rest.query = ctl.query /\ rest.debounced = ctl.debounced
      /\ rest.options = ctl.options /\ rest.loading = ctl.loading
  BY <1>2 DEF SearchOK, SearchState
<1> HIDE DEF rest
<1>4. CASE r.live
  <2>1. PICK found \in {Results[r.query], {}} :
           ctl' = [rest EXCEPT !.options = found, !.loading = FALSE,
                               !.labels = @ \cup (found \cap ToSet(Wanted(stored)))]
    BY <1>1, <1>4 DEF Local, rest
  <2>2. /\ SearchState \subseteq DOMAIN ctl' /\ ctl'.searches = ctl.searches \ {r}
        /\ ctl'.query = ctl.query /\ ctl'.debounced = ctl.debounced
        /\ ctl'.options = found /\ ctl'.loading = FALSE
    BY <1>3, <2>1 DEF SearchState
  <2>3. r.query = ctl.debounced
    BY <1>2, <1>4 DEF SearchOK
  <2> QED  BY <1>2, <2>2, <2>3 DEF SearchOK
<1>5. CASE ~r.live
  <2>1. ctl' = rest
    BY <1>1, <1>5 DEF Local, rest
  <2> QED  BY <1>2, <1>3, <1>5, <2>1 DEF SearchOK, Idle
<1> QED  BY <1>4, <1>5

LEMMA SearchStep ==
    ASSUME SearchInv, [Next]_vars
    PROVE  SearchInv'
<1>1. field' = field /\ Searches' = Searches
  BY FieldStays, ControlStays
<1> SUFFICES ASSUME Searches
             PROVE  SearchOK(ctl')
  BY <1>1 DEF SearchInv, SearchOK, Idle, LongEnough
<1>2. SearchOK(ctl)
  BY DEF SearchInv
<1>3. CASE PanelRenders \/ Undo \/ Redo \/ PickOption \/ AddChip \/ RemoveChip
  <2>1. \E value : ctl' = AfterRender(ctl, value)
    BY <1>3 DEF PanelRenders, Undo, Redo, PickOption, AddChip, RemoveChip, Commit, Local
  <2> QED  BY <1>2, <2>1, RenderIsOK
<1>4. CASE TypeQuery
  <2>1. PICK q \in DOMAIN Queries : ctl' = [ctl EXCEPT !.query = q]
    BY <1>4 DEF TypeQuery, Local
  <2>2. SameSearch(ctl, ctl') /\ ctl'.query = q
    BY <1>2, <2>1 DEF SearchOK, SameSearch, SearchState
  <2> QED  BY <1>2, <2>2, SameSearchIsOK
<1>5. CASE Debounced
  <2> DEFINE c == [ctl EXCEPT !.debounced = ctl.query]
  <2>1. ctl' = Fetch(c)
    BY <1>5 DEF Debounced, Local
  <2>2. /\ SearchState \subseteq DOMAIN c /\ c.searches = ctl.searches
        /\ c.query = ctl.query /\ c.debounced = ctl.query
    BY <1>2 DEF SearchOK, SearchState
  <2> HIDE DEF c
  <2> QED  BY <1>2, <2>1, <2>2, FetchIsOK DEF SearchOK
<1>6. CASE SearchAnswers
  BY <1>6, AnswerIsOK
<1>7. CASE LookupAnswers
  <2>1. \E l \in ctl.lookups : \E named :
           ctl' = [ctl EXCEPT !.lookups = @ \ {l}, !.labels = IF l.live THEN @ \cup named ELSE @]
    BY <1>7 DEF LookupAnswers, Local
  <2>2. SameSearch(ctl, ctl') /\ ctl'.query = ctl.query
    BY <1>2, <2>1 DEF SearchOK, SameSearch, SearchState
  <2> QED  BY <1>2, <2>2, SameSearchIsOK DEF SearchOK
<1>8. CASE UNCHANGED vars
  BY <1>2, <1>8 DEF vars
<1> QED  BY <1>3, <1>4, <1>5, <1>6, <1>7, <1>8, SearchSteps

LEMMA SearchInit ==
    ASSUME Init
    PROVE  SearchInv
<1> SUFFICES ASSUME Searches
             PROVE  SearchOK(ctl)
  BY DEF SearchInv
<1> DEFINE blank == [query |-> "", debounced |-> "", options |-> {}, labels |-> {}, loading |-> FALSE,
                     attempted |-> {}, lookups |-> {}, searches |-> {}]
<1>1. ctl = Fetch(LookUp(blank, stored))
  BY DEF Init, OpenControl, Searches, OpenSearch
<1>2. /\ SearchState \subseteq DOMAIN blank /\ blank.query = "" /\ blank.debounced = ""
      /\ blank.searches = {}
  BY DEF SearchState
<1> HIDE DEF blank
<1>3. SameSearch(blank, LookUp(blank, stored)) /\ LookUp(blank, stored).query = ""
  BY <1>2, LookUpKeeps
<1>4. "" \in DOMAIN Queries
  BY FieldsAssumption
<1> QED  BY <1>1, <1>2, <1>3, <1>4, FetchIsOK DEF SameSearch

\* An answer that was overtaken by a later query, an edit, an undo or a redo is dropped
\* (ConfigPanel.tsx, SearchSelectField), and the options offered at rest are those of
\* the query on screen: for every option source, every order in which its answers come,
\* and any number of edits.
THEOREM OptionsAreCurrent == Spec => []OptionsAnswerTheQuery
<1>1. SearchInv => OptionsAnswerTheQuery
  BY DEF SearchInv, SearchOK, Idle, OptionsAnswerTheQuery
<1> QED  BY <1>1, SearchInit, SearchStep, PTL DEF Spec
=============================================================================
