----------------------------- MODULE FieldValues -----------------------------
(***************************************************************************)
(* What the controls of the configuration panel store, and how they turn   *)
(* it into what they show (duration.ts, configPanel.ts, approvalFields.ts, *)
(* listEdit.ts).  A text is its meaning: a duration is its form, a comma   *)
(* list is its pieces, a row of the decision form is its key, its type and *)
(* whether an answer is required.                                          *)
(***************************************************************************)
EXTENDS Integers, Sequences
LOCAL INSTANCE SequencesExt
LOCAL INSTANCE FiniteSetsExt

(***************************************************************************)
(* Durations                                                               *)
(***************************************************************************)
Units == {"minutes", "hours", "days"}

Simple(amount, unit) == [form |-> "simple", amount |-> amount, unit |-> unit]
Compound == [form |-> "compound"]      \* well-formed, but no amount and unit
Malformed == [form |-> "malformed"]
NoDuration == [form |-> "empty"]

Durations == [form : {"simple"}, amount : Nat, unit : Units] \cup {Compound, Malformed, NoDuration}

\* An amount as typed: <<n>>, or <<>> while it is no number.
NoAmount == <<>>

Splits(value) == value.form = "simple"

Composes(amount) == amount # NoAmount /\ amount[1] >= 1

(***************************************************************************)
(* Comma lists                                                             *)
(***************************************************************************)
NoPiece == ""

\* Reading and writing alike drop what is blank or repeated.
Pieces(value) ==
    FoldLeft(LAMBDA out, piece : IF piece = NoPiece \/ Contains(out, piece) THEN out
                                 ELSE Append(out, piece),
             <<>>, value)

\* A selected value that is not offered stays selectable, after those that are.
MultiOptions(options, selected) ==
    options \o SelectSeq(selected, LAMBDA value : ~Contains(options, value))

\* The browser reports all that is selected, in the order of the options.
Selection(options, selected, chosen) ==
    SelectSeq(MultiOptions(options, selected), LAMBDA o : o \in chosen)

AddToMulti(value, piece) == Pieces(Append(Pieces(value), piece))

RemoveFromMulti(value, piece) == SelectSeq(Pieces(value), LAMBDA p : p # piece)

SearchAddOptions(options, selected) == options \ ToSet(selected)

OptionsWithSelected(options, value) ==
    IF value = NoPiece THEN options ELSE options \cup {value}

(***************************************************************************)
(* Rows.  The key n > 0 is field_n, OwnKey one that the operator chose.    *)
(***************************************************************************)
OwnKey == 0
KnownTypes == {"string", "number"}
NoType == ""

\* A row that was stored without a type reads, and is written back, as a string.
ReadRows(value) ==
    [i \in DOMAIN value |-> [value[i] EXCEPT !.type = IF @ = NoType THEN "string" ELSE @]]

MoveItem(rows, i, delta) ==
    [j \in DOMAIN rows |-> CASE j = i -> rows[i + delta]
                             [] j = i + delta -> rows[i]
                             [] OTHER -> rows[j]]

Keys(rows) == {rows[i].key : i \in DOMAIN rows}

\* Mutant of BlankRow: the new row is numbered by its place alone.
BlankRowByPlace(rows) == [key |-> Len(rows) + 1, type |-> "string", required |-> FALSE]

BlankRow(rows) ==
    [key |-> Min({n \in Len(rows) + 1 .. 2 * Len(rows) + 1 : n \notin Keys(rows)}),
     type |-> "string", required |-> FALSE]

\* A type this build does not know is offered back for the row that has it.
TypeOptions(current) == KnownTypes \cup {current}
=============================================================================
