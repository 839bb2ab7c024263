--------------------------- MODULE ConditionDialog ---------------------------
(***************************************************************************)
(* The condition slide-out (ConditionSlideOut.tsx): the builder and the    *)
(* JSON text over one tree, the metadata of its node types (the page-wide  *)
(* cache of conditionsClient.ts and what this dialog has taken from it),   *)
(* and the round trip of Apply.                                            *)
(*                                                                         *)
(* An action is one handler, or one callback of a request that is settled, *)
(* and the effects that follow.  waiting holds what the open dialog has to *)
(* do when a request settles.  Its callbacks run one after the other, in   *)
(* the order in which they were registered, before anything else happens:  *)
(* answer is the one that is being handed out.  A dialog that is closed    *)
(* leaves its requests in flight and what they would have set to nobody.   *)
(***************************************************************************)
EXTENDS ConditionTree

CONSTANTS
    Entities,    \* entity types a workflow can be given
    RootOf,      \* the root combine class of each
    Refused,     \* node types the server does not describe
    Stored,      \* what the page may be opened with
    Typed,       \* trees an operator may type
    MaxActs,     \* bound on what the operator does
    MaxFailures  \* bound on the metadata requests that fail

(***************************************************************************)
(* What is stored or typed is a JSON tree: its places are positions in the *)
(* "conditions" lists, and a list ends where its width says.  The types it *)
(* names are finitely many, and so are those a menu offers.  The server    *)
(* describes the root class it names, in the same answer.                  *)
(***************************************************************************)
IsSource(wires) ==
    /\ wires = [p \in DOMAIN wires |-> wires[p]]
    /\ DOMAIN wires \subseteq Seq(Nat \ {0})
    /\ \A p \in DOMAIN wires :
          /\ wires[p] = ToWire(wires[p])
          /\ wires[p].type \in DOMAIN Meta \cup {""}
          /\ wires[p].width \in Nat
          /\ \A k \in 0..Len(p) : SubSeq(p, 1, k) \in DOMAIN wires
          /\ p # <<>> => Last(p) <= wires[Front(p)].width

ASSUME DialogAssumption ==
    /\ IsFiniteSet(DOMAIN Meta)
    /\ \A e \in Entities \ {""} : RootOf[e] \in DOMAIN Meta \ Refused
    /\ \A t \in DOMAIN Meta : \A spec \in Meta[t].children : spec.type \in DOMAIN Meta
    /\ \A text \in Stored :
          DOMAIN text = {"ok", "wires", "raw"} /\ text.ok \in BOOLEAN /\ IsSource(text.wires)
    /\ \A wires \in Typed : IsSource(wires)

VARIABLES
    entity,      \* the workflow's entity type, "" for none
    cache,       \* what conditionsClient keeps for the page session
    flight,      \* the metadata requests under way
    waiting,     \* what the open dialog does with their answers, in order
    answer,      \* the answer whose callbacks are running
    dlg,         \* the dialog
    stored,      \* the tree stored at the dialog's target, as text
    sent,        \* the trees on their way through Apply
    acts,        \* how much the operator has done
    failures     \* how many metadata requests have failed

dialogVars == <<entity, cache, flight, waiting, answer, dlg, stored, sent, acts, failures>>

Types == DOMAIN Meta
TheRoot == ""                  \* the node type of the request for the root
NoType == ""
Keys == Entities \X (Types \cup {TheRoot})

Json(wires) == [ok |-> TRUE, wires |-> wires, raw |-> "none"]
Broken(raw) == [ok |-> FALSE, wires |-> <<>>, raw |-> raw]

Closed == [open |-> FALSE]
NoAnswer == [key |-> <<>>, ok |-> FALSE]

Opened(text, serial) ==
    [open |-> TRUE, tree |-> Parse(text.wires, serial), text |-> text, error |-> ~text.ok,
     rootType |-> NoType, rootError |-> FALSE, meta |-> [t \in {} |-> TRUE], applying |-> FALSE]

(***************************************************************************)
(* Metadata                                                                *)
(***************************************************************************)
LoadRootOf(e, retry) == [key |-> <<e, TheRoot>>, for |-> "root", live |-> TRUE, retry |-> retry]
Describe(e, type) == [key |-> <<e, type>>, for |-> "type"]
AddWhenKnown(e, spec, parent, id) ==
    [key |-> <<e, spec.type>>, for |-> "child", spec |-> spec, parent |-> parent, id |-> id]

\* The answer a dialog takes over for a type wins over the cache.
KnownTo(d, e, c) ==
    {t \in Types : IF t \in DOMAIN d.meta THEN d.meta[t] ELSE c[<<e, t>>] = "described"}

Learn(d, type, known) ==
    [d EXCEPT !.meta = [t \in DOMAIN @ \cup {type} |-> IF t = type THEN known ELSE @[t]]]

\* A change by the builder rewrites the text, whatever was in it.
WithTree(d, tree) ==
    [d EXCEPT !.tree = tree, !.text = Json(Serialize(tree)), !.error = FALSE]

RootAnswered(d, e, ok) ==
    IF ok THEN Learn([d EXCEPT !.rootType = RootOf[e]], RootOf[e], TRUE)
    ELSE [d EXCEPT !.rootType = NoType, !.rootError = TRUE]

\* What the dialog does when a request it waits for is settled.
Settle(d, w, ok) ==
    CASE w.for = "root" -> IF w.live THEN RootAnswered(d, w.key[1], ok) ELSE d
      [] w.for = "type" -> Learn(d, w.key[2], ok)
      [] w.for = "child" ->
            LET told == Learn(d, w.key[2], ok)
            IN  WithTree(told, AddChildNode(d.tree, w.parent, BuildNode(w.spec, ok, w.id)))

\* Mutant of Undescribed: only what the tree was opened with is described.
UndescribedAtFirst(d, e, c) ==
    {t \in NodeTypes(d.tree) : DOMAIN d.meta = {} /\ c[<<e, t>>] = "none"}

\* The types of the tree that neither the dialog nor the cache has an answer for.
Undescribed(d, e, c) ==
    {t \in NodeTypes(d.tree) : t \notin DOMAIN d.meta /\ c[<<e, t>>] = "none"}

\* After a render the effects ask for what is missing; a request under way is shared.
Render(d, w, f) ==
    LET asked == w \o SetToSeq({Describe(entity', t) : t \in Undescribed(d, entity', cache')}
                               \ {w[i] : i \in DOMAIN w})
    IN  /\ dlg' = d
        /\ waiting' = asked
        /\ flight' = f \cup {asked[i].key : i \in DOMAIN asked}

\* Asking for the root: answered at once from the cache, or when the request settles.
StartRoot(d, w, e, retry) ==
    LET asking == [d EXCEPT !.rootError = FALSE]
    IN  IF e = "" THEN [dlg |-> [d EXCEPT !.rootType = NoType, !.rootError = TRUE], waiting |-> w]
        ELSE IF cache[<<e, TheRoot>>] = "described"
        THEN [dlg |-> RootAnswered(asking, e, TRUE), waiting |-> w]
        ELSE [dlg |-> asking, waiting |-> Append(w, LoadRootOf(e, retry))]

\* A definite answer is kept for the page session, a failure is forgotten.
Cached(c, key, outcome) ==
    IF outcome = "failed" THEN c ELSE [c EXCEPT ![key] = outcome]

Awaited(w, key) == \E i \in DOMAIN w : w[i].key = key

\* Run the first callback that waits for key, if any; the last is followed by the effects.
NextCallback(key, ok, f) ==
    \/ /\ ~Awaited(waiting, key)
       /\ answer' = NoAnswer /\ flight' = f
       /\ UNCHANGED <<dlg, waiting>>
    \/ \E i \in DOMAIN waiting :
          /\ waiting[i].key = key
          /\ \A j \in 1..(i - 1) : waiting[j].key # key
          /\ LET told == Settle(dlg, waiting[i], ok)
                 rest == RemoveAt(waiting, i)
             IN  IF Awaited(rest, key)
                 THEN dlg' = told /\ waiting' = rest /\ flight' = f /\ answer' = [key |-> key, ok |-> ok]
                 ELSE Render(told, rest, f) /\ answer' = NoAnswer

MetaAnswers ==
    /\ answer = NoAnswer
    /\ UNCHANGED <<entity, stored, sent, acts>>
    /\ \E key \in flight :
       \E outcome \in {"failed", IF key[1] = "" \/ key[2] \in Refused THEN "refused" ELSE "described"} :
           /\ outcome = "failed" => failures < MaxFailures
           /\ failures' = failures + (IF outcome = "failed" THEN 1 ELSE 0)
           /\ cache' = Cached(cache, key, outcome)
           /\ NextCallback(key, outcome = "described", flight \ {key})

Callback ==
    /\ answer # NoAnswer
    /\ UNCHANGED <<entity, cache, stored, sent, acts, failures>>
    /\ NextCallback(answer.key, answer.ok, flight)

(***************************************************************************)
(* Opening, closing, another entity type                                   *)
(***************************************************************************)
Act ==
    /\ answer = NoAnswer
    /\ acts < MaxActs
    /\ acts' = acts + 1
    /\ UNCHANGED <<answer, failures>>

Serial == acts + 1             \* part of the ids of the nodes this act makes

Open ==
    /\ ~dlg.open /\ Act
    /\ UNCHANGED <<entity, cache, stored, sent>>
    /\ LET started == StartRoot(Opened(stored, Serial), <<>>, entity, FALSE)
       IN  Render(started.dlg, started.waiting, flight)

Close ==
    /\ dlg.open /\ Act
    /\ dlg' = Closed /\ waiting' = <<>>
    /\ UNCHANGED <<entity, cache, flight, stored, sent>>

Retry ==
    /\ dlg.open /\ dlg.rootError /\ entity # "" /\ Act
    /\ UNCHANGED <<entity, cache, stored, sent>>
    /\ LET started == StartRoot(dlg, waiting, entity, TRUE)
       IN  Render(started.dlg, started.waiting, flight)

\* Mutant of Cancelled: the answer for the former entity type is taken all the same.
CancelledNever(w) == w

\* Leaving an entity type cancels what the effect asked, not what Retry asked.
Cancelled(w) ==
    [i \in DOMAIN w |-> IF w[i].for = "root" /\ ~w[i].retry THEN [w[i] EXCEPT !.live = FALSE] ELSE w[i]]

ChangeEntity ==
    /\ Act
    /\ entity' \in Entities \ {entity}
    /\ UNCHANGED <<cache, stored, sent>>
    /\ IF dlg.open
       THEN LET started == StartRoot(dlg, Cancelled(waiting), entity', FALSE)
            IN  Render(started.dlg, started.waiting, flight)
       ELSE UNCHANGED <<dlg, waiting, flight>>

(***************************************************************************)
(* The builder                                                             *)
(***************************************************************************)
Known == KnownTo(dlg, entity, cache)

Build(tree) ==
    /\ Act
    /\ UNCHANGED <<entity, cache, stored, sent>>
    /\ Render(WithTree(dlg, tree), waiting, flight)

StartTree ==
    /\ dlg.open /\ dlg.tree = <<>> /\ dlg.rootType # NoType
    /\ Build(EmptyTree(dlg.rootType, Serial))

ClearTree == dlg.open /\ dlg.tree # <<>> /\ Build(<<>>)

EditNode ==
    /\ dlg.open
    /\ \E p \in Rows(dlg.tree, Known) :
          LET n == dlg.tree[p]
          IN  \/ \E edit \in PropEdits(n, Known) : Build(SetNodeProp(dlg.tree, n.id, edit[1], edit[2]))
              \/ \E attribute \in AttributeEdits(n, Known) :
                    Build(UpdateNode(dlg.tree, n.id, ApplyAttributeChange(n, attribute)))

RemoveRow ==
    /\ dlg.open
    /\ \E p \in Rows(dlg.tree, Known) \ {<<>>} : Build(RemoveNode(dlg.tree, dlg.tree[p].id))

\* The new node's shape is the server's call: it is added when its type is known.
AddChild ==
    /\ dlg.open
    /\ \E p \in Rows(dlg.tree, Known) : \E spec \in AddMenu(dlg.tree[p], Known) :
          LET add == AddWhenKnown(entity, spec, dlg.tree[p].id, <<Serial, <<>>>>)
              said == cache[add.key]
          IN  IF said # "none"
              THEN Build(AddChildNode(dlg.tree, add.parent, BuildNode(spec, said = "described", add.id)))
              ELSE /\ Act
                   /\ UNCHANGED <<entity, cache, stored, sent>>
                   /\ Render(dlg, Append(waiting, add), flight)

(***************************************************************************)
(* The text                                                                *)
(***************************************************************************)
\* Mutant of TypeText: text that parses does not reach the builder.
TypeOnly ==
    /\ dlg.open /\ Act
    /\ UNCHANGED <<entity, cache, stored, sent>>
    /\ \E text \in ({Json(w) : w \in Typed} \cup {Broken("typed")}) \ {dlg.text} :
          Render([dlg EXCEPT !.text = text, !.error = ~text.ok], waiting, flight)

TypeText ==
    /\ dlg.open /\ Act
    /\ UNCHANGED <<entity, cache, stored, sent>>
    /\ \E text \in ({Json(w) : w \in Typed} \cup {Broken("typed")}) \ {dlg.text} :
          LET typed == [dlg EXCEPT !.text = text, !.error = ~text.ok]
          IN  Render(IF text.ok THEN [typed EXCEPT !.tree = Parse(text.wires, Serial)] ELSE typed,
                     waiting, flight)

(***************************************************************************)
(* Apply.  The server refuses the tree, or echoes it; if it cannot be      *)
(* reached the tree is taken as it is.  "Always run" is never refused.     *)
(***************************************************************************)
Apply ==
    /\ dlg.open /\ ~dlg.error /\ ~dlg.applying /\ Act
    /\ sent' = sent \cup {[wires |-> SerializeTree(dlg.tree), act |-> Serial]}
    /\ dlg' = [dlg EXCEPT !.applying = TRUE]
    /\ UNCHANGED <<entity, cache, flight, waiting, stored>>

\* The dialog that is still the one Apply was clicked in can be applied again.
ApplyRefused ==
    \E s \in {x \in sent : x.wires # <<>>} :
        /\ answer = NoAnswer
        /\ sent' = sent \ {s}
        /\ dlg' = IF dlg.open /\ dlg.applying /\ s.act = Max({x.act : x \in sent})
                  THEN [dlg EXCEPT !.applying = FALSE] ELSE dlg
        /\ UNCHANGED <<entity, cache, flight, waiting, answer, stored, acts, failures>>

ApplyCommits ==
    \E s \in sent :
        /\ answer = NoAnswer
        /\ sent' = sent \ {s}
        /\ stored' = Json(s.wires)
        /\ dlg' = Closed /\ waiting' = <<>>
        /\ UNCHANGED <<entity, cache, flight, answer, acts, failures>>

DialogInit ==
    /\ entity \in Entities \ {""}
    /\ cache = [k \in Keys |-> "none"]
    /\ flight = {}
    /\ waiting = <<>>
    /\ answer = NoAnswer
    /\ dlg = Closed
    /\ stored \in Stored
    /\ sent = {}
    /\ acts = 0
    /\ failures = 0

DialogNext ==
    \/ MetaAnswers \/ Callback \/ Open \/ Close \/ Retry \/ ChangeEntity
    \/ StartTree \/ ClearTree \/ EditNode \/ RemoveRow \/ AddChild \/ TypeText
    \/ Apply \/ ApplyRefused \/ ApplyCommits

DialogSpec == DialogInit /\ [][DialogNext]_dialogVars

-----------------------------------------------------------------------------
(***************************************************************************)
(* Properties                                                              *)
(***************************************************************************)
SameDialog == dlg.open /\ dlg'.open

\* What Apply posts is what the text shows when it is clicked, whether it was typed, built
\* or completed by a child that came late, and is never text that shows an error.  One
\* tree is on the screen and not posted: the root that "Add conditions" puts up, for as
\* long as it has no children, goes out as "always run".
ApplySendsTheText ==
    [][\A s \in sent' \ sent :
          /\ dlg.text.ok /\ ~dlg.error
          /\ \/ s.wires = dlg.text.wires
             \/ /\ s.wires = <<>>
                /\ DOMAIN dlg.text.wires = {<<>>} /\ DOMAIN dlg.tree = {<<>>}
                /\ dlg.tree[<<>>].made]_dialogVars

\* A child that is added when its type's metadata arrives costs no edit made meanwhile:
\* every node is still in its place, as it was, its children before the new ones.
LateChildrenOnlyAdd ==
    [][SameDialog /\ acts' = acts =>
        \A p \in DOMAIN dlg.tree :
            /\ p \in DOMAIN dlg'.tree
            /\ dlg'.tree[p].id = dlg.tree[p].id
            /\ dlg'.tree[p].type = dlg.tree[p].type
            /\ dlg'.tree[p].props = dlg.tree[p].props]_dialogVars

\* What a node is and all below it, by the way down to it.
Subtree(tree, p) ==
    [r \in {SubSeq(q, Len(p) + 1, Len(q)) : q \in {x \in DOMAIN tree : IsPrefix(p, x)}} |-> tree[p \o r]]

\* No edit takes a key from a node that keeps its identity, and a node of a type nobody
\* describes stays what it is, with all below it.
ForeignDataSurvives ==
    [][SameDialog =>
        \A p \in DOMAIN dlg.tree, q \in DOMAIN dlg'.tree :
            dlg.tree[p].id = dlg'.tree[q].id =>
                /\ dlg'.tree[q].type = dlg.tree[p].type
                /\ DOMAIN dlg.tree[p].props \subseteq DOMAIN dlg'.tree[q].props
                /\ dlg.tree[p].type \in Refused => Subtree(dlg'.tree, q) = Subtree(dlg.tree, p)]_dialogVars

\* Whichever way a node came into the tree, its type has been answered for or asked.
EveryTypeIsAskedFor ==
    dlg.open =>
        \A t \in NodeTypes(dlg.tree) :
            \/ t \in DOMAIN dlg.meta \/ cache[<<entity, t>>] # "none"
            \/ \E i \in DOMAIN waiting : waiting[i].key[2] = t

\* An answer about a former entity type's root is dropped when it comes late: the root
\* class changes to none, or to that of the entity type the workflow has by then.  Only
\* what Retry asked for is not cancelled.  The root class the dialog already has stays in
\* use until the new answer is in (NewTreeFromItsRoot).
FormerRootIsDropped ==
    [][SameDialog /\ dlg'.rootType \notin {dlg.rootType, NoType, RootOf[entity']} =>
        \E i \in DOMAIN waiting : waiting[i].for = "root" /\ waiting[i].retry]_dialogVars

\* "Add conditions" starts from the root combine of the workflow's entity type.  It does
\* not while the root of an entity type that was just chosen is still being asked for.
NewTreeFromItsRoot ==
    [][SameDialog /\ dlg.tree = <<>> /\ dlg'.tree # <<>> /\ dlg'.tree[<<>>].made
          => dlg'.tree[<<>>].type = RootOf[entity']]_dialogVars

\* Text that does not parse is kept until the operator does something about it.
InvalidTextIsKept ==
    [][SameDialog /\ dlg.error /\ acts' = acts => dlg'.text = dlg.text]_dialogVars
=============================================================================
