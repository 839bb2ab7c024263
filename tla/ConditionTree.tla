---------------------------- MODULE ConditionTree ----------------------------
(***************************************************************************)
(* The condition tree of the builder (conditionTree.ts) and the edits its  *)
(* rows offer (ConditionNodeRow.tsx, ValueControl.tsx, AddChildMenu.tsx).  *)
(*                                                                         *)
(* A tree maps places to nodes: the place of a node is the path to it, <<>>*)
(* for the root and Append(p, i) for the i-th child of the node at p.  The *)
(* tree without places is "always run".  A node is [id, type, props, leaf, *)
(* width, made]: props holds every key of the source object but            *)
(* "conditions", leaf says there was no "conditions" at all, width is the  *)
(* number of children, made marks the root the builder put up itself.      *)
(* What is stored or typed is the same without ids: [type, props, leaf,    *)
(* width].  A "conditions" that is not a list is left out.  Types, values  *)
(* and operators are strings nobody looks into; labels are left out.       *)
(***************************************************************************)
EXTENDS Naturals, Sequences, FiniteSets, SequencesExt

CONSTANTS
    Meta,        \* what the server says of a type: [kind, attributes, relations,
                 \* aggregators, values, operators, children]
    NameSuggests,\* the kind a class name suggests, for types nobody described
    Texts        \* what an operator may type into a value or a path

(***************************************************************************)
(* Options                                                                 *)
(***************************************************************************)
FallbackAggregators == <<"all", "any">>
FallbackValues == <<"1", "0">>
FallbackMatchModes == <<"any", "all", "none">>
FallbackOperators == <<"==", "!=">>

FirstOption(options, fallback) == IF options = <<>> THEN fallback ELSE options[1]
OrFallback(options, fallback) == IF options = <<>> THEN fallback ELSE options

\* What a select can be changed to: a value that was stored stays on offer, and is there already.
Offered(options, current) == {options[i] : i \in DOMAIN options} \ {current}

(***************************************************************************)
(* Nodes                                                                   *)
(***************************************************************************)
Prop(node, key) == IF key \in DOMAIN node.props THEN node.props[key] ELSE ""

Effective(node, key, fallback) == IF Prop(node, key) = "" THEN fallback ELSE Prop(node, key)

SetProp(node, key, value) ==
    [node EXCEPT !.props = [k \in DOMAIN @ \cup {key} |-> IF k = key THEN value ELSE @[k]]]

\* Parsing gives every node a new id, whether or not the text has changed there.
ToNode(wire, id) ==
    [id |-> id, type |-> wire.type, props |-> wire.props, leaf |-> wire.leaf, width |-> wire.width,
     made |-> FALSE]

Parse(wires, serial) == [p \in DOMAIN wires |-> ToNode(wires[p], <<serial, p>>)]

ToWire(node) == [type |-> node.type, props |-> node.props, leaf |-> node.leaf, width |-> node.width]

Serialize(tree) == [p \in DOMAIN tree |-> ToWire(tree[p])]

EmptyTree(rootType, serial) ==
    [p \in {<<>>} |->
        [id |-> <<serial, p>>, type |-> rootType, props |-> [aggregator |-> "all", value |-> "1"],
         leaf |-> FALSE, width |-> 0, made |-> TRUE]]

\* Nothing worth storing: no root, or the builder's own that nobody has filled.
IsEmptyTree(tree) == tree = <<>> \/ (tree[<<>>].made /\ tree[<<>>].width = 0)

SerializeTree(tree) == IF IsEmptyTree(tree) THEN <<>> ELSE Serialize(tree)

NodeTypes(tree) == {tree[p].type : p \in DOMAIN tree} \ {""}

Has(tree, id) == \E p \in DOMAIN tree : tree[p].id = id

FindNode(tree, id) == CHOOSE p \in DOMAIN tree : tree[p].id = id

\* An id that is gone, after the text was parsed again for one, changes nothing.
UpdateNode(tree, id, node) ==
    IF Has(tree, id) THEN [tree EXCEPT ![FindNode(tree, id)] = node] ELSE tree

SetNodeProp(tree, id, key, value) ==
    UpdateNode(tree, id, SetProp(tree[FindNode(tree, id)], key, value))

\* Mutant of AddChildNode: the parent's children are those it was rendered with, none.
AddFirstChild(tree, id, child) ==
    IF ~Has(tree, id) THEN tree
    ELSE LET parent == FindNode(tree, id)
             kept == {p \in DOMAIN tree : ~IsStrictPrefix(parent, p)}
             wider == [tree EXCEPT ![parent].width = 1, ![parent].leaf = FALSE, ![parent].made = FALSE]
         IN  [p \in kept \cup {Append(parent, 1)} |-> IF p \in kept THEN wider[p] ELSE child]

\* The child comes after those its parent has by now.
AddChildNode(tree, id, child) ==
    IF ~Has(tree, id) THEN tree
    ELSE LET parent == FindNode(tree, id)
             place == Append(parent, tree[parent].width + 1)
             wider == [tree EXCEPT ![parent].width = @ + 1, ![parent].leaf = FALSE, ![parent].made = FALSE]
         IN  [p \in DOMAIN tree \cup {place} |-> IF p = place THEN child ELSE wider[p]]

\* The siblings after the place that is given up, and all below them, move up.
IsAfter(p, place) ==
    /\ Len(p) >= Len(place)
    /\ IsPrefix(Front(place), p)
    /\ p[Len(place)] > Last(place)

MovedUp(p, place) == IF IsAfter(p, place) THEN [p EXCEPT ![Len(place)] = @ - 1] ELSE p

\* What is at a place and below it goes; the root takes all with it.
RemoveNode(tree, id) ==
    LET place == FindNode(tree, id)
        kept == {p \in DOMAIN tree : ~IsPrefix(place, p)}
        narrower == [tree EXCEPT ![Front(place)].width = @ - 1]
    IN  CASE ~Has(tree, id) -> tree
          [] Has(tree, id) /\ place = <<>> -> <<>>
          [] OTHER -> [q \in {MovedUp(p, place) : p \in kept} |->
                          narrower[CHOOSE p \in kept : MovedUp(p, place) = q]]

(***************************************************************************)
(* New nodes.  A spec of the "Add condition" menu is [type, attribute];    *)
(* known says whether the type's metadata could be had.                    *)
(***************************************************************************)
InferKind(spec) == IF spec.attribute # "" THEN "leaf" ELSE NameSuggests[spec.type]

NewNode(spec, id, props, leaf) ==
    [id |-> id, type |-> spec.type, props |-> props, leaf |-> leaf, width |-> 0, made |-> FALSE]

OperatorsOf(type, attribute) ==
    IF attribute \in DOMAIN Meta[type].attributes THEN Meta[type].attributes[attribute].operators
    ELSE Meta[type].operators

BuildNode(spec, known, id) ==
    LET kind == IF known THEN Meta[spec.type].kind ELSE InferKind(spec)
        served(options) == IF known THEN options ELSE <<>>
    IN  CASE kind = "combine" ->
               NewNode(spec, id,
                   [aggregator |-> FirstOption(served(Meta[spec.type].aggregators), "all"), value |-> "1"], FALSE)
          [] kind = "related" ->
               NewNode(spec, id,
                   [relation |-> FirstOption(served([i \in DOMAIN Meta[spec.type].relations |->
                                                        Meta[spec.type].relations[i].code]), ""),
                    value |-> "1", match_mode |-> "any"], FALSE)
          [] OTHER ->
               NewNode(spec, id,
                   [attribute |-> spec.attribute, value |-> "",
                    operator |-> FirstOption(served(OperatorsOf(spec.type, spec.attribute)), "==")], TRUE)

\* Mutant of ApplyAttributeChange: a fresh leaf, without what the builder does not know.
ApplyAttributeAnew(node, attribute) ==
    [node EXCEPT !.props = [attribute |-> attribute, operator |-> "==", value |-> ""]]

\* The value is reset, and the operator unless the new attribute offers it too.
ApplyAttributeChange(node, attribute) ==
    LET offered == IF attribute \in DOMAIN Meta[node.type].attributes
                   THEN Meta[node.type].attributes[attribute].operators ELSE <<>>
        kept == offered = <<>> \/ \E i \in DOMAIN offered : offered[i] = Prop(node, "operator")
        operator == IF kept THEN Prop(node, "operator") ELSE offered[1]
    IN  SetProp(SetProp(SetProp(node, "attribute", attribute), "operator", operator), "value", "")

(***************************************************************************)
(* Rows: which nodes are shown, and what can be done to them.  A type that *)
(* is not known is shown as it is, without its children.                   *)
(***************************************************************************)
Kind(node, known) == IF node.type \in known THEN Meta[node.type].kind ELSE "unknown"

\* NOT EXISTS hides the children it keeps, and so does a relation nobody has chosen yet.
ChildrenVisible(node, known) ==
    /\ Kind(node, known) # "unknown" /\ ~node.leaf
    /\ Kind(node, known) = "related" =>
         Prop(node, "relation") # "" /\ Effective(node, "value", "1") # "0"

\* The places that are shown: every node above them shows its children.
Rows(tree, known) ==
    {p \in DOMAIN tree :
        \A q \in DOMAIN tree : IsStrictPrefix(q, p) => ChildrenVisible(tree[q], known)}

AddMenu(node, known) == IF ChildrenVisible(node, known) THEN Meta[node.type].children ELSE {}

CombineEdits(node) ==
    {<<"aggregator", v>> : v \in Offered(OrFallback(Meta[node.type].aggregators, FallbackAggregators),
                                         Effective(node, "aggregator", "all"))}
    \cup {<<"value", v>> : v \in Offered(OrFallback(Meta[node.type].values, FallbackValues),
                                         Effective(node, "value", "1"))}

\* An unserved cardinality leaves the match mode on show.
IsToMany(node) ==
    \A i \in DOMAIN Meta[node.type].relations :
        Meta[node.type].relations[i].code = Prop(node, "relation") =>
            Meta[node.type].relations[i].cardinality # "one"

RelatedEdits(node) ==
    LET exists == Effective(node, "value", "1")
        relations == [i \in DOMAIN Meta[node.type].relations |-> Meta[node.type].relations[i].code]
    IN  {<<"relation", v>> : v \in Offered(<<"">> \o relations, Prop(node, "relation"))}
        \cup {<<"value", v>> : v \in Offered(OrFallback(Meta[node.type].values, FallbackValues), exists)}
        \cup {<<"match_mode", v>> : v \in {x \in Offered(FallbackMatchModes, Effective(node, "match_mode", "any")) :
                                              exists # "0" /\ IsToMany(node)}}
        \cup {<<"aggregator", v>> : v \in {x \in Offered(OrFallback(Meta[node.type].aggregators, FallbackAggregators),
                                                         Effective(node, "aggregator", "all")) :
                                              exists # "0" /\ node.width > 0}}

\* A select offers its list and the empty choice, a multiselect its lists, anything else takes text.
ValueEdits(node, control, options) ==
    CASE control = "select" -> Offered(<<"">> \o options, Prop(node, "value"))
      [] control = "multiselect" -> Offered(options, Prop(node, "value"))
      [] OTHER -> Texts \ {Prop(node, "value")}

OperatorEdits(node) ==
    {<<"operator", v>> : v \in Offered(OrFallback(OperatorsOf(node.type, Prop(node, "attribute")), FallbackOperators),
                                       Prop(node, "operator"))}

LeafEdits(node) ==
    LET attribute == Prop(node, "attribute")
        described == attribute \in DOMAIN Meta[node.type].attributes
    IN  OperatorEdits(node)
        \cup {<<"value", v>> : v \in IF described
                                     THEN ValueEdits(node, Meta[node.type].attributes[attribute].control,
                                                     Meta[node.type].attributes[attribute].options)
                                     ELSE ValueEdits(node, "text", <<>>)}

TriggerDataEdits(node) ==
    {<<"attribute", v>> : v \in Texts \ {Prop(node, "attribute")}}
    \cup OperatorEdits(node)
    \cup {<<"value", v>> : v \in ValueEdits(node, "text", <<>>)}

\* The properties one control of the row sets, each with its value.
PropEdits(node, known) ==
    CASE Kind(node, known) = "combine" -> CombineEdits(node)
      [] Kind(node, known) = "related" -> RelatedEdits(node)
      [] Kind(node, known) = "leaf" -> LeafEdits(node)
      [] Kind(node, known) = "trigger_data" -> TriggerDataEdits(node)
      [] OTHER -> {}

\* Another attribute, or the empty choice that is always offered.
AttributeEdits(node, known) ==
    IF Kind(node, known) = "leaf"
    THEN (DOMAIN Meta[node.type].attributes \cup {""}) \ {Prop(node, "attribute")} ELSE {}
=============================================================================
