------------------------------ MODULE MCDialog ------------------------------
(***************************************************************************)
(* Instances of the condition slide-out for TLC: two entity types, each    *)
(* with a combine of its own, a related entity, an attribute leaf, the     *)
(* trigger data leaf and a third-party type the server does not describe.  *)
(***************************************************************************)
EXTENDS ConditionDialog, TLC

Spec1(type, attribute) == [type |-> type, attribute |-> attribute]

Plain == [kind |-> "leaf", attributes |-> [a \in {} |-> {}], relations |-> <<>>,
          aggregators |-> <<>>, values |-> <<>>, operators |-> <<>>, children |-> {}]

Attribute(operators, control, options) ==
    [operators |-> operators, control |-> control, options |-> options]

DialogMeta ==
    "Order" :> [Plain EXCEPT !.kind = "combine", !.aggregators = <<"all", "any">>,
                             !.children = {Spec1("Items", ""), Spec1("Attr", "qty")}]
    @@ "Customer" :> [Plain EXCEPT !.kind = "combine", !.children = {Spec1("Payload", "")}]
    @@ "Items" :> [Plain EXCEPT !.kind = "related",
                                !.relations = <<[code |-> "items", cardinality |-> "many"]>>,
                                !.children = {Spec1("Attr", "qty")}]
    @@ "Attr" :> [Plain EXCEPT !.attributes =
                      "qty" :> Attribute(<<"==", ">">>, "text", <<>>)
                      @@ "sku" :> Attribute(<<"()">>, "multiselect", <<"a,b">>)]
    @@ "Payload" :> [Plain EXCEPT !.kind = "trigger_data", !.operators = <<"==">>]
    @@ "Vendor" :> Plain

DialogNames ==
    "Order" :> "combine" @@ "Customer" :> "combine" @@ "Items" :> "leaf" @@ "Attr" :> "leaf"
    @@ "Payload" :> "trigger_data" @@ "Vendor" :> "leaf"

DialogRoots == "" :> "" @@ "order" :> "Order" @@ "customer" :> "Customer"

Wire(type, props, leaf, width) == [type |-> type, props |-> props, leaf |-> leaf, width |-> width]

Leaf == Wire("Attr", [attribute |-> "qty", operator |-> ">", value |-> "1", extra |-> "kept"], TRUE, 0)

OrderTree ==
    <<>> :> Wire("Order", [aggregator |-> "all", value |-> "1"], FALSE, 2)
    @@ <<1>> :> Leaf
    @@ <<2>> :> Wire("Vendor", [secret |-> "kept"], FALSE, 1)
    @@ <<2, 1>> :> Leaf

\* The payload under NOT EXISTS is stored and not shown.
CustomerTree ==
    <<>> :> Wire("Customer", [aggregator |-> "any", value |-> "1"], FALSE, 1)
    @@ <<1>> :> Wire("Items", [relation |-> "items", value |-> "0", extra |-> "kept"], FALSE, 1)
    @@ <<1, 1>> :> Wire("Payload", [attribute |-> "", operator |-> "==", value |-> ""], TRUE, 0)

DialogStored == {Json(<<>>), Json(OrderTree), Json(CustomerTree), Broken("stored")}

DialogTyped == {<<>>, <<>> :> Wire("Customer", [aggregator |-> "any", value |-> "1"], FALSE, 0)}
=============================================================================
