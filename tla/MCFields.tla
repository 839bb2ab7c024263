------------------------------ MODULE MCFields ------------------------------
(***************************************************************************)
(* Instances of the configuration panel's controls for TLC: one field of   *)
(* each kind, with values inside and outside what it offers.               *)
(***************************************************************************)
EXTENDS ConfigFields, TLC

Declared(type, options, searches, min) ==
    [type |-> type, options |-> options, searches |-> searches, min |-> min]

PanelFields ==
    {Plain("text"), Plain("secret"), Plain("boolean"),
     Declared("text", <<"a", "b">>, FALSE, 0), Declared("multiselect", <<"a", "b">>, FALSE, 0),
     Declared("text", <<>>, TRUE, 0), Declared("multiselect", <<>>, TRUE, 1)}

Row(key, type, required) == [key |-> key, type |-> type, required |-> required]

PanelValues ==
    "duration" :> {NoDuration, Simple(1, "hours"), Simple(0, "days"), Compound, Malformed}
    @@ "event" :> {"", "placed", "vendor"}
    @@ "cases" :> {<<"a", "b">>}
    @@ "payload" :> {<<>>, <<Row(2, "", TRUE), Row(OwnKey, "vendor", FALSE)>>}
    @@ "emails" :> {<<>>, <<"x", "x">>}
    @@ "text" :> {"", "x"}
    @@ "secret" :> {"", "key", "gone"}
    @@ "boolean" :> BOOLEAN
    @@ "select" :> {"", "b", "gone"}
    @@ "multiselect" :> {<<>>, <<"gone", "a", "", "a">>}
    @@ "search" :> {"", "gone"}
    @@ "chips" :> {<<>>, <<"p", "gone">>}

PanelAmounts == {NoAmount, <<0>>, <<1>>, <<2>>}
PanelKeys == "" :> "" @@ "a" :> "a" @@ "a!" :> "a" @@ "b" :> "b" @@ "c" :> "c"
PanelQueries == "" :> 0 @@ "p" :> 1 @@ "pq" :> 2
PanelResults == "" :> {"p"} @@ "p" :> {"p", "q"} @@ "pq" :> {"q"}
=============================================================================
