------------------------- MODULE MCBootContractMacro -------------------------
(***************************************************************************)
(* Crates for BootContractMacro: up to four boot_contract annotations     *)
(* over the standard entry points and two faulty ones (a reply handler,   *)
(* a query without env), and single contract annotations, well formed or *)
(* not.  Types are strings.                                                *)
(***************************************************************************)
EXTENDS BootContractMacro

Fn(n, ins) == [kind |-> "fn", name |-> n, inputs |-> ins, attrs |-> <<>>, unit |-> FALSE]

Struct(n, unit, attrs) == [kind |-> "struct", name |-> n, inputs |-> <<>>, attrs |-> attrs, unit |-> unit]

Boot(it) == [macro |-> "boot_contract", item |-> it]

Attr(it) == [macro |-> "contract", item |-> it]

BootAnnotations ==
    {Boot(Fn("instantiate", <<"DepsMut", "Env", "MessageInfo", "InstantiateMsg">>)),
     Boot(Fn("execute", <<"DepsMut", "Env", "MessageInfo", "ExecuteMsg">>)),
     Boot(Fn("query", <<"Deps", "Env", "QueryMsg">>)),
     Boot(Fn("migrate", <<"DepsMut", "Env", "MigrateMsg">>)),
     Boot(Fn("reply", <<"DepsMut", "Env", "Reply">>)),
     Boot(Fn("query", <<"Deps", "QueryMsg">>))}

Msgs == <<"InstantiateMsg", "ExecuteMsg", "QueryMsg", "MigrateMsg">>

ContractAnnotations ==
    {Attr(Struct("Cw20", TRUE, Msgs)),
     Attr(Struct("Cw20", TRUE, SubSeq(Msgs, 1, 3))),
     Attr(Struct("Cw20", FALSE, Msgs)),
     Attr([Fn("instantiate", <<>>) EXCEPT !.attrs = Msgs])}

MCCrates ==
    BoundedSeq(BootAnnotations, 4)
    \cup {<<a>> : a \in ContractAnnotations}
    \cup {<<a, b>> : a \in ContractAnnotations, b \in BootAnnotations}
=============================================================================
