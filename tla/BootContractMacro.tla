--------------------------- MODULE BootContractMacro ---------------------------
(***************************************************************************)
(* The two attribute macros of boot-contract-derive (lib.rs), as the      *)
(* compiler expands them over one contract crate, one annotated item at a *)
(* time in source order.  An item is abstracted to what the macros read:  *)
(* its kind, a function's name and the types of its inputs, a struct's    *)
(* fields.  What an expansion adds is abstracted to the items it defines: *)
(* the interface struct and its ContractInstance impl, the trait impls    *)
(* with the message type they associate, the get_<fn> accessors and the   *)
(* Uploadable impls.  The crate compiles when no item is defined twice    *)
(* and every item an impl refers to is defined.                            *)
(***************************************************************************)
EXTENDS Naturals, Sequences, SequencesExt

CONSTANTS
    Crates,   \* crates: sequences of annotated items, in source order
    Name      \* get_crate_to_struct(): the struct named after the crate

VARIABLES
    crate,    \* the crate being compiled
    pending,  \* the annotated items not yet expanded
    emitted,  \* the items the expansions have added, duplicates included
    panicked  \* the panic message of the macro that failed, or "none"

vars == <<crate, pending, emitted, panicked>>

EntryPoints == {"instantiate", "execute", "query", "migrate"}

(* The trait an entry point implements: format_ident!("{}ableContract")   *)
(* of the PascalCase name.                                                 *)
TraitOf == [instantiate |-> "InstantiateableContract",
            execute |-> "ExecuteableContract",
            query |-> "QueryableContract",
            migrate |-> "MigrateableContract"]

Impl(t, msg) == [def |-> "impl", trait |-> t, msg |-> msg]

Getter(f) == [def |-> "getter", fn |-> f]

Init ==
    /\ crate \in Crates
    /\ pending = crate
    /\ emitted = <<>>
    /\ panicked = "none"

(* contract: four types or a panic, a unit struct or a panic; the generic *)
(* struct with its ContractInstance impl and the four trait impls with the *)
(* four types in order.                                                    *)
ContractExpansion(it) ==
    CASE Len(it.attrs) # 4 -> [panic |-> "Expected four endpoint types"]
      [] it.kind # "struct" -> [panic |-> "Only works on structs"]
      [] ~it.unit -> [panic |-> "Struct must be unit-struct"]
      [] OTHER ->
           [panic |-> "none",
            items |-> <<[def |-> "struct", name |-> it.name], [def |-> "instance"]>>
                      \o [i \in 1..4 |-> Impl(TraitOf[<<"instantiate", "execute",
                                                       "query", "migrate">>[i]],
                                              it.attrs[i])]]

(* The 0-based input index of the message argument.                       *)
MessageIdx(name) == IF name \in {"instantiate", "execute"} THEN 3 ELSE 2

(* struct_def: the struct, ContractInstance, find_workspace_dir, new and  *)
(* the Uploadable impls for Mock, which names get_execute, get_instantiate *)
(* and get_query, and for Daemon.                                          *)
StructDef ==
    <<[def |-> "struct", name |-> Name], [def |-> "instance"],
      [def |-> "uploadable", uses |-> {"execute", "instantiate", "query"}]>>

(* Mutant of BootContractExpansion: struct_def added for every entry     *)
(* point, not for instantiate alone.                                       *)
BootContractExpansionStructAlways(it) ==
    CASE it.kind # "fn" -> [panic |-> "Only works on functions"]
      [] it.name \notin EntryPoints -> [panic |-> "Function name not supported"]
      [] MessageIdx(it.name) >= Len(it.inputs) -> [panic |-> "index out of bounds"]
      [] OTHER ->
           [panic |-> "none",
            items |-> StructDef \o <<Impl(TraitOf[it.name], it.inputs[MessageIdx(it.name) + 1]),
                                     Getter(it.name)>>]

(* boot_contract: a function or a panic; the message index by name or a   *)
(* panic; signature.inputs[message_idx], an index out of bounds panics;   *)
(* the trait impl and the get_<fn> accessor, after struct_def for         *)
(* instantiate only.                                                       *)
BootContractExpansion(it) ==
    CASE it.kind # "fn" -> [panic |-> "Only works on functions"]
      [] it.name \notin EntryPoints -> [panic |-> "Function name not supported"]
      [] MessageIdx(it.name) >= Len(it.inputs) -> [panic |-> "index out of bounds"]
      [] OTHER ->
           LET funcPart == <<Impl(TraitOf[it.name], it.inputs[MessageIdx(it.name) + 1]),
                             Getter(it.name)>>
           IN  [panic |-> "none",
                items |-> IF it.name = "instantiate" THEN StructDef \o funcPart
                                                     ELSE funcPart]

Expansion(a) ==
    IF a.macro = "contract" THEN ContractExpansion(a.item) ELSE BootContractExpansion(a.item)

(* One attribute macro invocation: a panic aborts the compilation.        *)
Expand ==
    /\ panicked = "none"
    /\ pending # <<>>
    /\ LET x == Expansion(Head(pending)) IN
         IF x.panic # "none"
         THEN panicked' = x.panic /\ UNCHANGED emitted
         ELSE emitted' = emitted \o x.items /\ UNCHANGED panicked
    /\ pending' = Tail(pending)
    /\ UNCHANGED crate

(* The compilation has stopped: every item expanded, or a macro panicked. *)
Stopped == (pending = <<>> \/ panicked # "none") /\ UNCHANGED vars

Next == Expand \/ Stopped

Spec == Init /\ [][Next]_vars /\ WF_vars(Expand)

-----------------------------------------------------------------------------
(* The crate has been expanded and no macro panicked.                     *)
Done == pending = <<>> /\ panicked = "none"

Defs(d) == {i \in DOMAIN emitted : emitted[i].def = d}

(* The expanded crate type-checks: one struct, one ContractInstance impl, *)
(* one impl of each trait and one accessor of each entry point, and the   *)
(* accessors the Uploadable<Mock> impl calls all exist.                    *)
Compiles ==
    /\ Cardinality(Defs("struct")) = 1
    /\ Cardinality(Defs("instance")) = 1
    /\ \A i, j \in Defs("impl") : emitted[i].trait = emitted[j].trait => i = j
    /\ \A i, j \in Defs("getter") : emitted[i].fn = emitted[j].fn => i = j
    /\ \A i \in Defs("uploadable") :
          \A f \in emitted[i].uses : \E j \in Defs("getter") : emitted[j].fn = f

(* The standard cosmwasm entry point signatures: (deps, env, info, msg)   *)
(* for instantiate and execute, (deps, env, msg) for query and migrate.   *)
Standard(it) ==
    /\ it.kind = "fn"
    /\ it.name \in EntryPoints
    /\ Len(it.inputs) = IF it.name \in {"instantiate", "execute"} THEN 4 ELSE 3

(* A crate of standard entry points annotated with boot_contract compiles *)
(* exactly when instantiate, execute and query are each annotated once    *)
(* and migrate at most once: the struct comes with instantiate alone and  *)
(* the Mock Uploadable impl calls the other two accessors.                *)
CompilesIffComplete ==
    Done /\ (\A a \in Range(crate) : a.macro = "boot_contract" /\ Standard(a.item)) =>
      (Compiles <=>
         /\ \A n \in {"instantiate", "execute", "query"} :
               Cardinality({k \in DOMAIN crate : crate[k].item.name = n}) = 1
         /\ Cardinality({k \in DOMAIN crate : crate[k].item.name = "migrate"}) <= 1)

=============================================================================
