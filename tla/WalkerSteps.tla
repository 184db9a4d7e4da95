----------------------------- MODULE WalkerSteps -----------------------------
(***************************************************************************)
(* The vocabulary in which the protocol walkers are written down.          *)
(*                                                                         *)
(* Every walkXxx function of the package walker looks up members of one    *)
(* JSON value in a fixed order and disposes of each according to its kind. *)
(* Such a function is a sequence of steps here, under the function's name; *)
(* the module Walker executes it on a document it makes up on the way.     *)
(*                                                                         *)
(* A step is guarded by a condition on what has been looked up before.     *)
(* What it does to the value it finds is an action; a value of a kind for  *)
(* which no action is given is an invalid shape.                           *)
(***************************************************************************)
EXTENDS Naturals, Sequences, FiniteSets, TLC

KindOrder == <<"string", "object", "array", "null", "number", "true", "false">>
Kinds == {KindOrder[i] : i \in DOMAIN KindOrder}

-----------------------------------------------------------------------------
(* Actions on a value *)

Skip == [act |-> "skip"]                          \* leave it to the final pass
Mark == [act |-> "mark"]                          \* markOpaque
Reject == [act |-> "reject", up |-> 0]            \* unsupported
RejectNonEmpty == [act |-> "nonempty", up |-> 0]  \* unsupported unless it is empty
RejectOwnerNonEmpty == [act |-> "nonempty", up |-> 1]  \* its object, then
RejectBlock == [act |-> "reject", up |-> 2]       \* the object whose array it is in
AddOthers(s) == [act |-> "others", scope |-> s]   \* add, for members not asked for
Add(s) == [act |-> "add", scope |-> s]            \* add, walkStringValues
Run(p) == [act |-> "run", prog |-> p, scope |-> "same"]
RunAs(p, s) == [act |-> "run", prog |-> p, scope |-> s]
\* Each element of an array, or each value of an object:
Each(p) == [act |-> "each", prog |-> p, scope |-> "same"]
EachAs(p, s) == [act |-> "each", prog |-> p, scope |-> s]
Stop == [act |-> "stop"]                          \* return from the function
InvalidShape == [act |-> "shape"]
SetScope(s) == [act |-> "scope", scope |-> s]
RejectRole(s) == [act |-> "role", scope |-> s]    \* unsupportedValue(roleNode), go on

-----------------------------------------------------------------------------
(* Actions by the kind of the value *)

Str(a) == [string |-> a]
StrOrNull(a) == [string |-> a, null |-> Skip]
Obj(a) == [object |-> a]
ObjOrNull(a) == [object |-> a, null |-> Skip]
Arr(a) == [array |-> a]
ArrOrNull(a) == [array |-> a, null |-> Skip]
Boolean == [true |-> Skip, false |-> Skip]
NumberOrNull == [number |-> Skip, null |-> Skip]
Anything(a) == [k \in Kinds |-> a]
ObjOr(a, b) == [k \in Kinds |-> IF k = "object" THEN a ELSE b]

ActionFor(cases, k) == IF k \in DOMAIN cases THEN cases[k] ELSE InvalidShape

\* One kind for each way the cases treat a value: kinds are alike when they get
\* the same action and hold strings alike.
KindsApart(cases) ==
    LET scalar(k) == k \notin {"string", "object", "array"}
        alike(j, k) ==
            /\ ActionFor(cases, j) = ActionFor(cases, k)
            /\ \/ ActionFor(cases, k).act = "shape"
               \/ /\ ActionFor(cases, k).act \in {"mark", "add", "reject"}
                  /\ scalar(j) = scalar(k)
               \/ /\ ActionFor(cases, k).act = "skip"
                  /\ scalar(j) /\ scalar(k) /\ "true" \notin {j, k}
    IN {KindOrder[i] : i \in {m \in DOMAIN KindOrder :
            \A j \in 1 .. m - 1 : ~alike(KindOrder[j], KindOrder[m])}}

\* One value for each action of a switch, and one it does not know.
ValuesApart(table) ==
    {CHOOSE v \in DOMAIN table : table[v] = a : a \in {table[v] : v \in DOMAIN table}}
        \cup {"unknown"}

-----------------------------------------------------------------------------
(* Conditions *)

Always == [cond |-> "always"]
Has(keys) == [cond |-> "has", keys |-> keys]
Lacks(keys) == [cond |-> "lacks", keys |-> keys]
InScope(scopes) == [cond |-> "scope", scopes |-> scopes]
IsTrue(key) == [cond |-> "true", keys |-> {key}]
NotTrue(key) == [cond |-> "nottrue", keys |-> {key}]

-----------------------------------------------------------------------------
(* Steps; each is a sequence, so that they are put together with \o *)

Lookup(key, required, cases, alias) ==
    <<[op |-> "member", guard |-> <<>>, key |-> key, required |-> required,
       cases |-> cases, kinds |-> KindsApart(cases), alias |-> alias]>>

\* collector.unique and uniqueObjectKeys
Unique(keys) == <<[op |-> "unique", guard |-> <<>>, keys |-> keys]>>
UniqueAll == Unique({})

\* Dispatch on the kind of the value itself.
This(cases) ==
    <<[op |-> "this", guard |-> <<>>, cases |-> cases, kinds |-> KindsApart(cases)]>>

\* A string member that is marked opaque and whose value selects an action on
\* the object; it must be present when absent = InvalidShape.
Switch(key, table, other, absent) ==
    <<[op |-> "switch", guard |-> <<>>, key |-> key, table |-> table,
       values |-> ValuesApart(table), other |-> other, absent |-> absent]>>

Call(p) == This(Anything(Run(p)))

\* The steps are executed only where the condition holds.
If(cond, steps) ==
    [i \in DOMAIN steps |-> [steps[i] EXCEPT !.guard = Append(@, cond)]]

Concat(seqs) ==
    LET f[i \in 0 .. Len(seqs)] == IF i = 0 THEN <<>> ELSE f[i - 1] \o seqs[i]
    IN f[Len(seqs)]

Optional(key, cases) == Lookup(key, FALSE, cases, {})
Required(key, cases) == Lookup(key, TRUE, cases, {})
Members(keys, cases) == Concat([i \in DOMAIN keys |-> Optional(keys[i], cases)])

\* collector.oneOf: two spellings of one member, of which one may be present.
OneOf(key, other, required, cases) ==
    Optional(key, cases) \o Lookup(other, FALSE, cases, {key})
      \o IF required THEN If(Lacks({key, other}), This(Anything(InvalidShape))) ELSE <<>>

\* collector.markFields
MarkFields(keys) == Members(keys, Anything(Mark))

\* collector.markOpaqueStringField
OpaqueString(key) == Optional(key, StrOrNull(Mark))
OpaqueStrings(keys) == Members(keys, StrOrNull(Mark))
RequiredOpaque(key) == Required(key, Str(Mark))

\* collector.addStringField and stringField followed by add
Text(key, s) == Optional(key, StrOrNull(Add(s)))
RequiredText(key, s) == Required(key, Str(Add(s)))

\* collector.walkStringObjectField, for tool definitions
Schema(key) == Optional(key, ObjOrNull(Add("system")))
=============================================================================
