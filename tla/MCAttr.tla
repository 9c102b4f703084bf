------------------------------- MODULE MCAttr -------------------------------
(***************************************************************************)
(* Instances of Attr for TLC: an int and a long long that other processes  *)
(* may set, a read-only string and the constant "abus.version".  The value *)
(* 5 does not fit in the int of two bits, and fits in the long.            *)
(***************************************************************************)
EXTENDS Attr

CONSTANTS num, big, ro, version

MCIntMin == -2
MCLongMin == -8

MCHash == (num :> 1) @@ (big :> 9) @@ (ro :> 1) @@ (version :> 6)
MCDeclared == <<version, num, big, ro>>
MCType == (num :> "int") @@ (big :> "llint") @@ (ro :> "str") @@ (version :> "str")
MCFlags == (num :> {}) @@ (big :> {}) @@ (ro :> {"rdonly"}) @@ (version :> {"const"})

Set(items) == [kind |-> "set", items |-> items]
Get(items, ty) == [kind |-> "get", items |-> items, want |-> ty]
Named(a) == [name |-> a]
Val(a, ty, v) == [name |-> a, type |-> ty, v |-> v]

(* "set" of one or two items: a well-formed first item, then anything.     *)
First == Val(num, "int", 1)
Seconds ==
  {Val(num, "int", 5), Val(num, "str", 1), Val(big, "int", 5), Val(ro, "str", 1),
   Val(version, "str", 1), Val(Unknown, "int", 1), Val(Empty, "int", 1)}
MCRemoteOps ==
  {Set(<<First, y>>) : y \in Seconds}
    \cup {Set(<<y>>) : y \in {Val(big, "int", 5), Val(Unknown, "int", 1)}}
    \cup {Get(<<Named(a)>>, "int") : a \in {big, Empty, Unknown}}
    \cup {Get(<<Named(num), Named(big)>>, "llint")}

MCLocalOps ==
  {Set(<<Val(num, "llint", v)>>) : v \in {0, 5}}
    \cup {Set(<<Val(big, "int", 0)>>), Set(<<Val(ro, "str", 1)>>),
          Set(<<Val(version, "str", 1)>>)}
    \cup {Get(<<Named(big)>>, "int"), Get(<<Named(ro)>>, "int")}
    \cup {[kind |-> "notify", items |-> <<Named(a)>>] : a \in {num, version}}

(* The application also undeclares an attribute and declares it again.     *)
MCDeclOps ==
  MCLocalOps \cup {[kind |-> k, items |-> <<Named(num)>>] : k \in {"decl", "undecl"}}
=============================================================================
