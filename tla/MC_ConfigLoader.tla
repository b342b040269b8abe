--------------------------- MODULE MC_ConfigLoader ---------------------------
(* One registered namespace a with two flat fields, a.a (default 1) and    *)
(* a.b (default 2); sources return one of a handful of trees: empty, each *)
(* field set, both set, a field holding an object, the namespace holding   *)
(* a scalar, and an unregistered namespace b.                              *)
EXTENDS ConfigLoader, TLC

CONSTANTS a, b

MCFields ==
  {[ns |-> a, key |-> <<a>>, dflt |-> Num(1)],
   [ns |-> a, key |-> <<b>>, dflt |-> Num(2)]}

(* Two fields, a.b and its child a.b.a with a default: a key path that is  *)
(* a prefix of another.                                                    *)
MCNestedFields ==
  {[ns |-> a, key |-> <<b>>, dflt |-> NoDefault],
   [ns |-> a, key |-> <<b, a>>, dflt |-> Num(1)]}

MCInputs ==
  {Empty,
   (a :> Obj(a :> Num(1))), (a :> Obj(a :> Num(2))), (a :> Obj(b :> Num(1))),
   (a :> Obj((a :> Num(1)) @@ (b :> Num(2)))),
   (a :> Obj(a :> Obj(Empty))), (a :> Num(1)), (b :> Num(1))}
====
