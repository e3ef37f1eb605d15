--------------------------- MODULE MC_StaticInit ---------------------------
(***************************************************************************)
(* Initializer types for TLC, with the x86-64 layout: i8, i24 (store size  *)
(* 3, aligned to 4), i32, pointers of 8 bytes and double; arrays and       *)
(* structs nested two deep, empty ones included.                           *)
(***************************************************************************)
EXTENDS StaticInit

I8 == [kind |-> "int", bytes |-> 1, align |-> 1]
I24 == [kind |-> "int", bytes |-> 3, align |-> 4]
I32 == [kind |-> "int", bytes |-> 4, align |-> 4]
Ptr == [kind |-> "ptr"]
Double == [kind |-> "float", bytes |-> 8, align |-> 8]

Arr(t, n) == [kind |-> "array", elem |-> t, count |-> n]
Str(fs) == [kind |-> "struct", fields |-> fs]

Scalars == {I8, I24, I32, Ptr}

Level1 ==
  Scalars \cup {Arr(t, n) : t \in Scalars, n \in 0..2}
          \cup {Str(<<a, b>>) : a, b \in Scalars} \cup {Str(<<>>)}

Level2 ==
  {Arr(t, 2) : t \in Level1 \ Scalars}
    \cup {Str(<<a, b>>) : a \in {I8, Ptr}, b \in Level1 \ Scalars}
    \cup {Str(<<Double>>), Arr(Double, 1)}

MCModules == {<<t>> : t \in Level1 \cup Level2} \cup {<<t, u>> : t \in Scalars, u \in Level1 \cup Level2}

=============================================================================
