------------------------------ MODULE MCResPacker ------------------------------
(* Directories of two textures and two objects, packed one after another: a  *)
(* material that is used before the one with a smaller number, two files of  *)
(* one picture, two objects of one geometry, a texture whose picture changed, *)
(* a file of no object, and one of faces that only use the second material.   *)
(* Bytes have two bits: words go to 15, texture coordinates from -8 to 7, and *)
(* one mesh has more vertices than a word counts.                             *)
EXTENDS ResPacker

NoFiles == [k \in Kinds |-> <<>>]

Near == [x |-> 228, y |-> 27, z |-> 1, u |-> 7, v |-> -8]
Far == [x |-> 0, y |-> 255, z |-> 130, u |-> -1, v |-> 6]
Long == [i \in 1 .. 17 |-> Near]

House(brick, wood) ==
    [uses |-> <<1, 0>>, names |-> 0 :> brick @@ 1 :> wood,
     vertices |-> 0 :> Long @@ 1 :> <<Far, Near, Far>>]
Box(path) ==
    [uses |-> <<0>>, names |-> 0 :> path, vertices |-> 0 :> <<Near, Far>>]
HalfBox ==
    [uses |-> <<1>>, names |-> 0 :> 1 @@ 1 :> 1, vertices |-> 1 :> <<Near>>]
NoObject == [uses |-> <<>>, names |-> <<>>, vertices |-> <<>>]

MCInputs ==
    {[texture |-> 1 :> "brick" @@ 2 :> "wood",
      object |-> 1 :> House(1, 2) @@ 2 :> Box(3)],
     [texture |-> 1 :> "wood" @@ 2 :> "wood",
      object |-> 1 :> Box(1) @@ 2 :> Box(3)],
     [texture |-> 1 :> "brick", object |-> 1 :> Box(1) @@ 2 :> HalfBox],
     [texture |-> 1 :> "stone", object |-> 1 :> NoObject]}

\* somebody copied a texture and a resource, and named one 0
MCFirstFiles ==
    {NoFiles,
     [texture  |-> 1 :> "stone" @@ 2 :> "stone",
      resource |-> 1 :> ResourceOf(Box(1)) @@ 2 :> ResourceOf(Box(1)),
      model    |-> <<>>],
     [texture |-> 0 :> "wood" @@ 2 :> "brick", resource |-> <<>>, model |-> <<>>]}
=============================================================================
