------------------------- MODULE MCPermissionChain -------------------------
(***************************************************************************)
(* An instance of PermissionChain with two addresses: a, which the genesis *)
(* block makes an admin and a miner, and b.  On the branches that begin    *)
(* with A1, a makes b an admin and both admins then allow b to mine, a     *)
(* twice; b, or a, next takes part in removing a as an admin.  On the      *)
(* branches that begin with B1 a mines alone and b never may.              *)
(***************************************************************************)
EXTENDS PermissionChain

Grant(type, addr, admin, to, ts) ==
  [type |-> type, addr |-> addr, admin |-> admin, from |-> 0, to |-> to, ts |-> ts]
Block(miner, grants) == [miner |-> miner, grants |-> grants]

adminB == Grant("admin", "b", "a", Forever, 1)
mineB == Grant("mine", "b", "a", Forever, 2)
mineB2 == Grant("mine", "b", "b", Forever, 3)
mineAgain == Grant("mine", "b", "a", Forever, 4)
dropA == Grant("admin", "a", "b", 0, 5)

A1 == Block("a", <<adminB, mineB, mineAgain, mineB2>>)
A2 == Block("b", <<dropA>>)
X2 == Block("a", <<dropA>>)
X3 == Block("b", <<>>)
B1 == Block("a", <<>>)
B3 == Block("a", <<mineB>>)
Y2 == Block("b", <<>>)

MCAddress == {"a", "b"}
MCNeed == [type \in {"admin", "mine"} |-> IF type = "admin" THEN 2 ELSE 4]
MCUniverse ==
  {<<A1>>, <<A1, A2>>, <<A1, X2>>, <<A1, X2, X3>>,
   <<B1>>, <<B1, Y2>>, <<B1, B1>>, <<B1, B1, B3>>}
MCGrants == {adminB, mineB}
=============================================================================
