------------------------------- MODULE MCChain ------------------------------
(* A log per transaction type.  The entries of Mixed write two rows, none  *)
(* and one; Nft's share resources and users, P2p's users in either role;   *)
(* Dex's have one resource each.                                           *)
EXTENDS Chain, TLC

Entry(params) == [params |-> params, num_writes |-> Len(params)]

MCLog ==
  [Mixed |-> (0 :> Entry(<<1, 2>>) @@ 1 :> Entry(<<>>) @@ 2 :> Entry(<<2>>) @@ 3 :> Entry(<<2, 1>>)),
   Nft   |-> (0 :> Entry(<<1, 1>>) @@ 1 :> Entry(<<2, 2>>) @@ 2 :> Entry(<<1, 2>>) @@ 3 :> Entry(<<2, 1>>)),
   P2p   |-> (0 :> Entry(<<1, 2>>) @@ 1 :> Entry(<<3, 4>>) @@ 2 :> Entry(<<4, 2>>) @@ 3 :> Entry(<<1, 3>>)),
   Dex   |-> (0 :> Entry(<<1>>) @@ 1 :> Entry(<<2>>) @@ 2 :> Entry(<<1>>) @@ 3 :> Entry(<<1>>))]

=============================================================================
