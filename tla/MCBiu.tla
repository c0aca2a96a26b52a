------------------------------- MODULE MCBiu --------------------------------
(* Stores, and the data cache's fills, split singles and address-only      *)
(* tenures, overtaken by pushes.                                           *)
EXTENDS Biu

OrderAsks ==
  [scalar |-> {"write"}, line |-> {}, cache |-> {"read", "split", "address"},
   push |-> {"write"}]
=============================================================================
