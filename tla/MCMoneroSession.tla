--------------------------- MODULE MCMoneroSession ----------------------------
(***************************************************************************)
(* MoneroSession for TLC.  Addresses have two characters and "px" is the   *)
(* one of the pool.  The names are this address, one that is too short,    *)
(* and the address with a payment id: its '#' is beyond the end of the     *)
(* short name.  The login requests are interchangeable: no action and no   *)
(* invariant tells them apart.                                             *)
(***************************************************************************)
EXTENDS MoneroSession

MCNames == {<<"p", "x">>, <<"p">>, <<"p", "x", "#", "1">>}

MCPoolAddresses == {<<"p", "x">>}

LoginSymmetry == Permutations(Logins)

===============================================================================
