---------------------------- MODULE MCAddressSpace ----------------------------
(***************************************************************************)
(* AddressSpace with two entries in a table and three levels: four pages   *)
(* of user space, large pages of two.                                      *)
(***************************************************************************)
EXTENDS AddressSpace

ReadWrite == {{"read", "write"}}
AnyPermission == {{"read"}, {"read", "write"}, {"read", "execute"}, {"write"}}
=============================================================================
