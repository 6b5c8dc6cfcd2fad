------------------------------ MODULE MCContacts -------------------------------
(* Contacts that differ in nothing are interchangeable. *)
EXTENDS ContactProtection, TLC
Interchangeable == Permutations(Chat)
===============================================================================
