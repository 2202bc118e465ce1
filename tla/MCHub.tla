------------------------------- MODULE MCHub -------------------------------
(***************************************************************************)
(* An instance of Hub: all clients belong to one organisation.             *)
(***************************************************************************)
EXTENDS Hub

SameOrg == [c \in Clients |-> CHOOSE o \in Orgs : TRUE]
=============================================================================
