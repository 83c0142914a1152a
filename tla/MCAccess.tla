------------------------------ MODULE MCAccess -------------------------------
(***************************************************************************)
(* Instance of Access: two users, two desks.                               *)
(***************************************************************************)
EXTENDS Access

MCPatches ==
    {[role |-> "plain", active |-> "keep", password |-> "keep"],
     [role |-> "keep",  active |-> "off",  password |-> "keep"],
     [role |-> "keep",  active |-> "on",   password |-> "keep"],
     [role |-> "admin", active |-> "keep", password |-> "weak"]}
=============================================================================
