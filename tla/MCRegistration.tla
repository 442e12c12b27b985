--------------------------- MODULE MCRegistration ---------------------------
(***************************************************************************)
(* Instances of RegistrationService for TLC.  There are two organisations, *)
(* two satellites and two display names, so that each unique constraint    *)
(* can be hit alone; and three addresses, one of them (a2) in a block      *)
(* only, one (a3) in no block of an organisation but in one of System.     *)
(***************************************************************************)
EXTENDS RegistrationService

CONSTANTS o1, o2, u1, u2, n1, n2, a1, a2, a3, bare, masked, net, sys, bad

MCOrgs == {o1, o2}
MCUIDs == {u1, u2}
MCNames == {n1, n2}
MCAddrs == {a1, a2, a3}
MCBlocks == {bare, masked, net, sys, bad}
MCMalformed == {bare, bad}

\* "bare" is the address a1 without a mask, "masked" is a1/32.
MCContains ==
  [b \in MCBlocks |-> CASE b = masked -> {a1}
                        [] b = net -> {a1, a2}
                        [] b = sys -> {a3}
                        [] OTHER -> {}]
\* One row for all tenants, and one that is no CIDR block.
GateSystemBlocks == {sys, bad}

MCWithMask == [b \in MCBlocks |-> IF b = bare THEN masked ELSE b]

CreateCall(org, admin, username, uid, name, cn, addr) ==
  [kind |-> "create", org |-> org, admin |-> admin, username |-> username,
   uid |-> uid, name |-> name, cn |-> cn, addr |-> addr]

\* Registrations that clash on the uid, on the name within an organisation or
\* not at all, their removals, and the logins and checks of the satellites.
RegistrationCalls ==
       {CreateCall(o1, TRUE, TRUE, uid, name, uid, a1) :
          uid \in MCUIDs, name \in MCNames}
  \cup {CreateCall(o2, TRUE, TRUE, u1, n2, u1, a1),
        CreateCall(o2, TRUE, TRUE, u2, n1, u2, a1)}
  \cup {CreateCall(o1, TRUE, TRUE, None, n1, u1, a1),
        CreateCall(o1, TRUE, TRUE, u1, None, u1, a1),
        CreateCall(o1, FALSE, TRUE, u1, n1, u1, a1),
        CreateCall(o1, TRUE, FALSE, u1, n1, u1, a1),
        CreateCall(o1, TRUE, TRUE, u1, n1, None, a1),
        CreateCall(o1, TRUE, TRUE, u1, n1, u2, a1)}
  \cup [kind : {"delete"}, org : MCOrgs, admin : {TRUE}, uid : MCUIDs]
  \cup [kind : {"delete"}, org : {o1}, admin : {FALSE}, uid : {u1}]
  \cup [kind : {"auth", "check"}, cn : {u1, None}]

\* Registrations from every address against changes of the lists of two
\* organisations, by bare address, by mask and by network.
GateCalls ==
       {CreateCall(o1, TRUE, TRUE, u1, n1, u1, addr) : addr \in MCAddrs}
  \cup {CreateCall(o1, TRUE, TRUE, u1, n1, u2, a1)}
  \cup [kind : {"allow", "deny"}, org : {o1}, admin : {TRUE},
        block : {bare, masked, net, bad, None}]
  \cup [kind : {"allow", "deny"}, org : {o2}, admin : {TRUE}, block : {net}]
  \cup [kind : {"allow", "deny"}, org : {o2}, admin : {FALSE}, block : {net}]
  \cup [kind : {"list"}, org : {o2}, admin : BOOLEAN]
=============================================================================
