---------------------------- MODULE UsersService ----------------------------
(***************************************************************************)
(* The user endpoints of one process.  USERS_MODULE decides, when the      *)
(* process starts, who answers them: a user module (UserLookup) or, when   *)
(* there is none, the catch-all server (CatchallServer).  Beside a module, *)
(* the catch-all server answers whatever no other handler is routed to.    *)
(* The two share no state, and no property speaks of both.                 *)
(***************************************************************************)
EXTENDS UserLookup, CatchallServer

CONSTANT Beside \* bound: the modules with which the catch-all server is asked
                \* as well ("" is none); a deployment has them all

vars == <<lookupVars, catchallVars>>

\* The default branch of the handlers' switches.
NoModule == usersModule = ""

\* A catch-all server that nobody asks has one state.
Init ==
  /\ LookupInit /\ CatchallInit
  /\ usersModule \in Beside \/ (realm = {} /\ ~disabled /\ ~allPass)

\* POST /v1/users has a handler of its own, and with a module that answers.  All
\* else that CatchallServer models can be asked for by a path or with a method
\* that no other handler takes.
Routed ==
  job'.pc = "dispatch" /\ job'.call.kind = "query" /\ job'.call.api = "users" =>
    NoModule \/ ~job'.call.post

Next ==
  \/ ~NoModule /\ LookupNext /\ UNCHANGED catchallVars
  \/ usersModule \in Beside /\ CatchallNext /\ Routed /\ UNCHANGED lookupVars

\* The timer of the user service's client fires, and an answer is written.
\* Nothing is assumed of the services themselves, nor of Keycloak's token.
Spec ==
  /\ Init /\ [][Next]_vars
  /\ \A r \in Requests :
       /\ WF_vars(ServiceTimesOut(r) /\ UNCHANGED catchallVars)
       /\ WF_vars(Reply(r) /\ UNCHANGED catchallVars)
=============================================================================
