-------------------------- MODULE MCMessagingLink --------------------------
(* Instances of MessagingLink for TLC. *)
EXTENDS MessagingLink

\* One client that connects twice, or two clients of the two kinds.
MCPlans == {{<<"g", 1>>, <<"g", 2>>}, {<<"g", 1>>, <<"s", 1>>}}

MCAlone == {{<<"g", 1>>}}
=============================================================================
