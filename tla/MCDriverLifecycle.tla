-------------------------- MODULE MCDriverLifecycle --------------------------
(***************************************************************************)
(* Interfaces for DriverLifecycle: every order of the three endpoints, one *)
(* that is missing, one of no use among them, and one kind twice.          *)
(***************************************************************************)
EXTENDS DriverLifecycle

MCInterfaces ==
  {s \in [1 .. 3 -> Pipes] : OneOfAKind(s)}
  \cup {<<"interruptIn", "bulkOut">>, <<"other", "interruptIn", "bulkOut", "bulkIn">>,
        <<"interruptIn", "bulkOut", "bulkIn", "interruptIn">>}
=============================================================================
