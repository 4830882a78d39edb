-------------------------- MODULE MCSyncRegistration --------------------------
(***************************************************************************)
(* Instances of SyncRegistration for TLC.                                  *)
(***************************************************************************)
EXTENDS SyncRegistration, TLC

CONSTANTS q1, q2, p1, p2, byte, c1, c2

mc_RequestTypes == {q1, q2}
mc_ResponseTypes == {p1, p2}
mc_TypeNames == Requests \cup Responses
mc_Bytes == {byte, Colon}

\* Protobuf serializes the first; of the second, nothing.
mc_Bodies == {<< Colon, byte >>, << byte, Colon, byte >>}

mc_Clients == {c1, c2}
mc_OneClient == {c1}

mc_ClientOptions ==
    {[validate |-> "NoValidation",       duplicate |-> "IndicateIgnore"],
     [validate |-> "ManualRegistration", duplicate |-> "SilentOverride"],
     [validate |-> "ManualRegistration", duplicate |-> "IndicateIgnore"],
     [validate |-> "ServerReflection",   duplicate |-> "IndicateIgnore"]}
mc_ReflectionOnly ==
    {[validate |-> "ServerReflection", duplicate |-> "IndicateIgnore"]}

mc_OverrideOnly == {"SilentOverride"}

\* Nothing in the model tells the types apart, or the clients.
mc_Symmetry ==
    Permutations(mc_RequestTypes) \cup Permutations(mc_ResponseTypes)
        \cup Permutations(mc_Clients)
=============================================================================
