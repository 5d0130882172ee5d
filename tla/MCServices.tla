------------------------------ MODULE MCServices ------------------------------
(***************************************************************************)
(* The services beside the report pipeline, each checked on its own: a     *)
(* behaviour is one of the part chosen at its start, while the others rest *)
(* in one initial state, so that the states of the parts add up instead of *)
(* multiplying.                                                            *)
(***************************************************************************)
EXTENDS WorkspaceRecords, SessionAccess, InvitationLife, RetailJourney, EnvelopeMigration,
  MCEvidence

Services == {"workspace", "session", "invitation", "journey", "envelope"}

WorkspaceRests == \A v \in Versions : version[v].state = "absent"
SessionRests == \A s \in Sessions : session[s] = NoSession
EnvelopeRests == \A f \in Files : sealed[f] \in {Stocked(s, "none") : s \in Unscoped}

Init ==
  /\ part \in Services \cup Computations
  /\ WorkspaceInit /\ (part # "workspace" => WorkspaceRests)
  /\ SessionInit /\ (part # "session" => SessionRests)
  /\ InvitationInit
  /\ JourneyInit
  /\ EnvelopeInit /\ (part # "envelope" => EnvelopeRests)
  /\ FiguresInit \/ FiguresRest

Next ==
  /\ UNCHANGED part
  /\ \/ /\ part = "workspace" /\ WorkspaceNext
        /\ UNCHANGED <<svars, ivars, jvars, evars, figvars>>
     \/ /\ part = "session" /\ SessionNext
        /\ UNCHANGED <<wvars, ivars, jvars, evars, figvars>>
     \/ /\ part = "invitation" /\ InvitationNext
        /\ UNCHANGED <<wvars, svars, jvars, evars, figvars>>
     \/ /\ part = "journey" /\ JourneyNext
        /\ UNCHANGED <<wvars, svars, ivars, evars, figvars>>
     \/ /\ part = "envelope" /\ EnvelopeNext
        /\ UNCHANGED <<wvars, svars, ivars, jvars, figvars>>
     \/ /\ FiguresNext
        /\ UNCHANGED <<wvars, svars, ivars, jvars, evars>>

Spec == Init /\ [][Next]_<<part, wvars, svars, ivars, jvars, evars, figvars>>

\* The parts take their interchangeable values from the same two pairs.
Interchangeable == Permutations(Sessions) \cup Permutations(Clients)

\* Every part keeps the types of its state.
TypeOK ==
  /\ part = "workspace" => WorkspaceTypeOK
  /\ part = "session" => SessionTypeOK
  /\ part = "invitation" => InvitationTypeOK
  /\ part = "journey" => JourneyTypeOK
  /\ part = "envelope" => EnvelopeTypeOK
=============================================================================
