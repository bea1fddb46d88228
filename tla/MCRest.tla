------------------------------- MODULE MCRest -------------------------------
(***************************************************************************)
(* The two models of a REST request in one run: its control flow           *)
(* (RestHandler), and the parameters and headers around it (RestEnvelope). *)
(* Neither reads the other's state, so a behaviour follows one of them,    *)
(* and the envelope either with every request or with every answer.        *)
(***************************************************************************)
EXTENDS RestHandler, RestEnvelope

VARIABLE view   \* what a behaviour follows

SomeConfig   == CHOOSE config \in Limits \X Validates \X BodySizes : TRUE
PlainRequest == CHOOSE r \in Requests : DOMAIN r.query = {} /\ DOMAIN r.headers = {}

RestInit ==
  /\ view \in {"control", "request", "answer"}
  /\ Init /\ EnvelopeInit
  /\ view # "control" => configVars = SomeConfig
  /\ view # "request" => asked = PlainRequest

Control  == view = "control" /\ Next /\ UNCHANGED <<envelopeVars, view>>
Envelope == /\ \/ view = "request" /\ CallBackend
               \/ view = "answer" /\ EnvelopeNext
            /\ UNCHANGED <<vars, view>>

RestSpec == /\ RestInit
            /\ [][Control \/ Envelope]_<<vars, envelopeVars, view>>
            /\ view = "control" => Fairness
=============================================================================
