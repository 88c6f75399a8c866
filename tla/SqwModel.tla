------------------------------- MODULE SqwModel ------------------------------
(***************************************************************************)
(* What a client of an S(Q,w) model is promised, whatever process the      *)
(* model runs in (class SqwBase): every call takes effect at one instant   *)
(* between its invocation and its return, on one set of parameters, and    *)
(* returns the answer of that instant.                                     *)
(***************************************************************************)
EXTENDS SqwData

CONSTANT Clients

VARIABLES
  ok,     \* the model has been set up
  model,  \* the parameters of the model
  phase,  \* progress of the call of each client
  req,    \* the request of each client's call
  pend,   \* the answer decided, not yet returned
  ret     \* what the last call of each client returned

vars == <<ok, model, phase, req, pend, ret>>

Init ==
  /\ ok = FALSE
  /\ model = DefaultModel
  /\ phase = [c \in Clients |-> "idle"]
  /\ req = [c \in Clients |-> NoReq]
  /\ pend = [c \in Clients |-> NoVal]
  /\ ret = [c \in Clients |-> NoVal]

Open ==
  /\ ok' = TRUE
  /\ UNCHANGED <<model, phase, req, pend, ret>>

\* A model that is not set up answers nothing but that.
Refuse(c) ==
  /\ ~ok
  /\ phase[c] = "idle"
  /\ ret' = [ret EXCEPT ![c] = Flag(FALSE)]
  /\ UNCHANGED <<ok, model, phase, req, pend>>

Invoke(c, r) ==
  /\ ok
  /\ phase[c] = "idle"
  /\ phase' = [phase EXCEPT ![c] = "called"]
  /\ req' = [req EXCEPT ![c] = r]
  /\ ret' = [ret EXCEPT ![c] = NoVal]
  /\ UNCHANGED <<ok, model, pend>>

Apply(c) ==
  /\ phase[c] = "called"
  /\ phase' = [phase EXCEPT ![c] = "applied"]
  /\ model' = Effect(model, req[c])
  /\ pend' = [pend EXCEPT ![c] = Answer(model, req[c])]
  /\ UNCHANGED <<ok, req, ret>>

Return(c) ==
  /\ phase[c] = "applied"
  /\ phase' = [phase EXCEPT ![c] = "idle"]
  /\ ret' = [ret EXCEPT ![c] = pend[c]]
  /\ req' = [req EXCEPT ![c] = NoReq]
  /\ pend' = [pend EXCEPT ![c] = NoVal]
  /\ UNCHANGED <<ok, model>>

Next ==
  \/ Open
  \/ \E c \in Clients : \/ Refuse(c) \/ Apply(c) \/ Return(c)
                        \/ \E r \in Requests : Invoke(c, r)

Spec == Init /\ [][Next]_vars
=============================================================================
