------------------------------ MODULE Mailbox -------------------------------
(* What the skynet core promises a service, and what the model of the        *)
(* session services takes for granted: messages accepted for a service are   *)
(* served in the order they were accepted, one at a time, and a message that *)
(* is accepted is served or, once the service is gone, bounced: none is lost *)
(* and none is served twice.                                                 *)
EXTENDS Sequences

CONSTANTS Svc, Msg, Nil

VARIABLES
    state,        \* "unborn", "open", "closing", "sealed" or "gone"
    box,          \* accepted, not yet served or bounced
    serving       \* the message in the service's handler

boxVars == <<state, box, serving>>

BoxInit ==
    /\ state \in [Svc -> {"unborn", "open"}]
    /\ box \in [Svc -> {<<>>} \cup {<<m>> : m \in Msg}]
    /\ serving = [c \in Svc |-> Nil]

Open(c) ==
    /\ state[c] = "unborn"
    /\ state' = [state EXCEPT ![c] = "open"]
    /\ UNCHANGED <<box, serving>>

\* A sender that found the service before it was retired may still post.
Post(c, m) ==
    /\ state[c] \in {"open", "closing"}
    /\ box' = [box EXCEPT ![c] = Append(@, m)]
    /\ UNCHANGED <<state, serving>>

Serve(c) ==
    /\ state[c] \in {"open", "closing"}
    /\ serving[c] = Nil
    /\ box[c] # <<>>
    /\ serving' = [serving EXCEPT ![c] = Head(box[c])]
    /\ box' = [box EXCEPT ![c] = Tail(@)]
    /\ UNCHANGED state

Finish(c) ==
    /\ serving[c] # Nil
    /\ serving' = [serving EXCEPT ![c] = Nil]
    /\ UNCHANGED <<state, box>>

Close(c) ==
    /\ state[c] = "open"
    /\ state' = [state EXCEPT ![c] = "closing"]
    /\ UNCHANGED <<box, serving>>

\* Nobody has the service any more: its instance is destroyed.
Seal(c) ==
    /\ state[c] = "closing"
    /\ serving[c] = Nil
    /\ state' = [state EXCEPT ![c] = "sealed"]
    /\ UNCHANGED <<box, serving>>

Bounce(c) ==
    /\ state[c] = "sealed"
    /\ box[c] # <<>>
    /\ box' = [box EXCEPT ![c] = Tail(@)]
    /\ UNCHANGED <<state, serving>>

Vanish(c) ==
    /\ state[c] = "sealed"
    /\ box[c] = <<>>
    /\ state' = [state EXCEPT ![c] = "gone"]
    /\ UNCHANGED <<box, serving>>

BoxNext ==
    \E c \in Svc :
        \/ Open(c) \/ Serve(c) \/ Finish(c) \/ Close(c) \/ Seal(c) \/ Bounce(c) \/ Vanish(c)
        \/ \E m \in Msg : Post(c, m)

BoxSpec == BoxInit /\ [][BoxNext]_boxVars

=============================================================================
