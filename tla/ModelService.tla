---------------------------- MODULE ModelService ----------------------------
(***************************************************************************)
(* What the operator promises the user of one ModelDeployment, without     *)
(* passes, caches, Jobs, rollouts or replica counts:                       *)
(*                                                                         *)
(*   - pods are admitted for a pod template only once the weights it needs *)
(*     are complete, and only admitted templates take traffic;             *)
(*   - complete weights stay complete;                                     *)
(*   - once the model is served, something is served until the user takes  *)
(*     the object away, whatever the user asks for in the meantime;        *)
(*   - the status vouches for the weights of the spec the user wrote last, *)
(*     and for those only when they are complete.                          *)
(***************************************************************************)
CONSTANTS
    Templates,  \* pod templates
    Needs,      \* the weights each template needs, as a set
    Nothing     \* nothing is asked for

VARIABLES
    asked,      \* the template of the spec, Nothing once the object is deleted
    cached,     \* the weights that are complete
    admitted,   \* the templates for which pods exist or may be created
    serving,    \* the templates whose pods take traffic to stay
    vouched     \* the weights the status vouches for

serviceVars == <<asked, cached, admitted, serving, vouched>>

Init ==
    /\ asked \in Templates
    /\ cached = {}
    /\ admitted = {}
    /\ serving = {}
    /\ vouched = {}

\* The user writes a spec or deletes the object: what the status says is no
\* longer about the current generation.
Ask ==
    /\ asked' \in Templates \cup {Nothing}
    /\ asked = Nothing => asked' = Nothing
    /\ vouched' = {}
    /\ UNCHANGED <<cached, admitted, serving>>

Fetch(w) ==
    /\ cached' = cached \cup {w}
    /\ UNCHANGED <<asked, admitted, serving, vouched>>

Admit(t) ==
    /\ Needs[t] \subseteq cached
    /\ admitted' = admitted \cup {t}
    /\ UNCHANGED <<asked, cached, serving, vouched>>

Serve(t) ==
    /\ t \in admitted
    /\ serving' = serving \cup {t}
    /\ UNCHANGED <<asked, cached, admitted, vouched>>

\* The last pod of a template may be the last trace of it.
Retire(t) ==
    /\ serving' \in {serving, serving \ {t}}
    /\ admitted' \in {admitted, admitted \ {t}}
    /\ serving' \subseteq admitted'
    /\ UNCHANGED <<asked, cached, vouched>>

Report ==
    /\ asked # Nothing
    /\ vouched' \in {{}, Needs[asked]}
    /\ vouched' \subseteq cached
    /\ UNCHANGED <<asked, cached, admitted, serving>>

Next ==
    \/ Ask
    \/ Report
    \/ \E w \in UNION {Needs[t] : t \in Templates} : Fetch(w)
    \/ \E t \in Templates : Admit(t) \/ Serve(t) \/ Retire(t)

\* Serving does not stop while the object is there.
KeepsServing == [][serving # {} /\ asked' # Nothing => serving' # {}]_serviceVars

GatedSpec == Init /\ [][Next]_serviceVars

Spec == GatedSpec /\ KeepsServing
=============================================================================
