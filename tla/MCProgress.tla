----------------------------- MODULE MCProgress -----------------------------
(***************************************************************************)
(* What Overlay and Terminal must eventually do, for TLC. They share no    *)
(* state, so a behaviour is one of one component: part says which, and the *)
(* variables of the other stay 0.                                          *)
(***************************************************************************)
EXTENDS Naturals

CONSTANTS KeyNames, ServiceIds, KeyCommands, Slugs, Listed, Hits, PageSize,
          Wires, MaxSent

VARIABLE part   \* the component this behaviour is about
VARIABLES net, router, server, cancelled, mutex, at, saw, service, alive,
          sick, leaving, published, key, faults
VARIABLES stored, ui, wires, sent, quiet

overlayVars == <<net, router, server, cancelled, mutex, at, saw, service,
                 alive, sick, leaving, published, key, faults>>
terminalVars == <<stored, ui, wires, sent, quiet>>

O == INSTANCE Overlay
T == INSTANCE Terminal

\* The variables of a component that the behaviour is not about.
NoO ==
  /\ net = 0 /\ router = 0 /\ server = 0 /\ cancelled = 0 /\ mutex = 0
  /\ at = 0 /\ saw = 0 /\ service = 0 /\ alive = 0 /\ sick = 0
  /\ leaving = 0 /\ published = 0 /\ key = 0 /\ faults = 0
NoT ==
  /\ stored = 0 /\ ui = 0 /\ wires = 0 /\ sent = 0 /\ quiet = 0

Init ==
  \/ /\ part = "overlay" /\ O!Init
     /\ NoT
  \/ /\ part = "terminal" /\ T!Init
     /\ NoO

Next ==
  /\ UNCHANGED part
  /\ \/ /\ part = "overlay" /\ O!Next
        /\ UNCHANGED <<terminalVars>>
     \/ /\ part = "terminal" /\ T!Next
        /\ UNCHANGED <<overlayVars>>

vars == <<part, overlayVars, terminalVars>>

\* The fairness of the components, each for its own behaviours.
Fairness ==
  /\ WF_overlayVars(part = "overlay" /\ O!TaskLooks)
  /\ WF_overlayVars(part = "overlay" /\ O!TaskAsks)
  /\ \A a \in O!Starters :
       SF_overlayVars(part = "overlay" /\ (O!Begin(a) \/ O!BeginFails(a)))
  /\ \A a \in O!Starters :
       WF_overlayVars(part = "overlay" /\ (O!Finish(a) \/ O!BootFails(a)))
  /\ \A i \in Wires :
       WF_terminalVars(part = "terminal" /\ (T!Progress(i)))

Spec == Init /\ [][Next]_vars /\ Fairness

-----------------------------------------------------------------------------
\* A provider that works is up again in the end, also if the first start failed
\* or the provider was lost with nobody to monitor it.
Recovers == []<>(part = "overlay" => O!RecoveredOrNot)

\* What is loading is answered, or the user leaves.
LoadingPasses == (part = "terminal" /\ ui.loading) ~>
    (part = "terminal" /\ (~ui.loading \/ ui.view = "gone"))
=============================================================================
