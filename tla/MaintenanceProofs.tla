------------------------- MODULE MaintenanceProofs --------------------------
(***************************************************************************)
(* Proofs about MCMaintenance: what is proved of a component on its own    *)
(* holds of it in the product, where the other components stand still.     *)
(***************************************************************************)
EXTENDS MCMaintenance, Sequences, Integers, WellFoundedInduction, TLAPS

USE KeysAssumption, CommandAssumption

\* A step of the product is one of the component that the behaviour is about.
LEMMA PartStep ==
  ASSUME [Next]_vars
  PROVE  /\ part' = part
         /\ part = "restore" => [R!Next]_restoreVars
         /\ part = "update" => [U!Next]_updateVars
         /\ part = "overlay" => [O!Next]_overlayVars
         /\ part = "keys" => [K!Next]_keysVars
         /\ part = "settings" => [S!Next]_settingsVars
         /\ part = "mail" => [M!Next]_mailVars
         /\ part = "service" => [V!Next]_serviceVars
         /\ part = "command" => [C!Next]_commandVars
BY DEF Next, vars, restoreVars, updateVars, overlayVars, keysVars, settingsVars, mailVars,
   serviceVars, commandVars

-----------------------------------------------------------------------------
(***************************************************************************)
(* Overlay networks                                                        *)
(***************************************************************************)

RouterVias == {"tor", "i2pd", "sam"}
Provided   == [id : ServiceIds, via : RouterVias]
Stands     == {"idle", "want", "boot", "loop", "ask", "cancel", "close"}
KeyFiles   ==
  [name : KeyNames \cup {O!None, O!Torn}, via : RouterVias \cup {O!None}, named : BOOLEAN]

OverlayTyped ==
  /\ net \in {"tor", "i2p"}
  /\ router.via \in RouterVias \cup {O!None} /\ router.works \in BOOLEAN
  /\ server \in {"off", "up", "stopped"} /\ cancelled \in BOOLEAN
  /\ mutex \in O!Starters \cup {O!Nobody}
  /\ at \in [O!Actors -> Stands]
  /\ saw \in [O!Starters -> Provided \cup {O!NoService}]
  /\ service \in Provided \cup {O!NoService}
  /\ alive \subseteq Provided /\ sick \subseteq alive /\ leaving \subseteq RouterVias
  /\ published \in KeyNames \cup {O!None, O!Torn}
  /\ key \in KeyFiles
  /\ faults \subseteq {"overtaken", "beside", "replaced"}

\* The mutex is held by the one actor that boots a provider, and by nobody else.
MutexHeld == \A a \in O!Starters : at[a] = "boot" <=> mutex = a

\* Nothing of a server is left when it is gone; only a command may run then.
OffIsIdle ==
  server = "off" => /\ \A a \in O!Actors \ {"command"} : at[a] = "idle"
                    /\ published = O!None

\* A restart has closed the old service before it boots the new one; Start finds
\* none, unless it was overtaken.
BootsAlone ==
  "overtaken" \notin faults =>
    /\ \A a \in O!Starters : at[a] = "boot" => service = O!NoService
    /\ alive \subseteq {service} \cup {saw[a] : a \in {b \in O!Starters : at[b] = "boot"}}

\* The context that the hook has cancelled leaves only sessions of a SAM bridge, and
\* no process that was told to end.
CancelledIsSick ==
  /\ cancelled => leaving = {} /\ \A s \in alive : s.via = "sam" \/ s \in sick
  /\ at["hook"] = "close" \/ server = "stopped" => cancelled

\* A command goes on beside a server only if a boot has raced with it or the PID
\* file did not tell of the server.
CommandAlone == at["command"] = "ask" /\ "beside" \notin faults => server = "off"

OverlayOK ==
  /\ OverlayTyped /\ MutexHeld /\ OffIsIdle /\ BootsAlone /\ CancelledIsSick /\ CommandAlone
  /\ O!PublishedIsKey

-----------------------------------------------------------------------------
(***************************************************************************)
(* Types                                                                   *)
(***************************************************************************)

LEMMA OverlayInit == O!Init => OverlayOK
<1> SUFFICES ASSUME O!Init
             PROVE  OverlayOK
  OBVIOUS
<1> USE DEF O!Init
<1>1. router.via \in RouterVias /\ router.works \in BOOLEAN
  BY DEF O!Providers, RouterVias
<1>2. OverlayTyped
  BY <1>1 DEF OverlayTyped, O!Idle, O!Actors, O!Starters, Stands, O!Nobody, Provided, O!NoService,
              KeyFiles, O!NoKey,
              O!None, RouterVias
<1>3. MutexHeld /\ OffIsIdle /\ CommandAlone
  BY DEF MutexHeld, OffIsIdle, CommandAlone, O!Idle, O!Actors, O!Starters, O!Nobody
<1>4. BootsAlone /\ CancelledIsSick /\ O!PublishedIsKey
  BY DEF BootsAlone, CancelledIsSick, O!PublishedIsKey, O!NoService, O!Idle, O!Actors
<1> QED
  BY <1>2, <1>3, <1>4 DEF OverlayOK

\* The keys that a provider may come up with.
LEMMA KeysForType ==
  ASSUME OverlayTyped, NEW via \in RouterVias \cup {O!None}, NEW k \in O!KeysFor(via)
  PROVE  k \in KeyFiles /\ k.via = via /\ (key.via = via => k = key)
BY DEF OverlayTyped, KeyFiles, O!KeysFor

\* The service that an actor boots.
LEMMA BeginType ==
  ASSUME OverlayTyped, NEW a \in O!Starters, O!Begin(a)
  PROVE  \E new \in Provided :
           /\ new # O!NoService /\ new.via = router.via
           /\ alive' = (alive \ O!Stopped(a)) \cup {new}
           /\ saw' = [saw EXCEPT ![a] = new]
BY DEF O!Begin, OverlayTyped, Provided, O!NoService, O!None, RouterVias

\* What is told to end is a process of some kind.
LEMMA ToldType ==
  ASSUME NEW ended, ended \subseteq Provided \cup {O!NoService}
  PROVE  O!ToldToEnd(ended) \subseteq RouterVias /\ (cancelled => O!ToldToEnd(ended) = {})
BY DEF O!ToldToEnd, Provided

LEMMA OverlayTypeStep == OverlayTyped /\ [O!Next]_overlayVars => OverlayTyped'
<1> SUFFICES ASSUME OverlayTyped, [O!Next]_overlayVars
             PROVE  OverlayTyped'
  OBVIOUS
<1> USE DEF OverlayTyped
<1>0. /\ "idle" \in Stands /\ "want" \in Stands /\ "boot" \in Stands /\ "loop" \in Stands
      /\ "ask" \in Stands /\ "cancel" \in Stands /\ "close" \in Stands
      /\ O!Starters \subseteq O!Actors /\ "hook" \in O!Actors /\ "command" \in O!Actors
      /\ "starter" \in O!Starters /\ "monitor" \in O!Starters /\ "task" \in O!Starters
  BY DEF Stands, O!Starters, O!Actors
<1>1. CASE UNCHANGED overlayVars
  BY <1>1 DEF overlayVars
<1>2. CASE O!ChangeRouter
  <2>1. O!Providers \subseteq RouterVias
    BY DEF O!Providers, RouterVias
  <2>2. router' \in [via : RouterVias \cup {O!None}, works : BOOLEAN]
    <3>1. router' \in [via : O!Providers, works : BOOLEAN] \/ router' = O!NoRouter
      BY <1>2 DEF O!ChangeRouter
    <3>2. O!NoRouter \in [via : RouterVias \cup {O!None}, works : BOOLEAN]
      BY DEF O!NoRouter
    <3>3. [via : O!Providers, works : BOOLEAN]
            \subseteq [via : RouterVias \cup {O!None}, works : BOOLEAN]
      BY <2>1
    <3> QED
      BY <3>1, <3>2, <3>3
  <2>3. router'.via \in RouterVias \cup {O!None} /\ router'.works \in BOOLEAN
    BY <2>2
  <2> QED
    BY <1>2, <2>3 DEF O!ChangeRouter
<1>3. CASE O!Sicken
  BY <1>3 DEF O!Sicken, O!Healthy
<1>19. CASE O!Leaves
  BY <1>19 DEF O!Leaves
<1>20. \A a \in O!Starters :
         O!ToldToEnd(O!Stopped(a)) \subseteq RouterVias /\ O!ToldToEnd({saw[a]}) \subseteq RouterVias
  BY ToldType DEF O!Stopped
<1>4. CASE O!Boot
  BY <1>0, <1>4 DEF O!Boot, O!Go
<1>5. ASSUME NEW a \in O!Starters, O!Begin(a)
      PROVE  OverlayTyped'
  <2>1. PICK new \in Provided :
          /\ new # O!NoService /\ new.via = router.via
          /\ alive' = (alive \ O!Stopped(a)) \cup {new}
          /\ saw' = [saw EXCEPT ![a] = new]
    BY <1>5, BeginType
  <2>2. saw' \in [O!Starters -> Provided \cup {O!NoService}] /\ alive' \subseteq Provided
    BY <2>1
  <2>3. sick' \subseteq alive'
    BY <1>5, <2>1 DEF O!Begin
  <2>4. at' \in [O!Actors -> Stands] /\ mutex' \in O!Starters \cup {O!Nobody}
    BY <1>0, <1>5 DEF O!Begin, O!Go
  <2>5. service' \in Provided \cup {O!NoService}
    BY <1>5 DEF O!Begin
  <2>6. faults' \subseteq {"overtaken", "beside", "replaced"}
    BY <1>5 DEF O!Begin
  <2>7. leaving' \subseteq RouterVias
    BY <1>5, <1>20 DEF O!Begin
  <2> QED
    BY <1>5, <2>2, <2>3, <2>4, <2>5, <2>6, <2>7 DEF O!Begin
<1>6. ASSUME NEW a \in O!Starters, O!BeginFails(a)
      PROVE  OverlayTyped'
  <2>1. leaving' \subseteq RouterVias
    BY <1>6, <1>20 DEF O!BeginFails
  <2> QED
    BY <1>0, <1>6, <2>1 DEF O!BeginFails, O!Go, O!Released
<1>7. ASSUME NEW a \in O!Starters, O!Finish(a)
      PROVE  OverlayTyped'
  <2>1. saw[a].via \in RouterVias \cup {O!None}
    BY DEF Provided, O!NoService
  <2>2. key' \in KeyFiles
    <3>1. PICK k \in O!KeysFor(saw[a].via) : key' = [k EXCEPT !.named = TRUE]
      BY <1>7 DEF O!Finish
    <3>2. k \in KeyFiles
      BY <2>1, KeysForType
    <3> QED
      BY <3>1, <3>2 DEF KeyFiles
  <2>3. at' \in [O!Actors -> Stands] /\ saw' \in [O!Starters -> Provided \cup {O!NoService}]
    BY <1>0, <1>7 DEF O!Finish, O!Released
  <2>4. faults' \subseteq {"overtaken", "beside", "replaced"}
    BY <1>7 DEF O!Finish, O!Mishaps
  <2> QED
    BY <1>7, <2>2, <2>3, <2>4 DEF O!Finish, KeyFiles
<1>8. ASSUME NEW a \in O!Starters, O!BootFails(a)
      PROVE  OverlayTyped'
  <2>1. key' \in KeyFiles
    BY <1>8, KeysForType DEF O!BootFails, RouterVias
  <2>2. at' \in [O!Actors -> Stands] /\ saw' \in [O!Starters -> Provided \cup {O!NoService}]
    BY <1>0, <1>8 DEF O!BootFails, O!Go, O!Released
  <2>3. faults' \subseteq {"overtaken", "beside", "replaced"}
    BY <1>8 DEF O!BootFails, O!Mishaps
  <2>4. leaving' \subseteq RouterVias
    BY <1>8, <1>20 DEF O!BootFails
  <2> QED
    BY <1>8, <2>1, <2>2, <2>3, <2>4 DEF O!BootFails
<1>9. CASE O!TaskLooks
  BY <1>0, <1>9 DEF O!TaskLooks, O!Go
<1>10. CASE O!TaskAsks
  BY <1>0, <1>10 DEF O!TaskAsks, O!Go
<1>11. CASE O!ClearHost
  BY <1>0, <1>11 DEF O!ClearHost, O!Go
<1>12. CASE O!Cancel
  BY <1>0, <1>12 DEF O!Cancel
<1>13. CASE O!Close
  BY <1>0, <1>13 DEF O!Close, O!Go
<1>14. CASE O!Exit
  BY <1>0, <1>14 DEF O!Exit, O!Idle
<1>15. CASE O!CommandAsks
  BY <1>0, <1>15 DEF O!CommandAsks, O!Go
<1>16. CASE O!Regenerate
  <2>1. O!NoKey \in KeyFiles
    BY DEF O!NoKey, KeyFiles
  <2> QED
    BY <1>0, <1>16, <2>1 DEF O!Regenerate, O!Answered, O!Go
<1>17. ASSUME NEW name \in KeyNames \cup {O!Torn}, O!ImportKeys(name) \/ O!VanityApply(name)
       PROVE  OverlayTyped'
  <2>1. O!InstallHiddenServiceKey(name) \subseteq KeyFiles
    <3>1. [key EXCEPT !.named = FALSE] \in KeyFiles
      BY DEF KeyFiles
    <3>2. \A n \in {name, O!Torn} : [name |-> n, via |-> "tor", named |-> FALSE] \in KeyFiles
      BY DEF KeyFiles, RouterVias
    <3> QED
      BY <3>1, <3>2 DEF O!InstallHiddenServiceKey
  <2> QED
    <3>1. key' \in KeyFiles
      BY <1>17, <2>1 DEF O!ImportKeys, O!VanityApply, O!Answered
    <3>2. /\ at' = [at EXCEPT !["command"] = "idle"]
          /\ UNCHANGED <<net, router, server, cancelled, mutex, saw, service, alive, sick,
                         leaving, published, faults>>
      BY <1>17 DEF O!ImportKeys, O!VanityApply, O!Answered, O!Go
    <3> QED
      BY <1>0, <3>1, <3>2
<1>18. CASE O!CommandGivesUp
  BY <1>0, <1>18 DEF O!CommandGivesUp, O!Go
<1> QED
  BY <1>1, <1>2, <1>3, <1>4, <1>5, <1>6, <1>7, <1>8, <1>9, <1>10, <1>11, <1>12, <1>13, <1>14,
     <1>15, <1>16, <1>17, <1>18, <1>19 DEF O!Next

-----------------------------------------------------------------------------
(***************************************************************************)
(* Who runs beside whom                                                    *)
(***************************************************************************)

Turns == MutexHeld /\ OffIsIdle /\ CommandAlone

LEMMA TurnsStep == OverlayTyped /\ Turns /\ [O!Next]_overlayVars => Turns'
<1> SUFFICES ASSUME OverlayTyped, Turns, [O!Next]_overlayVars
             PROVE  Turns'
  OBVIOUS
<1> USE DEF Turns, MutexHeld, OffIsIdle, CommandAlone
<1>0. /\ at \in [O!Actors -> Stands]
      /\ O!Starters \subseteq O!Actors /\ "hook" \in O!Actors /\ "command" \in O!Actors
      /\ "hook" \notin O!Starters /\ "command" \notin O!Starters /\ O!Nobody \notin O!Starters
      /\ "starter" \in O!Starters /\ "monitor" \in O!Starters /\ "task" \in O!Starters
  BY DEF OverlayTyped, O!Starters, O!Actors, O!Nobody
<1>1. CASE UNCHANGED overlayVars
  BY <1>1 DEF overlayVars
<1>2. CASE O!ChangeRouter
  BY <1>2 DEF O!ChangeRouter
<1>3. CASE O!Sicken \/ O!Leaves
  BY <1>3 DEF O!Sicken, O!Leaves
<1>4. CASE O!Boot
  BY <1>0, <1>4 DEF O!Boot, O!Go
<1>5. ASSUME NEW a \in O!Starters, O!Begin(a) \/ O!BeginFails(a)
      PROVE  Turns'
  <2>1. at[a] # "idle" /\ at[a] # "boot" /\ mutex = O!Nobody
    BY <1>5 DEF O!Begin, O!BeginFails, O!Wants
  <2>2. /\ server' = server /\ server # "off" /\ published' = published
        /\ "beside" \in faults => "beside" \in faults'
    BY <1>0, <1>5, <2>1 DEF O!Begin, O!BeginFails
  <2>3. CASE O!Begin(a)
    BY <1>0, <2>1, <2>2, <2>3 DEF O!Begin, O!Go
  <2>4. CASE O!BeginFails(a)
    BY <1>0, <2>1, <2>2, <2>4 DEF O!BeginFails, O!Go, O!Released
  <2> QED
    BY <1>5, <2>3, <2>4
<1>6. ASSUME NEW a \in O!Starters, O!Finish(a) \/ O!BootFails(a)
      PROVE  Turns'
  <2>1. at[a] = "boot" /\ mutex = a /\ server # "off" /\ server' = server /\ mutex' = O!Nobody
    BY <1>0, <1>6 DEF O!Finish, O!BootFails
  <2>2. "beside" \in faults => "beside" \in faults'
    BY <1>6 DEF O!Finish, O!BootFails, O!Mishaps
  <2>3. \A b \in O!Starters \ {a} : at[b] # "boot"
    BY <2>1
  <2>4. /\ \A b \in O!Starters : at'[b] # "boot"
        /\ at'["command"] = at["command"]
    BY <1>0, <1>6, <2>3 DEF O!Finish, O!BootFails, O!Go, O!Released
  <2> QED
    BY <1>0, <2>1, <2>2, <2>4
<1>7. CASE O!TaskLooks
  BY <1>0, <1>7 DEF O!TaskLooks, O!Go
<1>8. CASE O!TaskAsks
  BY <1>0, <1>8 DEF O!TaskAsks, O!Go
<1>9. CASE O!ClearHost
  BY <1>0, <1>9 DEF O!ClearHost, O!Go
<1>10. CASE O!Cancel
  BY <1>0, <1>10 DEF O!Cancel
<1>11. CASE O!Close
  BY <1>0, <1>11 DEF O!Close, O!Go
<1>12. CASE O!Exit
  BY <1>0, <1>12 DEF O!Exit, O!Idle
<1>13. CASE O!CommandAsks
  <2>1. server = "off" \/ "beside" \in faults'
    BY <1>13 DEF O!CommandAsks, O!RequireStopped
  <2>2. /\ server' = server /\ mutex' = mutex /\ published' = published
        /\ at' = [at EXCEPT !["command"] = "ask"]
    BY <1>13 DEF O!CommandAsks, O!Go
  <2> QED
    BY <1>0, <2>1, <2>2
<1>14. ASSUME NEW keys, O!Answered(keys)
       PROVE  Turns'
  BY <1>0, <1>14 DEF O!Answered, O!Go
<1>15. CASE O!CommandGivesUp
  BY <1>0, <1>15 DEF O!CommandGivesUp, O!Go
<1> QED
  BY <1>1, <1>2, <1>3, <1>4, <1>5, <1>6, <1>7, <1>8, <1>9, <1>10, <1>11, <1>12, <1>13, <1>14,
     <1>15 DEF O!Next, O!Regenerate, O!ImportKeys, O!VanityApply

-----------------------------------------------------------------------------
(***************************************************************************)
(* What the manager has lost sight of                                      *)
(***************************************************************************)

LEMMA BootsAloneStep ==
  OverlayTyped /\ Turns /\ BootsAlone /\ [O!Next]_overlayVars => BootsAlone'
<1> SUFFICES ASSUME OverlayTyped, Turns, BootsAlone, [O!Next]_overlayVars,
"overtaken" \notin faults'
             PROVE  /\ \A a \in O!Starters : at'[a] = "boot" => service' = O!NoService
                    /\ \A s \in alive' : \/ s = service'
                                         \/ \E a \in O!Starters : at'[a] = "boot" /\ s = saw'[a]
  BY DEF BootsAlone
<1> DEFINE Goal == /\ \A a \in O!Starters : at'[a] = "boot" => service' = O!NoService
                   /\ \A s \in alive' :
                        s = service' \/ \E a \in O!Starters : at'[a] = "boot" /\ s = saw'[a]
<1>0. /\ at \in [O!Actors -> Stands] /\ saw \in [O!Starters -> Provided \cup {O!NoService}]
      /\ O!Starters \subseteq O!Actors /\ "hook" \in O!Actors /\ "command" \in O!Actors
      /\ "hook" \notin O!Starters /\ "command" \notin O!Starters /\ O!Nobody \notin O!Starters
      /\ "starter" \in O!Starters /\ "monitor" \in O!Starters /\ "task" \in O!Starters
  BY DEF OverlayTyped, O!Starters, O!Actors, O!Nobody
<1>a. "overtaken" \notin faults
  BY DEF O!Next, overlayVars, O!ChangeRouter, O!Sicken, O!Leaves, O!Boot, O!Begin, O!BeginFails, O!Finish,
         O!BootFails,
         O!TaskLooks, O!TaskAsks, O!ClearHost, O!Cancel, O!Close, O!Exit, O!CommandAsks,
         O!Regenerate, O!Answered,
         O!CommandGivesUp, O!ImportKeys, O!VanityApply, O!Mishaps
<1>b. /\ \A a \in O!Starters : at[a] = "boot" => service = O!NoService
      /\ \A s \in alive :
           s = service \/ \E a \in O!Starters : at[a] = "boot" /\ s = saw[a]
  BY <1>a DEF BootsAlone
<1>c. mutex = O!Nobody => alive \subseteq {service} /\ \A a \in O!Starters : at[a] # "boot"
  BY <1>0, <1>b DEF Turns, MutexHeld
<1>d. O!NoService \notin alive
  BY DEF OverlayTyped, Provided, O!NoService, RouterVias, O!None
\* Steps that leave the providers and who boots them alone.
<1>1. ASSUME service' = service, alive' \subseteq alive,
             \A a \in O!Starters : (at'[a] = "boot") = (at[a] = "boot"),
             \A a \in O!Starters : at[a] = "boot" => saw'[a] = saw[a]
      PROVE  Goal
  BY <1>1, <1>b
<1>2. CASE UNCHANGED overlayVars
  BY <1>1, <1>2 DEF overlayVars
<1>3. CASE O!ChangeRouter \/ O!Sicken \/ O!Leaves
  BY <1>1, <1>3 DEF O!ChangeRouter, O!Sicken, O!Leaves
<1>4. CASE O!Boot
  BY <1>0, <1>1, <1>4 DEF O!Boot, O!Go, Turns, OffIsIdle
<1>5. ASSUME NEW a \in O!Starters, O!Begin(a)
      PROVE  Goal
  <2>1. mutex = O!Nobody /\ (a = "starter" => service = O!NoService)
    BY <1>5 DEF O!Begin
  <2>2. PICK new \in Provided :
          /\ alive' = (alive \ O!Stopped(a)) \cup {new}
          /\ saw' = [saw EXCEPT ![a] = new]
    BY <1>5, BeginType
  <2>3. alive' = {new} /\ service' = O!NoService
    BY <1>5, <1>c, <1>d, <2>1, <2>2 DEF O!Begin, O!Stopped
  <2>4. at'[a] = "boot" /\ saw'[a] = new
    BY <1>0, <1>5, <2>2 DEF O!Begin, O!Go
  <2> QED
    BY <2>3, <2>4
<1>6. ASSUME NEW a \in O!Starters, O!BeginFails(a)
      PROVE  Goal
  <2>1. \A b \in O!Starters : at'[b] # "boot"
    BY <1>0, <1>6, <1>c DEF O!BeginFails, O!Go, O!Released
  <2>2. alive' \subseteq {service'}
    BY <1>6, <1>c DEF O!BeginFails, O!Stopped
  <2> QED
    BY <2>1, <2>2
<1>7. ASSUME NEW a \in O!Starters, O!Finish(a) \/ O!BootFails(a)
      PROVE  Goal
  <2>1. at[a] = "boot" /\ \A b \in O!Starters \ {a} : at[b] # "boot"
    BY <1>7 DEF O!Finish, O!BootFails, Turns, MutexHeld
  <2>2. \A b \in O!Starters : at'[b] # "boot"
    BY <1>0, <1>7, <2>1 DEF O!Finish, O!BootFails, O!Go, O!Released
  <2>3. service = O!NoService /\ alive \subseteq {saw[a]}
    BY <1>b, <1>d, <2>1
  <2>4. alive' \subseteq {service'}
    BY <1>7, <2>3 DEF O!Finish, O!BootFails
  <2> QED
    BY <2>2, <2>4
<1>8. CASE O!TaskLooks
  BY <1>0, <1>1, <1>8 DEF O!TaskLooks, O!Go
<1>9. CASE O!TaskAsks
  BY <1>0, <1>1, <1>9 DEF O!TaskAsks, O!Go
<1>10. CASE O!ClearHost
  BY <1>0, <1>1, <1>10 DEF O!ClearHost, O!Go
<1>11. CASE O!Cancel
  BY <1>0, <1>1, <1>11 DEF O!Cancel
<1>12. CASE O!Close
  <2>1. \A b \in O!Starters : at'[b] # "boot"
    BY <1>0, <1>12, <1>c DEF O!Close, O!Go
  <2> QED
    BY <1>12, <1>c, <2>1 DEF O!Close
<1>13. CASE O!Exit
  BY <1>0, <1>13 DEF O!Exit, O!Idle
<1>14. CASE O!CommandAsks
  BY <1>0, <1>1, <1>14 DEF O!CommandAsks, O!Go
<1>15. ASSUME NEW keys, O!Answered(keys)
       PROVE  Goal
  BY <1>0, <1>1, <1>15 DEF O!Answered, O!Go
<1>16. CASE O!CommandGivesUp
  BY <1>0, <1>1, <1>16 DEF O!CommandGivesUp, O!Go
<1> QED
  BY <1>2, <1>3, <1>4, <1>5, <1>6, <1>7, <1>8, <1>9, <1>10, <1>11, <1>12, <1>13, <1>14, <1>15,
     <1>16 DEF O!Next, O!Regenerate, O!ImportKeys, O!VanityApply

LEMMA CancelledStep ==
  OverlayTyped /\ Turns /\ CancelledIsSick /\ [O!Next]_overlayVars => CancelledIsSick'
<1> SUFFICES ASSUME OverlayTyped, Turns, CancelledIsSick, [O!Next]_overlayVars
             PROVE  CancelledIsSick'
  OBVIOUS
<1> USE DEF CancelledIsSick
<1>0. /\ at \in [O!Actors -> Stands]
      /\ O!Starters \subseteq O!Actors /\ "hook" \in O!Actors /\ "command" \in O!Actors
      /\ "hook" \notin O!Starters /\ "monitor" \in O!Starters /\ "task" \in O!Starters
  BY DEF OverlayTyped, O!Starters, O!Actors
<1>1. ASSUME cancelled' = cancelled, server' = server \/ server' = "off",
             at'["hook"] = at["hook"] \/ at'["hook"] \in {"idle", "cancel"},
             \A s \in alive' : s \in alive /\ (s \in sick => s \in sick'),
             cancelled => leaving' \subseteq leaving
      PROVE  CancelledIsSick'
  BY <1>1
<1>2. CASE UNCHANGED overlayVars
  BY <1>1, <1>2 DEF overlayVars
<1>3. CASE O!ChangeRouter \/ O!Sicken \/ O!Leaves
  BY <1>1, <1>3 DEF O!ChangeRouter, O!Sicken, O!Leaves
<1>14. \A a \in O!Starters :
         cancelled => O!ToldToEnd(O!Stopped(a)) = {} /\ O!ToldToEnd({saw[a]}) = {}
  BY ToldType DEF O!Stopped, OverlayTyped
<1>4. CASE O!Boot
  BY <1>0, <1>4 DEF O!Boot, O!Go, Turns, OffIsIdle, O!Actors, O!Starters
<1>5. ASSUME NEW a \in O!Starters, O!Begin(a)
      PROVE  CancelledIsSick'
  <2>1. PICK new \in Provided :
          /\ new.via = router.via /\ alive' = (alive \ O!Stopped(a)) \cup {new}
    BY <1>5, BeginType
  <2>2. cancelled => new.via = "sam"
    BY <1>5, <2>1 DEF O!Begin, O!Starts
  <2>3. at'["hook"] = at["hook"] /\ server' = server /\ cancelled' = cancelled
    BY <1>0, <1>5 DEF O!Begin, O!Go
  <2>4. \A s \in alive' : s = new \/ (s \in alive /\ (s \in sick => s \in sick'))
    BY <1>5, <2>1 DEF O!Begin
  <2>5. cancelled => leaving' = leaving
    BY <1>5, <1>14 DEF O!Begin
  <2> QED
    BY <2>2, <2>3, <2>4, <2>5
<1>6. ASSUME NEW a \in O!Starters, O!BeginFails(a) \/ O!Finish(a) \/ O!BootFails(a)
      PROVE  CancelledIsSick'
  <2>1. at'["hook"] = at["hook"] /\ server' = server /\ cancelled' = cancelled
    BY <1>0, <1>6 DEF O!BeginFails, O!Finish, O!BootFails, O!Go
  <2>2. \A s \in alive' : s \in alive /\ (s \in sick => s \in sick')
    BY <1>6 DEF O!BeginFails, O!Finish, O!BootFails
  <2>3. cancelled => leaving' \subseteq leaving
    BY <1>6, <1>14 DEF O!BeginFails, O!Finish, O!BootFails
  <2> QED
    BY <1>1, <2>1, <2>2, <2>3
<1>7. CASE O!TaskLooks \/ O!TaskAsks
  <2>1. at'["hook"] = at["hook"]
    BY <1>0, <1>7 DEF O!TaskLooks, O!TaskAsks, O!Go
  <2> QED
    BY <1>1, <1>7, <2>1 DEF O!TaskLooks, O!TaskAsks
<1>8. CASE O!ClearHost
  BY <1>0, <1>1, <1>8 DEF O!ClearHost, O!Go
<1>9. CASE O!Cancel
  BY <1>9 DEF O!Cancel
<1>10. CASE O!Close
  BY <1>0, <1>10 DEF O!Close, O!Go
<1>11. CASE O!Exit
  BY <1>0, <1>11 DEF O!Exit, O!Idle
<1>12. CASE O!CommandAsks \/ O!CommandGivesUp
  <2>1. at'["hook"] = at["hook"]
    BY <1>0, <1>12 DEF O!CommandAsks, O!CommandGivesUp, O!Go
  <2> QED
    BY <1>1, <1>12, <2>1 DEF O!CommandAsks, O!CommandGivesUp
<1>13. ASSUME NEW keys, O!Answered(keys)
       PROVE  CancelledIsSick'
  BY <1>0, <1>1, <1>13 DEF O!Answered, O!Go
<1> QED
  BY <1>2, <1>3, <1>4, <1>5, <1>6, <1>7, <1>8, <1>9, <1>10, <1>11, <1>12, <1>13
     DEF O!Next, O!Regenerate, O!ImportKeys, O!VanityApply

-----------------------------------------------------------------------------
(***************************************************************************)
(* The address that is published                                           *)
(***************************************************************************)

LEMMA PublishedStep ==
  OverlayTyped /\ Turns /\ O!PublishedIsKey /\ [O!Next]_overlayVars => O!PublishedIsKey'
<1> SUFFICES ASSUME OverlayTyped, Turns, O!PublishedIsKey, [O!Next]_overlayVars, faults' = {}
             PROVE  published' \in {O!None, key'.name}
  BY DEF O!PublishedIsKey
<1>1. faults = {}
  BY DEF O!Next, overlayVars, O!ChangeRouter, O!Sicken, O!Leaves, O!Boot, O!Begin, O!BeginFails, O!Finish,
         O!BootFails,
         O!TaskLooks, O!TaskAsks, O!ClearHost, O!Cancel, O!Close, O!Exit, O!CommandAsks,
         O!Regenerate, O!Answered,
         O!CommandGivesUp, O!ImportKeys, O!VanityApply, O!Mishaps
<1>2. published \in {O!None, key.name}
  BY <1>1 DEF O!PublishedIsKey
<1>3. CASE published' = published /\ key' = key
  BY <1>2, <1>3
<1>4. CASE published' = O!None
  BY <1>4
<1>5. ASSUME NEW a \in O!Starters, O!Finish(a)
      PROVE  published' \in {O!None, key'.name}
  BY <1>5 DEF O!Finish
\* A boot that fails may have saved a destination all the same: the first one,
\* or the one that was there.
<1>6. ASSUME NEW a \in O!Starters, O!BootFails(a)
      PROVE  published' \in {O!None, key'.name}
  <2>1. CASE key' \in O!KeysFor("sam")
    <3>1. key'.via = "sam" /\ (key.via = "sam" => key' = key)
      BY <2>1, KeysForType DEF RouterVias
    <3>2. key = O!NoKey \/ key' = key
      BY <1>6, <3>1 DEF O!BootFails, O!Mishaps
    <3> QED
      BY <1>2, <1>6, <3>2 DEF O!BootFails, O!NoKey
  <2> QED
    BY <1>3, <1>6, <2>1 DEF O!BootFails
\* A command that asked while no server ran still has none to disturb.
<1>7. ASSUME NEW keys, O!Answered(keys)
      PROVE  published' = O!None
  BY <1>1, <1>7 DEF O!Answered, Turns, CommandAlone, OffIsIdle
<1> QED
  BY <1>3, <1>4, <1>5, <1>6, <1>7
     DEF O!Next, overlayVars, O!ChangeRouter, O!Sicken, O!Leaves, O!Boot, O!Begin, O!BeginFails,
         O!TaskLooks, O!TaskAsks,
         O!ClearHost, O!Cancel, O!Close, O!Exit, O!CommandAsks, O!Regenerate, O!CommandGivesUp,
         O!ImportKeys,
         O!VanityApply

LEMMA OverlaySteps == OverlayOK /\ [O!Next]_overlayVars => OverlayOK'
BY OverlayTypeStep, TurnsStep, BootsAloneStep, CancelledStep, PublishedStep DEF OverlayOK, Turns

OverlayInv == part = "overlay" => OverlayOK

LEMMA OverlayInvariant == Spec => []OverlayInv
<1>1. Init => OverlayInv
  BY OverlayInit DEF Init, OverlayInv
<1>2. OverlayInv /\ [Next]_vars => OverlayInv'
  BY PartStep, OverlaySteps DEF OverlayInv
<1> QED
  BY <1>1, <1>2, PTL DEF Spec

\* Whoever starts a provider (Start, restart, the health task) and whatever
\* fails, each one that is alive and was not told to end is the manager's or is
\* being booted; after stopOverlays only sessions of a SAM bridge, or what the
\* context has killed, are, and nothing that was told to end before.
THEOREM NoneLost == Spec => []NoProviderLost
<1>1. OverlayInv => NoProviderLost
  BY DEF OverlayInv, OverlayOK, BootsAlone, CancelledIsSick, NoProviderLost, O!NoProviderLost
<1> QED
  BY <1>1, OverlayInvariant, PTL

\* What setOverlayHost has told the HTTP server is the address of the key on
\* disk, whatever boots fail and commands change the key between two servers,
\* as long as the PID file tells a command of the server that runs.
THEOREM KeyPublished == Spec => []PublishedIsKey
<1>1. OverlayInv => PublishedIsKey
  BY DEF OverlayInv, PublishedIsKey, OverlayOK
<1> QED
  BY <1>1, OverlayInvariant, PTL

-----------------------------------------------------------------------------
(***************************************************************************)
(* The OpenPGP keypair                                                     *)
(***************************************************************************)

KeysInv == part = "keys" => K!IInv

LEMMA KeysInvariant == Spec => []KeysInv
<1>0. K!BoundIsNat
  BY DEF K!BoundIsNat
<1>1. Init => KeysInv
  BY <1>0, K!InitIInv DEF Init, KeysInv
<1>2. KeysInv /\ [Next]_vars => KeysInv'
  BY <1>0, PartStep, K!NextIInv DEF KeysInv, keysVars, K!keysVars
<1> QED
  BY <1>1, <1>2, PTL DEF Spec

\* A key that pgp-key.asc has handed out stays readable, by the key or the one
\* retired before it, until a command gives it up; unless changes overlap, a
\* private key is cut short or generate finds one that a rotation left.
THEOREM HandedOutHeld == Spec => []KeysHeld
<1>1. KeysInv => KeysHeld
  BY K!IInvProperties DEF KeysInv, KeysHeld
<1> QED
  BY <1>1, KeysInvariant, PTL

\* keyservers.state and the rows of pgp_keys name only keyservers that took the
\* key, and export.state keeps every operator to one export an hour.
THEOREM RecordsAreTrue == Spec => []RecordsTrue
<1>1. KeysInv => RecordsTrue
  BY K!IInvProperties DEF KeysInv, RecordsTrue
<1> QED
  BY <1>1, KeysInvariant, PTL

-----------------------------------------------------------------------------
(***************************************************************************)
(* The command-line client                                                 *)
(***************************************************************************)

CommandInv == part = "command" => C!IInv

LEMMA CommandInvariant == Spec => []CommandInv
<1>0. C!BoundsAreNat
  BY DEF C!BoundsAreNat
<1>1. Init => CommandInv
  BY <1>0, C!InitIInv DEF Init, CommandInv
<1>2. CommandInv /\ [Next]_vars => CommandInv'
  BY <1>0, PartStep, C!NextIInv DEF CommandInv, commandVars, C!commandVars
<1> QED
  BY <1>1, <1>2, PTL DEF Spec

\* Requests are repeated, answers lost and the run is taken over by a new
\* binary: a command has changed the server once at most, and what it says of
\* that, if it says anything, is true.
THEOREM ChangesOnce == Spec => []ChangedOnce
<1>1. CommandInv => ChangedOnce
  BY DEF CommandInv, ChangedOnce, C!IInv
<1> QED
  BY <1>1, CommandInvariant, PTL

\* loadConfig saves no flag or variable over a server and a token of cli.yml that
\* were valid, and the wizard saves the address that its last good result was of,
\* unless the test was sent before an edit.
THEOREM SavedOutlives == Spec => []SavedKept
<1>1. CommandInv => SavedKept
  BY DEF CommandInv, SavedKept, C!IInv
<1> QED
  BY <1>1, CommandInvariant, PTL

\* updateGate lets no version pass that the document of the server rules out,
\* and installUpdate never leaves a binary that is not whole.
THEOREM GateKeeps == Spec => []GateHolds
<1>1. CommandInv => GateHolds
  BY DEF CommandInv, GateHolds, C!IInv
<1> QED
  BY <1>1, CommandInvariant, PTL

-----------------------------------------------------------------------------
(***************************************************************************)
(* Mails about failed runs                                                 *)
(***************************************************************************)

\* What a run has yet to raise: nothing of a failure, its failure at the end,
\* or the general event.
Plain    == {<<>>, <<"backup_complete">>, <<"update_available">>, <<"update_installed">>,
             <<"update_available", "update_installed">>}
Telling  == {<<"backup_failed">>, <<"backup_complete", "backup_failed">>,
             <<"ssl_expiring">>, <<"ssl_renewal_failed">>}
General  == {<<"scheduler_error">>}
Raised   == Plain \cup Telling \cup General
LaneSet  == [pc : {"idle", "runs", "general", "sends", "stuck", "over"}, task : M!Tasks \cup {""},
             end : [ok : BOOLEAN, events : Raised], rest : Raised]

\* Of a run, the mails about it and whether one was lost: a failure that is told
\* at all is yet to be raised, in particular or in general, or was mailed, or its
\* mail was lost.
Accounts(r, n, gone) ==
  /\ r.rest \in Telling \cup General => n = 0
  /\ r.pc = "runs" => r.rest \notin General
  /\ r.pc = "general" => r.rest \in General
  /\ r.pc \in {"sends", "stuck"} => r.rest # <<>>
  /\ r.pc # "idle" => r.task \in M!Tasks /\ r.end \in M!Told[r.task] \cup M!Untold[r.task]
  /\ r.pc = "idle" => n = 0
  /\ r.end.ok => r.rest \in Plain /\ n = 0
  /\ r.pc = "over" => r.rest = <<>>
  /\ r.task \in M!SuppressedSchedulerError =>
       /\ r.rest \notin General
       /\ r.pc # "idle" /\ ~r.end.ok /\ r.end \in M!Told[r.task] =>
            r.rest \in Telling \/ n = 1 \/ gone
  /\ r.task \notin M!SuppressedSchedulerError =>
       /\ r.rest \notin Telling
       /\ r.rest \in Plain /\ r.pc # "over" => n = 0
       /\ r.pc = "over" /\ ~r.end.ok => n = 1 \/ gone

MailOK ==
  /\ lane \in [Lanes -> LaneSet]
  /\ mails \in [Lanes -> {0, 1}]
  /\ lost \in [Lanes -> BOOLEAN]
  /\ \A l \in Lanes : Accounts(lane[l], mails[l], lost[l])

LEMMA EventNames ==
  /\ \A s \in Plain \ {<<>>} : Head(s) \notin M!Failures /\ Head(s) # "scheduler_error" /\ Tail(s) \in Plain
  /\ \A s \in Telling : /\ s # <<>> /\ Head(s) # "scheduler_error"
                        /\ \/ Head(s) \in M!Failures /\ Tail(s) = <<>>
                           \/ Head(s) \notin M!Failures /\ Tail(s) \in Telling
  /\ \A s \in General : s # <<>> /\ Head(s) = "scheduler_error" /\ Head(s) \in M!Failures /\ Tail(s) = <<>>
  /\ Plain \cap Telling = {} /\ Plain \cap General = {} /\ Telling \cap General = {}
  /\ <<>> \in Plain
<1>1. ASSUME NEW s \in Plain \ {<<>>}
      PROVE  Head(s) \notin M!Failures /\ Head(s) # "scheduler_error" /\ Tail(s) \in Plain
  <2>1. CASE s = <<"update_available", "update_installed">>
    <3>1. Head(s) = "update_available" /\ Tail(s) = <<"update_installed">>
      BY <2>1
    <3> QED
      BY <3>1 DEF Plain, M!Failures
  <2>2. ASSUME NEW e \in {"backup_complete", "update_available", "update_installed"}, s = <<e>>
        PROVE  Head(s) \notin M!Failures /\ Head(s) # "scheduler_error" /\ Tail(s) \in Plain
    <3>1. Head(s) = e /\ Tail(s) = <<>>
      BY <2>2
    <3> QED
      BY <3>1 DEF Plain, M!Failures
  <2> QED
    BY <2>1, <2>2 DEF Plain
<1>2. ASSUME NEW s \in Telling
      PROVE  /\ s # <<>> /\ Head(s) # "scheduler_error"
             /\ \/ Head(s) \in M!Failures /\ Tail(s) = <<>>
                \/ Head(s) \notin M!Failures /\ Tail(s) \in Telling
  <2>1. CASE s = <<"backup_complete", "backup_failed">>
    <3>1. s # <<>> /\ Head(s) = "backup_complete" /\ Tail(s) = <<"backup_failed">>
      BY <2>1
    <3> QED
      BY <3>1 DEF Telling, M!Failures
  <2>2. ASSUME NEW e \in {"backup_failed", "ssl_expiring", "ssl_renewal_failed"}, s = <<e>>
        PROVE  /\ s # <<>> /\ Head(s) # "scheduler_error"
               /\ Head(s) \in M!Failures /\ Tail(s) = <<>>
    <3>1. s # <<>> /\ Head(s) = e /\ Tail(s) = <<>>
      BY <2>2
    <3> QED
      BY <3>1 DEF M!Failures
  <2> QED
    BY <2>1, <2>2 DEF Telling
<1>3. ASSUME NEW s \in General
      PROVE  s # <<>> /\ Head(s) = "scheduler_error" /\ Head(s) \in M!Failures /\ Tail(s) = <<>>
  <2>1. s = <<"scheduler_error">>
    BY DEF General
  <2>2. s # <<>> /\ Head(s) = "scheduler_error" /\ Tail(s) = <<>>
    BY <2>1
  <2> QED
    BY <2>2 DEF M!Failures
<1>4. Plain \cap Telling = {} /\ Plain \cap General = {} /\ Telling \cap General = {}
  BY DEF Plain, Telling, General
<1> QED
  BY <1>1, <1>2, <1>3, <1>4 DEF Plain

LEMMA TaskEnds ==
  ASSUME NEW t \in M!Tasks, NEW end \in M!Told[t] \cup M!Untold[t]
  PROVE  /\ end.ok \in BOOLEAN /\ end.events \in Plain \cup Telling
         /\ end \in [ok : BOOLEAN, events : Raised]
         /\ end.ok => end.events \in Plain
         /\ t \notin M!SuppressedSchedulerError => end.events \in Plain
         /\ ~end.ok /\ t \in M!SuppressedSchedulerError /\ end \in M!Told[t] =>
              end.events \in Telling
<1> DEFINE Fits(ok, events) ==
      /\ ok \in BOOLEAN /\ events \in Plain \cup Telling
      /\ end = [ok |-> ok, events |-> events]
      /\ ok \/ t \notin M!SuppressedSchedulerError => events \in Plain
      /\ ~ok /\ t \in M!SuppressedSchedulerError /\ end \in M!Told[t] => events \in Telling
<1>0. \A ok \in BOOLEAN, events \in Plain \cup Telling :
        /\ end = M!End(ok, events)
        /\ ok \/ t \notin M!SuppressedSchedulerError => events \in Plain
        /\ ~ok /\ t \in M!SuppressedSchedulerError /\ end \in M!Told[t] => events \in Telling
        => \E o, e : Fits(o, e)
  BY DEF M!End
<1> HIDE DEF Fits
<1>1. \E ok, events : Fits(ok, events)
  <2>1. CASE t = "backup_daily"
    <3>1. CASE end \in M!DailyEnds
      BY <2>1, <3>1, <1>0 DEF M!DailyEnds, Plain, Telling, M!SuppressedSchedulerError
    <3>2. CASE end \notin M!DailyEnds
      <4>1. end \in M!Either(<<>>) \cup {M!End(FALSE, <<"backup_complete">>)} /\ end \notin M!Told[t]
        BY <2>1, <3>2 DEF M!Told, M!Untold
      <4> QED
        BY <4>1, <1>0 DEF M!Either, Plain, Telling
    <3> QED
      BY <3>1, <3>2
  <2>2. CASE t = "backup_hourly"
    <3>1. CASE end \in M!HourlyEnds
      BY <2>2, <3>1, <1>0 DEF M!HourlyEnds, Plain, Telling, M!SuppressedSchedulerError
    <3>2. CASE end \notin M!HourlyEnds
      <4>1. end = M!End(FALSE, <<>>) /\ end \notin M!Told[t]
        BY <2>2, <3>2 DEF M!Told, M!Untold
      <4> QED
        BY <4>1, <1>0 DEF Plain, Telling
    <3> QED
      BY <3>1, <3>2
  <2>3. CASE t = "ssl_renewal"
    <3>1. end \in M!RenewalEnds
      BY <2>3 DEF M!Told, M!Untold
    <3> QED
      BY <2>3, <3>1, <1>0 DEF M!RenewalEnds, Plain, Telling, M!SuppressedSchedulerError
  <2>4. CASE t \in {"update_check", "geoip_update"}
    <3>1. t \notin M!SuppressedSchedulerError
      BY <2>4 DEF M!SuppressedSchedulerError
    <3>2. end \in M!CheckEnds
      BY <2>4 DEF M!Told, M!Untold, M!CheckEnds
    <3> QED
      BY <3>1, <3>2, <1>0 DEF M!CheckEnds, M!Either, Plain, Telling
  <2> QED
    BY <2>1, <2>2, <2>3, <2>4 DEF M!Tasks
<1> PICK ok, events : Fits(ok, events)
  BY <1>1
<1>2. end.ok = ok /\ end.events = events
  BY DEF Fits
<1> QED
  BY <1>2 DEF Raised, Fits

\* One run goes on, the others stand still.
LEMMA LaneStep ==
  ASSUME MailOK, NEW l \in Lanes, NEW r \in LaneSet, NEW n \in {0, 1}, NEW gone \in BOOLEAN,
         lane' = [lane EXCEPT ![l] = r], mails' = [mails EXCEPT ![l] = n],
         lost' = [lost EXCEPT ![l] = gone], Accounts(r, n, gone)
  PROVE  MailOK'
<1>1. \A m \in Lanes : Accounts(lane'[m], mails'[m], lost'[m])
  BY DEF MailOK
<1> QED
  BY <1>1 DEF MailOK

LEMMA BeginStep ==
  ASSUME MailOK, NEW l \in Lanes, M!Begin(l)
  PROVE  MailOK'
<1>1. PICK t \in M!Tasks : \E end \in M!Told[t] \cup M!Untold[t] :
        lane' = [lane EXCEPT ![l] = [pc |-> "runs", task |-> t, end |-> end,
                                     rest |-> end.events]]
  BY DEF M!Begin
<1> PICK end \in M!Told[t] \cup M!Untold[t] :
       lane' = [lane EXCEPT ![l] = [pc |-> "runs", task |-> t, end |-> end,
                                    rest |-> end.events]]
  BY <1>1
<1>2. /\ lane[l] \in LaneSet /\ lane[l].pc = "idle" /\ mails[l] = 0 /\ lost[l] \in BOOLEAN
      /\ mails' = [mails EXCEPT ![l] = 0] /\ lost' = [lost EXCEPT ![l] = lost[l]]
  BY DEF M!Begin, M!At, MailOK, Accounts
<1>3. PICK r : r = [pc |-> "runs", task |-> t, end |-> end, rest |-> end.events]
  OBVIOUS
<1>4. r \in LaneSet
  BY <1>3, TaskEnds DEF LaneSet, Raised
<1>5. Accounts(r, 0, lost[l])
  BY <1>3, TaskEnds, EventNames DEF Accounts
<1> QED
  BY <1>1, <1>2, <1>3, <1>4, <1>5, LaneStep

\* What a run makes of its next event, which it gets through or not.
LEMMA PassStep ==
  ASSUME MailOK, NEW l \in Lanes, lane[l].pc \in {"runs", "general", "sends"},
         lane[l].rest # <<>>, NEW got \in BOOLEAN, M!Pass(l, got),
         lost' = [lost EXCEPT ![l] = lost[l] \/ ~got]
  PROVE  MailOK'
<1>1. lane[l] \in LaneSet /\ mails[l] \in {0, 1} /\ lost[l] \in BOOLEAN
      /\ Accounts(lane[l], mails[l], lost[l])
  BY DEF MailOK
<1>2. PICK pc \in {"over", "runs"} :
        pc = IF Head(lane[l].rest) = "scheduler_error" THEN "over" ELSE "runs"
  OBVIOUS
<1>3. lane[l].rest \in Raised /\ Tail(lane[l].rest) \in Raised
  BY <1>1, EventNames DEF LaneSet, Raised
<1>4. PICK r : r = [lane[l] EXCEPT !.pc = pc, !.rest = Tail(lane[l].rest)]
  OBVIOUS
<1>5. /\ r \in LaneSet /\ r.pc = pc /\ r.rest = Tail(lane[l].rest)
      /\ r.task = lane[l].task /\ r.end = lane[l].end
  BY <1>1, <1>3, <1>4 DEF LaneSet
<1>6. lane' = [lane EXCEPT ![l] = r]
  BY <1>2, <1>4 DEF M!Pass, M!Event, MailOK
<1>7. PICK n \in {0, 1} :
        n = IF got /\ Head(lane[l].rest) \in M!Failures THEN mails[l] + 1 ELSE mails[l]
  BY <1>1, <1>3, EventNames DEF Accounts, Raised
<1>8. /\ Head(lane[l].rest) \notin M!Failures => n = mails[l]
      /\ Head(lane[l].rest) \in M!Failures /\ got => n = mails[l] + 1
      /\ ~got => n = mails[l]
  BY <1>7
<1>9. mails' = [mails EXCEPT ![l] = n]
  BY <1>7 DEF M!Pass, M!Event, MailOK
<1>10. PICK gone \in BOOLEAN : gone = (lost[l] \/ ~got)
  BY <1>1
<1>11. (got \/ gone) /\ (lost[l] => gone)
  BY <1>10
<1>12. Accounts(r, n, gone)
  <2>1. CASE lane[l].rest \in Plain
    <3>1. /\ r.rest \in Plain /\ pc = "runs" /\ n = mails[l] /\ lane[l].pc # "general"
          /\ r.rest \notin Telling /\ r.rest \notin General
          /\ lane[l].rest \notin Telling /\ lane[l].rest \notin General
      BY <1>1, <1>2, <1>5, <1>7, <2>1, EventNames DEF Accounts
    <3> QED
      BY <1>1, <1>5, <1>10, <2>1, <3>1 DEF Accounts
  <2>2. CASE lane[l].rest \in Telling
    <3>1. /\ pc = "runs" /\ lane[l].pc # "general" /\ mails[l] = 0
          /\ r.task \in M!SuppressedSchedulerError
          /\ lane[l].rest \notin Plain /\ lane[l].rest \notin General
          /\ ~r.end.ok
      BY <1>1, <1>2, <1>5, <2>2, EventNames DEF Accounts
    <3>2. CASE Head(lane[l].rest) \in M!Failures
      <4>1. r.rest \in Plain /\ r.rest \notin Telling \cup General /\ r.rest = <<>>
        BY <1>5, <2>2, <3>2, EventNames
      <4>2. n = 1 \/ gone
        BY <3>1, <3>2, <1>8, <1>11
      <4> QED
        BY <1>1, <1>2, <1>5, <3>1, <4>1, <4>2 DEF Accounts
    <3>3. CASE Head(lane[l].rest) \notin M!Failures
      <4>1. r.rest \in Telling /\ r.rest \notin Plain \cup General /\ r.rest # <<>>
        BY <1>5, <2>2, <3>3, EventNames
      <4>2. n = 0
        BY <3>1, <3>3, <1>8
      <4> QED
        BY <1>1, <1>2, <1>5, <3>1, <4>1, <4>2 DEF Accounts
    <3> QED
      BY <3>2, <3>3
  <2>3. CASE lane[l].rest \in General
    <3>1. /\ pc = "over" /\ mails[l] = 0 /\ r.task \notin M!SuppressedSchedulerError
          /\ ~r.end.ok /\ r.rest = <<>> /\ r.rest \notin Telling \cup General
          /\ Head(lane[l].rest) \in M!Failures
      BY <1>1, <1>2, <1>5, <2>3, EventNames DEF Accounts
    <3>2. n = 1 \/ gone
      BY <3>1, <1>8, <1>11
    <3> QED
      BY <1>1, <1>5, <2>3, <3>1, <3>2 DEF Accounts
  <2> QED
    BY <1>3, <2>1, <2>2, <2>3 DEF Raised
<1> QED
  BY <1>5, <1>6, <1>9, <1>10, <1>12, LaneStep

LEMMA SendStep ==
  ASSUME MailOK, NEW l \in Lanes, M!Send(l)
  PROVE  MailOK'
<1>1. /\ lane[l] \in LaneSet /\ lane[l].pc \in {"runs", "general"} /\ lane[l].rest # <<>>
      /\ mails[l] \in {0, 1} /\ lost[l] \in BOOLEAN /\ Accounts(lane[l], mails[l], lost[l])
  BY DEF M!Send, MailOK
<1>2. CASE M!Sendable(l)
  <2>1. PICK r : r = [lane[l] EXCEPT !.pc = "sends"]
    OBVIOUS
  <2>2. /\ r \in LaneSet /\ r.pc = "sends" /\ r.rest = lane[l].rest
        /\ r.task = lane[l].task /\ r.end = lane[l].end
    BY <1>1, <2>1 DEF LaneSet
  <2>3. /\ lane' = [lane EXCEPT ![l] = r] /\ mails' = [mails EXCEPT ![l] = mails[l]]
        /\ lost' = [lost EXCEPT ![l] = lost[l]]
    BY <1>2, <2>1 DEF M!Send, MailOK
  <2>4. Accounts(r, mails[l], lost[l])
    BY <1>1, <2>2 DEF Accounts
  <2> QED
    BY <1>1, <2>2, <2>3, <2>4, LaneStep
<1>3. CASE ~M!Sendable(l)
  <2>1. M!Pass(l, FALSE) /\ lost' = [lost EXCEPT ![l] = lost[l] \/ ~FALSE]
    BY <1>3 DEF M!Send, M!Sendable, M!Dropped, MailOK
  <2> QED
    BY <1>1, <2>1, PassStep
<1> QED
  BY <1>2, <1>3

LEMMA DeliverStep ==
  ASSUME MailOK, NEW l \in Lanes, M!Deliver(l)
  PROVE  MailOK'
<1>1. lane[l].pc = "sends" /\ lane[l].rest # <<>>
  BY DEF M!Deliver, M!At, MailOK, Accounts
<1>2. PICK got \in BOOLEAN : got = M!Accepts
  BY DEF M!Accepts
<1>3. M!Pass(l, got) /\ lost' = [lost EXCEPT ![l] = lost[l] \/ ~got]
  BY <1>2 DEF M!Deliver
<1> QED
  BY <1>1, <1>3, PassStep

LEMMA StallStep ==
  ASSUME MailOK, NEW l \in Lanes, M!Stall(l)
  PROVE  MailOK'
<1>1. /\ lane[l] \in LaneSet /\ lane[l].pc = "sends"
      /\ mails[l] \in {0, 1} /\ lost[l] \in BOOLEAN /\ Accounts(lane[l], mails[l], lost[l])
  BY DEF M!Stall, M!At, MailOK
<1>2. PICK r : r = [lane[l] EXCEPT !.pc = "stuck"]
  OBVIOUS
<1>3. /\ r \in LaneSet /\ r.pc = "stuck" /\ r.rest = lane[l].rest
      /\ r.task = lane[l].task /\ r.end = lane[l].end
  BY <1>1, <1>2 DEF LaneSet
<1>4. /\ lane' = [lane EXCEPT ![l] = r] /\ mails' = [mails EXCEPT ![l] = mails[l]]
      /\ lost' = [lost EXCEPT ![l] = lost[l]]
  BY <1>2 DEF M!Stall, MailOK
<1>5. Accounts(r, mails[l], lost[l])
  BY <1>1, <1>3 DEF Accounts
<1> QED
  BY <1>1, <1>3, <1>4, <1>5, LaneStep

LEMMA FinishStep ==
  ASSUME MailOK, NEW l \in Lanes, M!Finish(l)
  PROVE  MailOK'
<1>1. /\ lane[l] \in LaneSet /\ lane[l].pc = "runs" /\ lane[l].rest = <<>>
      /\ mails[l] \in {0, 1} /\ lost[l] \in BOOLEAN /\ Accounts(lane[l], mails[l], lost[l])
  BY DEF M!Finish, M!At, MailOK
<1>2. PICK general \in BOOLEAN :
        general = (~lane[l].end.ok /\ lane[l].task \notin M!SuppressedSchedulerError)
  OBVIOUS
<1>3. PICK pc \in {"general", "over"}, rest \in Raised :
        /\ pc = IF general THEN "general" ELSE "over"
        /\ rest = IF general THEN <<"scheduler_error">> ELSE <<>>
  BY DEF Raised, General, Plain
<1>4. PICK r : r = [lane[l] EXCEPT !.pc = pc, !.rest = rest]
  OBVIOUS
<1>5. /\ r \in LaneSet /\ r.pc = pc /\ r.rest = rest
      /\ r.task = lane[l].task /\ r.end = lane[l].end
  BY <1>1, <1>3, <1>4 DEF LaneSet
<1>6. /\ lane' = [lane EXCEPT ![l] = r] /\ mails' = [mails EXCEPT ![l] = mails[l]]
      /\ lost' = [lost EXCEPT ![l] = lost[l]]
  BY <1>2, <1>3, <1>4 DEF M!Finish, MailOK
<1>7. <<"scheduler_error">> \in General /\ <<>> \in Plain
  BY DEF General, Plain
<1>8. Accounts(r, mails[l], lost[l])
  BY <1>1, <1>2, <1>3, <1>5, <1>7, EventNames DEF Accounts
<1> QED
  BY <1>1, <1>5, <1>6, <1>8, LaneStep

LEMMA MailSteps ==
  ASSUME MailOK, [M!Next]_mailVars
  PROVE  MailOK'
<1>1. CASE UNCHANGED mailVars
  BY <1>1 DEF mailVars, MailOK
<1>2. CASE M!Customize \/ M!Reset \/ M!Turn
  BY <1>2 DEF M!Customize, M!Reset, M!Turn, M!Retemplate, MailOK
<1> QED
  BY <1>1, <1>2, BeginStep, SendStep, DeliverStep, StallStep, FinishStep
  DEF M!Next

MailInv == part = "mail" => MailOK

LEMMA MailInvariant == Spec => []MailInv
<1>1. Init => MailInv
  <2>1. M!Idle \in LaneSet /\ M!Idle.pc = "idle" /\ M!Idle.rest = <<>> /\ M!Idle.task = ""
        /\ M!Idle.end.ok
    BY EventNames DEF M!Idle, M!End, LaneSet, Raised
  <2>2. "" \notin M!SuppressedSchedulerError
    BY DEF M!SuppressedSchedulerError
  <2>3. "" \notin M!Tasks /\ <<>> \in Plain /\ <<>> \notin General /\ <<>> \notin Telling
    BY EventNames DEF M!Tasks, Plain, General, Telling
  <2>4. Accounts(M!Idle, 0, FALSE)
    BY <2>1, <2>2, <2>3 DEF Accounts
  <2>5. ASSUME M!Init PROVE MailOK
    <3>1. lane = [l \in Lanes |-> M!Idle] /\ mails = [l \in Lanes |-> 0] /\ lost = [l \in Lanes |-> FALSE]
      BY <2>5 DEF M!Init
    <3> QED
      BY <2>1, <2>4, <3>1 DEF MailOK
  <2> QED
    BY <2>5 DEF Init, MailInv
<1>2. MailInv /\ [Next]_vars => MailInv'
  BY PartStep, MailSteps DEF MailInv
<1> QED
  BY <1>1, <1>2, PTL DEF Spec

\* The operator has at most one mail about the failure of a run, and one when the
\* run is over, its failure is of those that are told and no mail of it was lost:
\* suppressedSchedulerError and the events the tasks raise fit each other.
THEOREM FailuresTold == Spec => []ToldOnce
<1>1. ASSUME MailOK, NEW l \in Lanes
      PROVE  /\ mails[l] <= 1
             /\ M!At(l, "over") /\ ~lost[l] /\ ~lane[l].end.ok
                /\ lane[l].end \in M!Told[lane[l].task] => mails[l] = 1
  <2>1. mails[l] \in {0, 1} /\ Accounts(lane[l], mails[l], lost[l])
    BY <1>1 DEF MailOK
  <2>2. lane[l].pc = "over" => lane[l].rest \notin Telling
    BY <2>1, EventNames DEF Accounts
  <2>3. mails[l] <= 1
    BY <2>1
  <2> QED
    BY <2>1, <2>2, <2>3 DEF Accounts, M!At
<1>2. MailInv => ToldOnce
  BY <1>1 DEF MailInv, ToldOnce, M!ToldOnce
<1> QED
  BY <1>2, MailInvariant, PTL

-----------------------------------------------------------------------------
(***************************************************************************)
(* Service commands                                                        *)
(***************************************************************************)

Inits == DOMAIN V!newForInit
Steps == {"idle", "act", "write", "enable", "start", "stop", "disable", "remove", "own",
          "delete", "account"}
CommandSet == [verb : V!Verbs \cup {""}, at : Steps, outcome : {"", "ok", "failed"},
               step : Nat, owned : BOOLEAN, marked : BOOLEAN, alive : BOOLEAN, blind : BOOLEAN]

ServiceTyped ==
  /\ place \in [init : Inits, root : BOOLEAN]
  /\ dirs \subseteq {"config", "data", "logs"}
  /\ marker \in BOOLEAN /\ spared \in BOOLEAN
  /\ command \in CommandSet
  /\ command.at # "idle" => command.outcome = ""
  /\ command.at \in {"act", "write", "enable", "start"} => command.verb # "uninstall"

\* What an uninstall has come to: the server that did not outlive the stop stays
\* down, the directories go in their order, and the marker was read before them.
Uninstalling ==
  /\ command.verb = "uninstall" /\ ~command.alive =>
       /\ command.at \in {"disable", "remove", "own", "delete", "account"} => "running" \notin svc
       /\ command.at = "delete" => dirs \subseteq {V!Directories[i] : i \in command.step + 1 .. 3}
       /\ command.at = "account" => dirs = {}
  /\ command.at = "delete" => command.step \in 0 .. 2
  /\ command.at = "own" \/ (command.at = "remove" /\ place.init = "windows") => command.step = 0
  /\ command.at \in {"own", "delete", "account"} => "file" \notin svc \/ command.blind
  /\ command.at \in {"delete", "account"} => command.owned = command.marked
  /\ place.init = "windows" => ~marker /\ ~command.marked

ServiceOK == ServiceTyped /\ Uninstalling /\ V!UninstallSound
ServiceInv == part = "service" => ServiceOK

LEMMA IdleCommand ==
  V!Idle \in CommandSet /\ V!Idle.verb = "" /\ V!Idle.at = "idle" /\ V!Idle.outcome = ""
  /\ V!Idle.marked = FALSE
BY DEF V!Idle, CommandSet, Steps

LEMMA DetectedInits ==
  ASSUME NEW goos \in {"linux", "darwin", "windows", "bsd"}, NEW host,
         NEW init \in V!detect(goos, host)
  PROVE  init \in Inits
<1>1. Inits = {"systemd", "openrc", "sysvinit", "rcd", "runit", "launchd", "windows"}
  BY DEF Inits, V!newForInit
<1>2. CASE goos = "linux"
  <2>1. PICK i \in DOMAIN V!Precedence : init = V!Precedence[i]
    BY <1>2 DEF V!detect
  <2>2. i \in 1 .. 4
    BY DEF V!Precedence
  <2> QED
    BY <1>1, <2>1, <2>2 DEF V!Precedence
<1>3. CASE goos # "linux"
  BY <1>1, <1>3 DEF V!detect, V!Native
<1> QED
  BY <1>2, <1>3

\* The last step of every Uninstall takes the definition of the service away.
LEMMA RemovesFile ==
  ASSUME place.init \in Inits, NEW step \in Nat
  PROVE  /\ step + 1 = Len(V!Manager.remove) => "file" \in V!Manager.remove[step + 1]
         /\ place.init = "windows" => Len(V!Manager.remove) = 1
<1>0. Inits = {"systemd", "openrc", "sysvinit", "rcd", "runit", "launchd", "windows"}
  BY DEF Inits, V!newForInit
<1>1. CASE place.init \in {"systemd", "openrc", "sysvinit", "rcd"}
  <2>1. V!Manager \in {V!systemdManager, V!openrcManager, V!sysvinitManager, V!rcdManager}
    BY <1>1 DEF V!Manager, V!newForInit
  <2>2. /\ V!systemdManager.remove = <<{"file"}>> /\ V!openrcManager.remove = <<{"file"}>>
        /\ V!sysvinitManager.remove = <<{"file"}>> /\ V!rcdManager.remove = <<{"file"}>>
    BY DEF V!systemdManager, V!openrcManager, V!sysvinitManager, V!rcdManager, V!Ordinary
  <2> QED
    BY <1>1, <2>1, <2>2
<1>2. CASE place.init = "launchd"
  <2>1. V!Manager = V!launchdManager
    BY <1>2 DEF V!Manager, V!newForInit
  <2>2. V!launchdManager.remove = <<{"file"}>>
    BY DEF V!launchdManager, V!Ordinary
  <2> QED
    BY <1>2, <2>1, <2>2
<1>3. CASE place.init = "runit"
  <2>1. V!Manager = V!runitManager
    BY <1>3 DEF V!Manager, V!newForInit
  <2>2. V!runitManager.remove = <<{"enabled"}, {"file", "log"}>>
    BY DEF V!runitManager, V!Ordinary
  <2> QED
    BY <1>3, <2>1, <2>2
<1>4. CASE place.init = "windows"
  <2>1. V!Manager = V!windowsManager
    BY <1>4 DEF V!Manager, V!newForInit
  <2>2. V!windowsManager.remove = <<{"file", "enabled"}>>
    BY DEF V!windowsManager, V!Ordinary
  <2> QED
    BY <1>4, <2>1, <2>2
<1> QED
  BY <1>0, <1>1, <1>2, <1>3, <1>4

\* A command that has ended otherwise than well, or was no uninstall, promises nothing.
LEMMA EndedStep ==
  ASSUME ServiceOK, NEW c \in CommandSet, command' = c, c.at = "idle",
         c.verb # "uninstall" \/ c.outcome # "ok", c.marked \in {FALSE, command.marked},
         place' = place, dirs' \subseteq {"config", "data", "logs"}, marker' \in BOOLEAN,
         marker' => marker \/ place.init # "windows", spared' = spared
  PROVE  ServiceOK'
BY DEF ServiceOK, ServiceTyped, Uninstalling, V!UninstallSound

LEMMA RunServiceStep ==
  ASSUME ServiceOK, NEW v \in V!Verbs, V!runService(v)
  PROVE  ServiceOK'
<1>1. PICK c : /\ c = command'
               /\ c = V!Idle \/ c = [V!Idle EXCEPT !.verb = v, !.at = V!First[v]]
  BY DEF V!runService
<1>2. CASE c = V!Idle
  BY <1>1, <1>2, IdleCommand, EndedStep DEF V!runService, ServiceOK, ServiceTyped
<1>3. CASE c = [V!Idle EXCEPT !.verb = v, !.at = V!First[v]]
  <2>1. /\ V!First[v] \in {"act", "write", "stop"}
        /\ V!First[v] \in {"act", "write"} => v # "uninstall"
    BY DEF V!First, V!Verbs, V!Actions
  <2>2. PICK next \in {"act", "write", "stop"} : next = V!First[v]
    BY <2>1
  <2>3. /\ c \in CommandSet /\ c.verb = v /\ c.at = next /\ c.outcome = "" /\ c.marked = FALSE
    BY <1>3, <2>2, IdleCommand DEF CommandSet, Steps
  <2> QED
    BY <1>1, <2>1, <2>2, <2>3 DEF V!runService, ServiceOK, ServiceTyped, Uninstalling,
       V!UninstallSound
<1> QED
  BY <1>1, <1>2, <1>3

\* The command goes on to a step at which an uninstall promises nothing yet.
LEMMA ToFacts ==
  ASSUME ServiceTyped, NEW next \in Steps, V!To(next)
  PROVE  /\ command' \in CommandSet /\ command'.at = next /\ command'.step = 0
         /\ command'.verb = command.verb /\ command'.outcome = command.outcome
         /\ command'.owned = command.owned /\ command'.marked = command.marked
         /\ command'.alive = command.alive /\ command'.blind = command.blind
BY DEF ServiceTyped, V!To, CommandSet

LEMMA EndFacts ==
  ASSUME ServiceTyped, NEW outcome \in {"ok", "failed"}, V!End(outcome)
  PROVE  /\ command' \in CommandSet /\ command'.at = "idle" /\ command'.outcome = outcome
         /\ command'.verb = command.verb /\ command'.alive = command.alive
         /\ command'.marked = command.marked
<1>1. "idle" \in Steps
  BY DEF Steps
<1> QED
  BY <1>1 DEF ServiceTyped, V!End, CommandSet

LEMMA StepFacts ==
  ASSUME ServiceTyped, command' = [command EXCEPT !.step = @ + 1]
  PROVE  /\ command' \in CommandSet /\ command'.step = command.step + 1
         /\ command'.at = command.at
         /\ command'.verb = command.verb /\ command'.outcome = command.outcome
         /\ command'.owned = command.owned /\ command'.marked = command.marked
         /\ command'.alive = command.alive /\ command'.blind = command.blind
<1>1. command \in CommandSet
  BY DEF ServiceTyped
<1>2. command.step \in Nat
  BY <1>1 DEF CommandSet
<1>3. command.step + 1 \in Nat
  BY <1>2
<1> QED
  BY <1>1, <1>3 DEF ServiceTyped, CommandSet

LEMMA FailStep ==
  ASSUME ServiceOK, V!Fail
  PROVE  ServiceOK'
BY EndFacts, EndedStep DEF V!Fail, ServiceOK, ServiceTyped

LEMMA ActStep ==
  ASSUME ServiceOK, V!Act
  PROVE  ServiceOK'
BY EndFacts, EndedStep DEF V!Act, V!Host, V!Same, ServiceOK, ServiceTyped

LEMMA WriteStep ==
  ASSUME ServiceOK, V!Write
  PROVE  ServiceOK'
<1>1. /\ command' \in CommandSet /\ command'.at \in {"enable", "write"}
      /\ command'.verb = command.verb /\ command'.outcome = command.outcome
      /\ command'.marked = command.marked
  BY ToFacts, StepFacts DEF V!Write, ServiceOK, Steps
<1> QED
  BY <1>1 DEF V!Write, V!Host, V!Same, ServiceOK, ServiceTyped, Uninstalling, V!UninstallSound

LEMMA EnableStep ==
  ASSUME ServiceOK, V!Enable
  PROVE  ServiceOK'
<1>1. /\ command' \in CommandSet /\ command'.at = "start"
      /\ command'.verb = command.verb /\ command'.outcome = command.outcome
      /\ command'.marked = command.marked
  BY ToFacts DEF V!Enable, ServiceOK, Steps
<1> QED
  BY <1>1 DEF V!Enable, V!Host, V!Same, ServiceOK, ServiceTyped, Uninstalling, V!UninstallSound

LEMMA StartStep ==
  ASSUME ServiceOK, V!Start
  PROVE  ServiceOK'
BY EndFacts, EndedStep DEF V!Start, V!Host, V!Same, ServiceOK, ServiceTyped

LEMMA StopStep ==
  ASSUME ServiceOK, V!Stop
  PROVE  ServiceOK'
<1>1. PICK lives \in BOOLEAN : lives <=> "running" \in svc'
  <2>1. CASE "running" \in svc'
    BY <2>1
  <2>2. CASE "running" \notin svc'
    BY <2>2
  <2> QED
    BY <2>1, <2>2
<1>2. command' = [command EXCEPT !.at = "disable", !.alive = lives]
  BY <1>1 DEF V!Stop
<1>3. /\ command' \in CommandSet /\ command'.at = "disable" /\ command'.alive = lives
      /\ command'.verb = command.verb /\ command'.outcome = command.outcome
      /\ command'.marked = command.marked
  BY <1>2 DEF ServiceOK, ServiceTyped, CommandSet, Steps
<1> QED
  BY <1>1, <1>3 DEF V!Stop, V!Host, V!Same, ServiceOK, ServiceTyped, Uninstalling, V!UninstallSound

LEMMA DisableStep ==
  ASSUME ServiceOK, V!Disable
  PROVE  ServiceOK'
<1>1. CASE command.verb = "uninstall"
  <2>1. /\ command' \in CommandSet /\ command'.at = "remove" /\ command'.alive = command.alive
        /\ command'.step = 0
        /\ command'.verb = command.verb /\ command'.outcome = command.outcome
        /\ command'.marked = command.marked
    BY <1>1, ToFacts DEF V!Disable, ServiceOK, Steps
  <2> QED
    BY <1>1, <2>1 DEF V!Disable, V!Host, V!Same, ServiceOK, ServiceTyped, Uninstalling,
       V!UninstallSound
<1>2. CASE command.verb # "uninstall"
  BY <1>2, EndFacts, EndedStep DEF V!Disable, V!Host, V!Same, ServiceOK, ServiceTyped
<1> QED
  BY <1>1, <1>2

LEMMA RemoveStep ==
  ASSUME ServiceOK, V!Remove
  PROVE  ServiceOK'
<1>0. command.at = "remove" /\ command.outcome = ""
  BY DEF V!Remove, ServiceOK, ServiceTyped
<1>1. CASE place.init = "windows" /\ command' = [command EXCEPT !.at = "own", !.blind = TRUE]
  <2>1. /\ command' \in CommandSet /\ command'.at = "own" /\ command'.alive = command.alive
        /\ command'.verb = command.verb /\ command'.outcome = command.outcome
        /\ command'.marked = command.marked /\ command'.blind = TRUE
        /\ command'.step = command.step
    BY <1>1 DEF ServiceOK, ServiceTyped, CommandSet, Steps
  <2>2. svc' \subseteq svc
    BY DEF V!Remove
  <2>3. place.init = "windows"
    BY <1>1
  <2> QED
    BY <1>0, <2>1, <2>2, <2>3 DEF V!Remove, V!Host, V!Same, ServiceOK, ServiceTyped, Uninstalling,
       V!UninstallSound
<1>2. CASE /\ command.step + 1 = Len(V!Manager.remove)
           /\ svc' = svc \ V!Manager.remove[command.step + 1]
           /\ command' = [command EXCEPT !.at = "own", !.step = 0]
  <2>1. /\ command' \in CommandSet /\ command'.at = "own" /\ command'.alive = command.alive
        /\ command'.verb = command.verb /\ command'.outcome = command.outcome
        /\ command'.marked = command.marked /\ command'.step = 0
    BY <1>2 DEF ServiceOK, ServiceTyped, CommandSet, Steps
  <2>2. "file" \in V!Manager.remove[command.step + 1]
    BY <1>2, RemovesFile DEF ServiceOK, ServiceTyped, CommandSet
  <2>3. "file" \notin svc' /\ svc' \subseteq svc
    BY <1>2, <2>2
  <2> QED
    BY <1>0, <2>1, <2>3 DEF V!Remove, V!Host, V!Same, ServiceOK, ServiceTyped, Uninstalling,
       V!UninstallSound
<1>3. CASE /\ command.step + 1 # Len(V!Manager.remove)
           /\ command' = [command EXCEPT !.step = @ + 1]
  <2>1. svc' \subseteq svc
    BY DEF V!Remove
  <2>2. place.init # "windows"
    <3>1. command.step \in Nat /\ place.init \in Inits
      BY DEF ServiceOK, ServiceTyped, CommandSet
    <3>2. place.init = "windows" => command.step = 0 /\ Len(V!Manager.remove) = 1
      BY <1>0, <3>1, RemovesFile DEF ServiceOK, Uninstalling
    <3>3. command.step + 1 # Len(V!Manager.remove)
      BY <1>3
    <3> SUFFICES ASSUME place.init = "windows" PROVE FALSE
      OBVIOUS
    <3>4. command.step = 0 /\ Len(V!Manager.remove) = 1
      BY <3>2
    <3>5. command.step + 1 = 1
      BY <3>4
    <3> QED
      BY <3>3, <3>4, <3>5
  <2> QED
    BY <1>0, <1>3, <2>1, <2>2, StepFacts DEF V!Remove, V!Host, V!Same, ServiceOK, ServiceTyped,
       Uninstalling, V!UninstallSound
<1> QED
  BY <1>1, <1>2, <1>3 DEF V!Remove

LEMMA OwnStep ==
  ASSUME ServiceOK, V!Own
  PROVE  ServiceOK'
<1>1. command' = [command EXCEPT !.at = "delete", !.owned = marker, !.marked = marker]
  BY DEF V!Own, V!Looked, V!ownsServiceAccount
<1>2. /\ command' \in CommandSet /\ command'.at = "delete" /\ command'.alive = command.alive
      /\ command'.verb = command.verb /\ command'.outcome = command.outcome
      /\ command'.owned = marker /\ command'.marked = marker /\ command'.blind = command.blind
      /\ command'.step = command.step
  BY <1>1 DEF ServiceOK, ServiceTyped, CommandSet, Steps
<1>3. command.step = 0 /\ command.at = "own" /\ marker \in BOOLEAN
  BY DEF V!Own, ServiceOK, ServiceTyped, Uninstalling
<1>4. {V!Directories[i] : i \in 1 .. 3} = {"config", "data", "logs"}
  BY DEF V!Directories
<1>5. command'.step + 1 = 1
  BY <1>2, <1>3
<1>6. {"config", "data", "logs"} \subseteq {V!Directories[i] : i \in command'.step + 1 .. 3}
  BY <1>4, <1>5
<1>7. /\ place' = place /\ dirs' = dirs /\ svc' = svc /\ marker' = marker
      /\ spared' = spared /\ account' = account
  BY DEF V!Own, V!Same
<1>8. ServiceTyped'
  BY <1>2, <1>3, <1>7 DEF ServiceOK, ServiceTyped
<1>9. /\ command.outcome = "" /\ ("file" \notin svc \/ command.blind) /\ spared
      /\ command.verb = "uninstall" /\ ~command.alive => "running" \notin svc
      /\ place.init = "windows" => ~marker
      /\ dirs \subseteq {"config", "data", "logs"}
  BY <1>3 DEF ServiceOK, ServiceTyped, Uninstalling, V!UninstallSound
<1>10. command'.step \in 0 .. 2
  BY <1>2, <1>3
<1>11. Uninstalling'
  BY <1>2, <1>6, <1>7, <1>9, <1>10 DEF Uninstalling
<1>12. V!UninstallSound'
  BY <1>2, <1>7, <1>9 DEF V!UninstallSound
<1> QED
  BY <1>8, <1>11, <1>12 DEF ServiceOK

LEMMA DeleteStep ==
  ASSUME ServiceOK, V!Delete
  PROVE  ServiceOK'
<1>1. /\ command.at = "delete" /\ command.step \in 0 .. 2 /\ command.outcome = "" /\ spared
      /\ "file" \notin svc \/ command.blind
      /\ command.owned = command.marked /\ marker \in BOOLEAN
      /\ command.verb = "uninstall" /\ ~command.alive =>
           /\ "running" \notin svc
           /\ dirs \subseteq {V!Directories[i] : i \in command.step + 1 .. 3}
      /\ place.init = "windows" => ~marker /\ ~command.marked
      /\ dirs \subseteq {"config", "data", "logs"}
      /\ place' = place /\ svc' = svc /\ spared' = spared
  BY DEF V!Delete, V!Same, ServiceOK, ServiceTyped, Uninstalling, V!UninstallSound
<1>2. PICK dir : dir = V!Directories[command.step + 1]
  OBVIOUS
<1>3. CASE /\ dir \in dirs /\ V!End("failed") /\ dirs' = dirs
           /\ marker' \in {marker, marker /\ dir # "data"}
  <2>1. marker' \in BOOLEAN /\ (marker' => marker)
    BY <1>1, <1>3
  <2> QED
    BY <1>1, <1>3, <2>1, EndFacts, EndedStep DEF ServiceOK
<1>4. CASE /\ dirs' = dirs \ {dir} /\ marker' = (marker /\ dir # "data")
           /\ IF command.step + 1 = Len(V!Directories) THEN V!To("account")
              ELSE command' = [command EXCEPT !.step = @ + 1]
  <2>1. marker' \in BOOLEAN /\ (marker' => marker)
    BY <1>1, <1>4
  <2>2. Len(V!Directories) = 3
    BY DEF V!Directories
  <2>3. CASE command.step = 2
    <3>1. V!To("account")
      BY <1>4, <2>2, <2>3
    <3>2. /\ command' \in CommandSet /\ command'.at = "account"
          /\ command'.verb = command.verb /\ command'.outcome = command.outcome
          /\ command'.owned = command.owned /\ command'.marked = command.marked
          /\ command'.alive = command.alive /\ command'.blind = command.blind
      BY <3>1, ToFacts DEF ServiceOK, Steps
    <3>3. {V!Directories[i] : i \in 3 .. 3} = {dir}
      BY <1>2, <2>3
    <3>4. command.step + 1 = 3
      BY <2>3
    <3>5. command.verb = "uninstall" /\ ~command.alive => dirs' = {}
      BY <1>1, <1>4, <3>3, <3>4
    <3>6. ServiceTyped'
      BY <1>1, <1>4, <2>1, <3>2 DEF ServiceOK, ServiceTyped
    <3>7. Uninstalling'
      BY <1>1, <2>1, <3>2, <3>5 DEF Uninstalling
    <3>8. V!UninstallSound'
      BY <1>1, <3>2 DEF V!UninstallSound
    <3> QED
      BY <3>6, <3>7, <3>8 DEF ServiceOK
  <2>4. CASE command.step # 2
    <3> PICK k \in 0 .. 2 : k = command.step
      BY <1>1
    <3>0. k # 2 /\ k + 1 # 3 /\ k + 1 \in 0 .. 2 /\ command.step + 1 # 3
      BY <2>4
    <3>1. command' = [command EXCEPT !.step = @ + 1]
      BY <1>4, <2>2, <3>0
    <3>2. /\ command' \in CommandSet /\ command'.at = "delete"
          /\ command'.step = command.step + 1
          /\ command'.verb = command.verb /\ command'.outcome = command.outcome
          /\ command'.owned = command.owned /\ command'.marked = command.marked
          /\ command'.alive = command.alive /\ command'.blind = command.blind
      BY <1>1, <3>1, StepFacts DEF ServiceOK
    <3>3. command'.step \in 0 .. 2
      BY <3>2, <3>0
    <3>9. \A i \in k + 1 .. 3 : i = k + 1 \/ i \in (k + 1) + 1 .. 3
      OBVIOUS
    <3>4. \A i \in command.step + 1 .. 3 : i = command.step + 1 \/ i \in command'.step + 1 .. 3
      BY <3>2, <3>9
    <3>5. command.verb = "uninstall" /\ ~command.alive =>
            dirs' \subseteq {V!Directories[i] : i \in command'.step + 1 .. 3}
      BY <1>1, <1>2, <1>4, <3>4
    <3>6. ServiceTyped'
      BY <1>1, <1>4, <2>1, <3>2 DEF ServiceOK, ServiceTyped
    <3>7. Uninstalling'
      BY <1>1, <2>1, <3>2, <3>3, <3>5 DEF Uninstalling
    <3>8. V!UninstallSound'
      BY <1>1, <3>2 DEF V!UninstallSound
    <3> QED
      BY <3>6, <3>7, <3>8 DEF ServiceOK
  <2> QED
    BY <2>3, <2>4
<1> QED
  BY <1>2, <1>3, <1>4 DEF V!Delete

LEMMA AccountStep ==
  ASSUME ServiceOK, V!Account
  PROVE  ServiceOK'
<1>1. /\ command.at = "account" /\ command.owned = command.marked /\ spared /\ spared \in BOOLEAN
      /\ command.verb = "uninstall" => command.alive \/ dirs = {}
      /\ place.init = "windows" => ~command.marked
      /\ V!Looked = command.owned
      /\ place' = place /\ svc' = svc /\ dirs' = dirs /\ marker' = marker
  BY DEF V!Account, V!Looked, V!ownsServiceAccount, ServiceOK, ServiceTyped, Uninstalling,
     V!UninstallSound
<1>2. /\ command' \in CommandSet /\ command'.at = "idle" /\ command'.outcome = "ok"
      /\ command'.verb = command.verb /\ command'.alive = command.alive
      /\ command'.marked = command.marked
  BY EndFacts DEF V!Account, ServiceOK
<1>3. CASE command.marked
  <2>1. account' \in V!DeleteServiceAccount /\ place.init # "windows"
    BY <1>1, <1>3 DEF V!Account
  <2>2. account' \notin {"ours", "theirs"}
    BY <2>1 DEF V!DeleteServiceAccount
  <2>3. spared' = spared
    BY <1>1, <1>3 DEF V!Account
  <2> QED
    BY <1>1, <1>2, <2>2, <2>3 DEF ServiceOK, ServiceTyped, Uninstalling, V!UninstallSound
<1>4. CASE ~command.marked
  <2>1. account' = account
    BY <1>1, <1>4 DEF V!Account
  <2>2. spared' = spared
    BY <1>1, <2>1 DEF V!Account
  <2> QED
    BY <1>1, <1>2, <1>4, <2>2 DEF ServiceOK, ServiceTyped, Uninstalling, V!UninstallSound
<1> QED
  BY <1>3, <1>4

\* The server and the operator, when no command runs and beside one.
LEMMA BesideStep ==
  ASSUME ServiceOK, V!Forget, V!Same, svc' \subseteq svc,
         dirs' \subseteq {"config", "data", "logs"}, marker' \in BOOLEAN,
         marker' => marker \/ place.init # "windows", dirs' = dirs \/ "running" \in svc
  PROVE  ServiceOK'
<1>1. CASE command.at = "idle"
  BY <1>1, IdleCommand, EndedStep DEF V!Forget, V!Same
<1>2. CASE command.at # "idle"
  BY <1>2 DEF V!Forget, V!Same, ServiceOK, ServiceTyped, Uninstalling, V!UninstallSound
<1> QED
  BY <1>1, <1>2

LEMMA WorldStep ==
  ASSUME ServiceOK, V!Serves \/ V!Dies \/ V!CreateServiceAccount
  PROVE  ServiceOK'
<1>1. CASE V!Serves
  BY <1>1, BesideStep DEF V!Serves, V!Same, ServiceOK, ServiceTyped
<1>2. CASE V!Dies
  BY <1>2, BesideStep DEF V!Dies, V!Host, V!Same, ServiceOK, ServiceTyped
<1>3. CASE V!CreateServiceAccount
  BY <1>3, BesideStep DEF V!CreateServiceAccount, V!Same, ServiceOK, ServiceTyped
<1> QED
  BY <1>1, <1>2, <1>3

LEMMA AdministerStep ==
  ASSUME ServiceOK, V!Administer
  PROVE  ServiceOK'
<1>1. CASE command.at = "idle"
  BY <1>1, IdleCommand, EndedStep DEF V!Administer, V!Forget, ServiceOK, ServiceTyped
<1>2. CASE command.at # "idle"
  BY <1>2 DEF V!Administer, V!Forget, ServiceOK, ServiceTyped, Uninstalling, V!UninstallSound
<1> QED
  BY <1>1, <1>2

LEMMA ServiceSteps ==
  ASSUME ServiceOK, [V!Next]_serviceVars
  PROVE  ServiceOK'
<1>1. CASE UNCHANGED serviceVars
  <2>1. ServiceTyped'
    BY <1>1 DEF serviceVars, ServiceOK, ServiceTyped
  <2>2. Uninstalling'
    BY <1>1 DEF serviceVars, ServiceOK, Uninstalling, V!Directories
  <2>3. V!UninstallSound'
    BY <1>1 DEF serviceVars, ServiceOK, V!UninstallSound
  <2> QED
    BY <2>1, <2>2, <2>3 DEF ServiceOK
<1>2. CASE \E v \in V!Verbs : V!runService(v)
  BY <1>2, RunServiceStep
<1>3. CASE V!Fail \/ V!Act \/ V!Write \/ V!Enable \/ V!Start \/ V!Stop \/ V!Disable
  BY <1>3, FailStep, ActStep, WriteStep, EnableStep, StartStep, StopStep, DisableStep
<1>4. CASE V!Remove \/ V!Own \/ V!Delete \/ V!Account
  BY <1>4, RemoveStep, OwnStep, DeleteStep, AccountStep
<1>5. CASE V!Serves \/ V!Dies \/ V!CreateServiceAccount
  BY <1>5, WorldStep
<1> QED
  BY <1>1, <1>2, <1>3, <1>4, <1>5, AdministerStep DEF V!Next

LEMMA ServiceInvariant == Spec => []ServiceInv
<1>1. Init => ServiceInv
  <2>1. ASSUME V!Init PROVE ServiceOK
    <3>1. place \in [init : Inits, root : BOOLEAN]
      BY <2>1, DetectedInits DEF V!Init
    <3> QED
      BY <2>1, <3>1, IdleCommand DEF V!Init, ServiceOK, ServiceTyped, Uninstalling, V!UninstallSound
  <2> QED
    BY <2>1 DEF Init, ServiceInv
<1>2. ServiceInv /\ [Next]_vars => ServiceInv'
  BY PartStep, ServiceSteps DEF ServiceInv
<1> QED
  BY <1>1, <1>2, PTL DEF Spec

\* An uninstall that reports success has deleted what it says, wherever earlier
\* ones failed: the marker is read before its directory goes, the service is
\* taken away before the directories, and no account without a marker is.
THEOREM UninstallsSound == Spec => []UninstallSound
<1>1. ServiceInv => UninstallSound
  BY DEF ServiceInv, ServiceOK, UninstallSound
<1> QED
  BY <1>1, ServiceInvariant, PTL

-----------------------------------------------------------------------------
(***************************************************************************)
(* server.yml and its settings                                             *)
(***************************************************************************)

\* A range of the table and the default that replaces what is out of it.
Fits(r, v) == r.low \in Nat /\ r.high \in Nat /\ v \in r.low .. r.high

\* A copy of server.yml.
Numbers == {n \in Int : n >= -3}
Confs == [number : Numbers, base : {"own", "run"}, host : {"none", "op", "found"},
          branch : {"stable", "beta"}, token : Nat, key : Nat]
BootSteps == {"ensure", "save", "overlay", "mail", "saveMail", "up"}

BootSet == {S!Down} \cup [pc : BootSteps, conf : Confs, given : BOOLEAN]
ChangeSet == {S!Down} \cup [pc : {"down"}, conf : Confs, given : BOOLEAN]

SettingsTyped ==
  /\ setting \in Followed \cup {"none"}
  /\ yml = S!NoYml \/ yml \in Confs
  /\ proc \in [Booters -> BootSet] /\ changer \in ChangeSet
  /\ keysMade \in Nat /\ overlaid \in BOOLEAN /\ raced \in BOOLEAN
  /\ chosen \in [number : Numbers, host : {"none", "op", "found"}, branch : {"stable", "beta"},
                 token : Nat]

\* A copy that may be written back holds what was asked for, ...
Keeps(c) ==
  /\ setting # "none" /\ S!Legal(chosen.number) => c.number = chosen.number
  /\ chosen.host # "none" => c.host = chosen.host
  /\ chosen.token # 0 => c.token = chosen.token
FileKept ==
  /\ Keeps(S!Load) /\ S!Load.branch = chosen.branch
  /\ S!Load.base = "run" => overlaid /\ S!Load.host = "found"
ChangerKept ==
  changer # S!Down =>
    /\ Keeps(changer.conf) /\ changer.conf.branch = "beta" /\ changer.conf.key = S!Load.key
    /\ changer.conf.base = "run" => overlaid /\ changer.conf.host = "found"
\* ... and the key of the file, once there is one.
Started(r) ==
  /\ r.pc \in BootSteps \ {"up"} => Keeps(r.conf) /\ r.conf.branch = chosen.branch
  /\ r.pc \in {"ensure", "save", "overlay"} /\ r.conf.base = "run" => r.conf.host = "found"
  /\ r.pc = "saveMail" => r.conf.host = "found"
  /\ r.pc = "ensure" => r.conf.key = S!Load.key
  /\ r.pc = "save" => r.conf.key # 0 /\ (S!Load.key # 0 => r.conf.key = S!Load.key)
  /\ r.pc \in {"overlay", "mail", "saveMail", "up"} =>
       yml # S!NoYml /\ r.conf.key # 0 /\ r.conf.key = yml.key
SealedKept == \A k \in sealed : k # 0 /\ yml # S!NoYml /\ yml.key = k
Kept == FileKept /\ ChangerKept /\ SealedKept /\ \A q \in Booters : Started(proc[q])

SettingsOK == SettingsTyped /\ (~raced => Kept)
SettingsInv == part = "settings" => SettingsOK

\* No table of defaults hides another, and each default is in its range.
Fitting(ranges, defaults, before) ==
  \A s \in DOMAIN ranges :
    /\ s \in DOMAIN defaults /\ s \notin before
    /\ Fits(ranges[s], defaults[s])

LEMMA DefaultsFit ==
  LET before == DOMAIN S!ServerDefaults
      web == before \cup DOMAIN S!WebDefaults
      notes == web \cup DOMAIN S!NotificationDefaults
      tor == notes \cup DOMAIN S!TorDefaults
  IN
  /\ Fitting(S!ServerRanges, S!ServerDefaults, {})
  /\ Fitting(S!SecurityRanges, S!WebDefaults, before)
  /\ Fitting(S!WebRanges, S!WebDefaults, before)
  /\ Fitting(S!NotificationRanges, S!NotificationDefaults, web)
  /\ Fitting(S!BackupRanges, S!ServerDefaults, {})
  /\ Fitting(S!UpdateRanges, S!ServerDefaults, {})
  /\ Fitting(S!TorRanges, S!TorDefaults, notes)
  /\ Fitting(S!I2PRanges, S!I2PDefaults, tor)
<1>1. Fitting(S!ServerRanges, S!ServerDefaults, {})
  BY DEF Fitting, Fits, S!Range, S!From, S!OneOf, S!validPort, S!ServerRanges, S!ServerDefaults
<1>2. Fitting(S!SecurityRanges, S!WebDefaults, DOMAIN S!ServerDefaults)
  BY DEF Fitting, Fits, S!Range, S!From, S!OneOf, S!validPort, S!SecurityRanges, S!WebDefaults, S!ServerDefaults
<1>3. Fitting(S!WebRanges, S!WebDefaults, DOMAIN S!ServerDefaults)
  BY DEF Fitting, Fits, S!Range, S!From, S!OneOf, S!validPort, S!WebRanges, S!WebDefaults, S!ServerDefaults
<1>4. Fitting(S!NotificationRanges, S!NotificationDefaults, DOMAIN S!ServerDefaults \cup DOMAIN S!WebDefaults)
  BY DEF Fitting, Fits, S!Range, S!From, S!OneOf, S!validPort, S!NotificationRanges, S!NotificationDefaults, S!ServerDefaults, S!WebDefaults
<1>5. Fitting(S!BackupRanges, S!ServerDefaults, {})
  BY DEF Fitting, Fits, S!Range, S!From, S!OneOf, S!validPort, S!BackupRanges, S!ServerDefaults
<1>6. Fitting(S!UpdateRanges, S!ServerDefaults, {})
  BY DEF Fitting, Fits, S!Range, S!From, S!OneOf, S!validPort, S!UpdateRanges, S!ServerDefaults
<1>7. Fitting(S!TorRanges, S!TorDefaults, DOMAIN S!ServerDefaults \cup DOMAIN S!WebDefaults \cup DOMAIN S!NotificationDefaults)
  BY DEF Fitting, Fits, S!Range, S!From, S!OneOf, S!validPort, S!TorRanges, S!TorDefaults, S!ServerDefaults, S!WebDefaults, S!NotificationDefaults
<1>8. Fitting(S!I2PRanges, S!I2PDefaults, DOMAIN S!ServerDefaults \cup DOMAIN S!WebDefaults \cup DOMAIN S!NotificationDefaults \cup DOMAIN S!TorDefaults)
  BY DEF Fitting, Fits, S!Range, S!From, S!OneOf, S!validPort, S!I2PRanges, S!I2PDefaults, S!ServerDefaults, S!WebDefaults, S!NotificationDefaults, S!TorDefaults
<1> QED
  BY <1>1, <1>2, <1>3, <1>4, <1>5, <1>6, <1>7, <1>8

LEMMA JoinedAt ==
  \A f, g : \A s \in DOMAIN S!Joined(f, g) :
    \/ s \in DOMAIN f /\ S!Joined(f, g)[s] = f[s]
    \/ s \in DOMAIN g /\ S!Joined(f, g)[s] = g[s]
BY DEF S!Joined

LEMMA RangesFit == \A s \in DOMAIN S!Ranges : Fits(S!Ranges[s], S!Standard[s])
<1>1. \A s \in DOMAIN S!Ranges :
        \/ s \in DOMAIN S!ServerRanges /\ S!Ranges[s] = S!ServerRanges[s]
        \/ s \in DOMAIN S!SecurityRanges /\ S!Ranges[s] = S!SecurityRanges[s]
        \/ s \in DOMAIN S!WebRanges /\ S!Ranges[s] = S!WebRanges[s]
        \/ s \in DOMAIN S!NotificationRanges /\ S!Ranges[s] = S!NotificationRanges[s]
        \/ s \in DOMAIN S!BackupRanges /\ S!Ranges[s] = S!BackupRanges[s]
        \/ s \in DOMAIN S!UpdateRanges /\ S!Ranges[s] = S!UpdateRanges[s]
        \/ s \in DOMAIN S!TorRanges /\ S!Ranges[s] = S!TorRanges[s]
        \/ s \in DOMAIN S!I2PRanges /\ S!Ranges[s] = S!I2PRanges[s]
  BY JoinedAt DEF S!Ranges, S!Validated
<1>2. /\ \A s \in DOMAIN S!ServerDefaults : S!Standard[s] = S!ServerDefaults[s]
      /\ \A s \in DOMAIN S!WebDefaults \ DOMAIN S!ServerDefaults : S!Standard[s] = S!WebDefaults[s]
      /\ \A s \in DOMAIN S!NotificationDefaults \ (DOMAIN S!ServerDefaults \cup DOMAIN S!WebDefaults) :
           S!Standard[s] = S!NotificationDefaults[s]
      /\ \A s \in DOMAIN S!TorDefaults \ (DOMAIN S!ServerDefaults \cup DOMAIN S!WebDefaults
                                           \cup DOMAIN S!NotificationDefaults) :
           S!Standard[s] = S!TorDefaults[s]
      /\ \A s \in DOMAIN S!I2PDefaults \ (DOMAIN S!ServerDefaults \cup DOMAIN S!WebDefaults
                                 \cup DOMAIN S!NotificationDefaults \cup DOMAIN S!TorDefaults) :
           S!Standard[s] = S!I2PDefaults[s]
  BY DEF S!Standard, S!Joined
<1> QED
  BY <1>1, <1>2, DefaultsFit DEF Fitting

USE SettingsAssumption

LEMMA NoneNamed == "none" \notin DOMAIN S!Ranges
<1>1. /\ "none" \notin DOMAIN S!ServerRanges /\ "none" \notin DOMAIN S!SecurityRanges
      /\ "none" \notin DOMAIN S!WebRanges /\ "none" \notin DOMAIN S!NotificationRanges
      /\ "none" \notin DOMAIN S!BackupRanges /\ "none" \notin DOMAIN S!UpdateRanges
      /\ "none" \notin DOMAIN S!TorRanges /\ "none" \notin DOMAIN S!I2PRanges
  BY DEF S!ServerRanges, S!SecurityRanges, S!WebRanges, S!NotificationRanges,
         S!BackupRanges, S!UpdateRanges, S!TorRanges, S!I2PRanges
<1> QED
  BY <1>1, JoinedAt DEF S!Ranges, S!Validated

LEMMA LegalFacts ==
  ASSUME NEW s \in DOMAIN S!Ranges, s = setting
  PROVE  /\ S!Standard[s] \in Nat /\ S!Legal(S!Standard[s])
         /\ \A v : S!Legal(v) => v \in Nat
BY RangesFit DEF Fits, S!Legal

LEMMA Known ==
  ASSUME SettingsTyped
  PROVE  /\ setting # "none" => setting \in DOMAIN S!Ranges
         /\ DOMAIN S!Validated \subseteq DOMAIN S!Ranges
BY DEF SettingsTyped, S!Ranges, S!Joined

LEMMA Copies ==
  /\ S!Defaults \in Confs /\ S!Defaults.key = 0 /\ S!Defaults.branch = "stable"
  /\ S!Defaults.base = "own" /\ S!Defaults.host = "none" /\ S!Defaults.token = 0
  /\ S!Defaults.number = -3
  /\ S!NoYml \notin Confs
  /\ S!Down.pc = "down" /\ S!Down.conf = S!NoYml
  /\ S!Down \notin [pc : {"down"} \cup BootSteps, conf : Confs, given : BOOLEAN]
<1>1. \A c \in Confs : c.number # -4
  BY DEF Confs, Numbers
<1>2. S!NoYml.number = -4
  BY DEF S!NoYml
<1>3. S!NoYml \notin Confs
  BY <1>1, <1>2
<1>4. S!Down.pc = "down" /\ S!Down.conf = S!NoYml
  BY DEF S!Down
<1> QED
  BY <1>3, <1>4 DEF S!Defaults, S!Default, Confs, Numbers

LEMMA LoadFacts ==
  ASSUME SettingsTyped
  PROVE  /\ S!Load \in Confs
         /\ yml # S!NoYml => S!Load = yml
         /\ S!Load.key # 0 => yml # S!NoYml
BY Copies DEF SettingsTyped, S!Load

LEMMA ValidateFacts ==
  ASSUME SettingsTyped, NEW c \in Confs
  PROVE  /\ S!Validate(c) \in Confs
         /\ S!Validate(c).base = c.base /\ S!Validate(c).host = c.host
         /\ S!Validate(c).branch = c.branch
         /\ S!Validate(c).token = c.token /\ S!Validate(c).key = c.key
         /\ S!Legal(c.number) => S!Validate(c).number = c.number
<1>1. CASE c.number # S!Default /\ setting \in DOMAIN S!Validated
  <2>1. PICK n : n = S!Repaired(c.number)
    OBVIOUS
  <2>2. n \in Numbers /\ (S!Legal(c.number) => n = c.number)
    BY <1>1, <2>1, Known, LegalFacts DEF S!Repaired, Numbers, Confs
  <2>3. S!Validate(c) = [c EXCEPT !.number = n]
    BY <1>1, <2>1 DEF S!Validate
  <2> QED
    BY <2>2, <2>3 DEF Confs
<1>2. CASE ~(c.number # S!Default /\ setting \in DOMAIN S!Validated)
  BY <1>2 DEF S!Validate
<1> QED
  BY <1>1, <1>2

\* One start goes on, the others and the file stay.
LEMMA ProceedStep ==
  ASSUME SettingsOK, ~raced, NEW q \in Booters, NEW r \in BootSet,
         proc' = [proc EXCEPT ![q] = r], keysMade' \in Nat, Started(r),
         setting' = setting, yml' = yml, changer' = changer, chosen' = chosen,
         sealed' = sealed, overlaid' = overlaid, raced' = raced
  PROVE  SettingsOK'
<1>1. S!Load' = S!Load
  BY DEF S!Load
<1>2. SettingsTyped'
  BY DEF SettingsOK, SettingsTyped
<1>3. Started(r)'
  BY <1>1 DEF Started, Keeps, S!Legal
<1>4. ASSUME NEW b \in Booters
      PROVE  Started(proc[b])'
  <2>1. CASE b = q
    BY <1>3, <2>1 DEF SettingsOK, SettingsTyped
  <2>2. CASE b # q
    <3>1. proc'[b] = proc[b] /\ Started(proc[b])
      BY <2>2 DEF SettingsOK, SettingsTyped, Kept
    <3> QED
      BY <1>1, <3>1 DEF Started, Keeps, S!Legal
  <2> QED
    BY <2>1, <2>2
<1>5. FileKept' /\ ChangerKept' /\ SealedKept'
  BY <1>1 DEF SettingsOK, Kept, FileKept, ChangerKept, SealedKept, Keeps, S!Legal
<1> QED
  BY <1>2, <1>4, <1>5, Zenon DEF SettingsOK, Kept

LEMMA DownFacts ==
  /\ S!Down \in BootSet /\ S!Down \in ChangeSet /\ Started(S!Down)
BY Copies DEF BootSet, ChangeSet, Started, BootSteps

LEMMA BootStep ==
  ASSUME SettingsOK, ~raced, NEW q \in Booters, S!Boot(q)
  PROVE  SettingsOK'
<1>1. PICK given \in BOOLEAN :
        proc' = [proc EXCEPT ![q] = IF S!Unparsable THEN S!Down
                                    ELSE [pc |-> "ensure", conf |-> S!Validate(S!Load),
                                          given |-> given]]
  BY DEF S!Boot
<1>2. UNCHANGED <<setting, yml, changer, chosen, sealed, overlaid, raced, keysMade>>
  BY DEF S!Boot, S!history
<1>3. PICK c : c = S!Validate(S!Load)
  OBVIOUS
<1>4. PICK r : r = IF S!Unparsable THEN S!Down ELSE [pc |-> "ensure", conf |-> c, given |-> given]
  OBVIOUS
<1>5. /\ c \in Confs /\ Keeps(c) /\ c.branch = chosen.branch /\ c.key = S!Load.key
      /\ c.base = "run" => c.host = "found"
  BY <1>3, LoadFacts, ValidateFacts DEF SettingsOK, Kept, FileKept, Keeps
<1>6. r \in BootSet /\ Started(r)
  BY <1>4, <1>5, DownFacts DEF BootSet, BootSteps, Started
<1>7. proc' = [proc EXCEPT ![q] = r]
  BY <1>1, <1>3, <1>4
<1>8. keysMade' \in Nat
  BY <1>2 DEF SettingsOK, SettingsTyped
<1> QED
  BY <1>2, <1>6, <1>7, <1>8, ProceedStep, Zenon

LEMMA EnsureStep ==
  ASSUME SettingsOK, ~raced, NEW q \in Booters, S!Ensure(q)
  PROVE  SettingsOK'
<1>1. PICK c : c = proc[q].conf
  OBVIOUS
<1>0. PICK t, k : /\ t = IF c.token = 0 THEN keysMade + 1 ELSE c.token
                  /\ k = IF c.key = 0 THEN keysMade + 1 ELSE c.key
  OBVIOUS
<1>2. PICK f : f = [c EXCEPT !.token = t, !.key = k]
  OBVIOUS
<1>3. PICK r : r = [proc[q] EXCEPT !.conf = f, !.pc = IF S!Incomplete(c) THEN "save" ELSE "overlay"]
  OBVIOUS
<1>4. /\ proc[q].pc = "ensure" /\ c \in Confs /\ Started(proc[q])
      /\ proc[q] \in [pc : BootSteps, conf : Confs, given : BOOLEAN]
  BY <1>1, Copies DEF S!Ensure, SettingsOK, SettingsTyped, BootSet, Kept
<1>5. /\ f \in Confs /\ f.key # 0 /\ f.token # 0
      /\ c.key # 0 => f.key = c.key
      /\ c.token # 0 => f.token = c.token
      /\ f.number = c.number /\ f.host = c.host /\ f.base = c.base /\ f.branch = c.branch
  <2>1. t \in Nat /\ k \in Nat /\ k # 0 /\ t # 0
    <3>0. keysMade \in Nat
      BY Zenon DEF SettingsOK, SettingsTyped
    <3>1. keysMade + 1 \in Nat /\ keysMade + 1 # 0
      BY <3>0
    <3>2. c.token \in Nat /\ c.key \in Nat
      BY <1>4 DEF Confs
    <3> QED
      BY <1>0, <3>1, <3>2
  <2> QED
    BY <1>0, <1>2, <1>4, <2>1 DEF Confs
<1>6. proc' = [proc EXCEPT ![q] = r] /\ keysMade' \in Nat
  <2>1. f = [c EXCEPT !.token = IF @ = 0 THEN keysMade + 1 ELSE @,
                      !.key = IF @ = 0 THEN keysMade + 1 ELSE @]
    BY <1>0, <1>2, <1>4 DEF Confs
  <2>2. proc' = [proc EXCEPT ![q].conf = f, ![q].pc = IF S!Incomplete(c) THEN "save" ELSE "overlay"]
    BY <1>1, <2>1 DEF S!Ensure
  <2>3. keysMade' \in Nat
    BY DEF S!Ensure, SettingsOK, SettingsTyped
  <2>4. proc \in [Booters -> BootSet]
    BY DEF SettingsOK, SettingsTyped
  <2> QED
    BY <1>1, <1>3, <1>4, <2>2, <2>3, <2>4
<1>7. /\ r.conf = f /\ r.pc = (IF S!Incomplete(c) THEN "save" ELSE "overlay")
      /\ r \in BootSet
  BY <1>3, <1>4, <1>5 DEF BootSet, BootSteps
<1>8. Started(r)
  <2>1. Keeps(f) /\ f.branch = chosen.branch /\ (f.base = "run" => f.host = "found")
        /\ c.key = S!Load.key
    BY <1>1, <1>4, <1>5 DEF Started, Keeps, BootSteps
  <2>2. CASE S!Incomplete(c)
    BY <1>5, <1>7, <2>1, <2>2 DEF Started
  <2>3. CASE ~S!Incomplete(c)
    <3>1. S!Load.key # 0 /\ f.key = S!Load.key
      BY <1>5, <2>1, <2>3 DEF S!Incomplete
    <3>2. yml # S!NoYml /\ f.key = yml.key
      BY <3>1, LoadFacts DEF SettingsOK
    <3> QED
      BY <1>5, <1>7, <2>1, <2>3, <3>2 DEF Started
  <2> QED
    BY <2>2, <2>3
<1>9. UNCHANGED <<setting, yml, changer, chosen, sealed, overlaid, raced>>
  BY DEF S!Ensure, S!history
<1> QED
  BY <1>6, <1>7, <1>8, <1>9, ProceedStep, Zenon

LEMMA OverlayStep ==
  ASSUME SettingsOK, ~raced, NEW q \in Booters, S!Overlay(q)
  PROVE  SettingsOK'
<1>1. PICK c : c = [proc[q].conf EXCEPT !.base = IF proc[q].given THEN "run" ELSE @]
  OBVIOUS
<1>2. PICK r : r = [proc[q] EXCEPT !.pc = "mail", !.conf = c]
  OBVIOUS
<1>3. /\ proc[q].pc = "overlay" /\ proc[q].conf \in Confs /\ Started(proc[q])
      /\ proc[q] \in [pc : BootSteps, conf : Confs, given : BOOLEAN]
  BY Copies DEF S!Overlay, SettingsOK, SettingsTyped, BootSet, Kept
<1>4. /\ c \in Confs /\ c.number = proc[q].conf.number /\ c.host = proc[q].conf.host
      /\ c.branch = proc[q].conf.branch /\ c.token = proc[q].conf.token
      /\ c.key = proc[q].conf.key
  BY <1>1, <1>3 DEF Confs
<1>5. r \in BootSet /\ r.conf = c /\ r.pc = "mail"
  BY <1>2, <1>3, <1>4 DEF BootSet, BootSteps
<1>6. Started(r)
  BY <1>3, <1>4, <1>5 DEF Started, Keeps, BootSteps
<1>7. proc' = [proc EXCEPT ![q] = r]
  BY <1>1, <1>2 DEF S!Overlay, SettingsOK, SettingsTyped
<1>8. UNCHANGED <<setting, yml, changer, chosen, sealed, overlaid, raced, keysMade>>
  BY DEF S!Overlay, S!history
<1>9. keysMade' \in Nat
  BY <1>8 DEF SettingsOK, SettingsTyped
<1> QED
  BY <1>5, <1>6, <1>7, <1>8, <1>9, ProceedStep, Zenon

LEMMA OfferStep ==
  ASSUME SettingsOK, ~raced, NEW q \in Booters, S!Mail(q)
  PROVE  SettingsOK'
<1>1. /\ proc[q].pc = "mail" /\ proc[q].conf \in Confs /\ Started(proc[q])
      /\ proc[q] \in [pc : BootSteps, conf : Confs, given : BOOLEAN]
  BY Copies DEF S!Mail, SettingsOK, SettingsTyped, BootSet, Kept
<1>2. UNCHANGED <<setting, yml, changer, chosen, sealed, overlaid, raced, keysMade>>
  BY DEF S!Mail, S!history
<1>3. keysMade' \in Nat
  BY <1>2 DEF SettingsOK, SettingsTyped
<1>4. CASE proc' = [proc EXCEPT ![q].pc = "up"]
  <2>1. PICK r : r = [proc[q] EXCEPT !.pc = "up"]
    OBVIOUS
  <2>2. r \in BootSet /\ Started(r)
    BY <1>1, <2>1 DEF BootSet, BootSteps, Started
  <2>3. proc' = [proc EXCEPT ![q] = r]
    BY <1>4, <2>1 DEF SettingsOK, SettingsTyped
  <2> QED
    BY <1>2, <1>3, <2>2, <2>3, ProceedStep, Zenon
\* Where a mail server is looked for, none was chosen.
<1>5. CASE /\ S!Looks(proc[q].conf)
           /\ proc' = [proc EXCEPT ![q].conf.host = "found", ![q].pc = "saveMail"]
  <2>1. PICK c : c = [proc[q].conf EXCEPT !.host = "found"]
    OBVIOUS
  <2>2. PICK r : r = [proc[q] EXCEPT !.conf = c, !.pc = "saveMail"]
    OBVIOUS
  <2>3. /\ c \in Confs /\ c.number = proc[q].conf.number /\ c.host = "found"
        /\ c.branch = proc[q].conf.branch /\ c.token = proc[q].conf.token
        /\ c.key = proc[q].conf.key
    BY <1>1, <2>1 DEF Confs
  <2>4. r \in BootSet /\ r.conf = c /\ r.pc = "saveMail"
    BY <1>1, <2>2, <2>3 DEF BootSet, BootSteps
  <2>5. chosen.host = "none"
    BY <1>1, <1>5 DEF Started, Keeps, BootSteps, S!Looks
  <2>6. Started(r)
    BY <1>1, <2>3, <2>4, <2>5 DEF Started, Keeps, BootSteps
  <2>7. proc' = [proc EXCEPT ![q] = r]
    BY <1>5, <2>1, <2>2 DEF SettingsOK, SettingsTyped
  <2> QED
    BY <1>2, <1>3, <2>4, <2>6, <2>7, ProceedStep, Zenon
<1> QED
  BY <1>4, <1>5 DEF S!Mail

\* A start that alone holds a copy writes it back.
LEMMA SaveStep ==
  ASSUME SettingsOK, ~raced, NEW q \in Booters, NEW to,
         \/ proc[q].pc = "save" /\ to = "overlay"
         \/ proc[q].pc = "saveMail" /\ to = "up",
         S!Save(q, to)
  PROVE  SettingsOK'
<1>1. PICK c : c = proc[q].conf
  OBVIOUS
<1>2. /\ c \in Confs /\ Started(proc[q])
      /\ proc[q] \in [pc : BootSteps, conf : Confs, given : BOOLEAN]
  BY <1>1, Copies DEF SettingsOK, SettingsTyped, BootSet, Kept
<1>3. PICK r : r = [proc[q] EXCEPT !.pc = to]
  OBVIOUS
<1>4. r \in BootSet /\ r.conf = c /\ r.pc = to
  BY <1>1, <1>2, <1>3 DEF BootSet, BootSteps
<1>5. /\ yml' = c /\ proc' = [proc EXCEPT ![q] = r]
      /\ overlaid' = (overlaid \/ c.base = "run")
      /\ raced' = (raced \/ S!Races(q))
  BY <1>1, <1>3 DEF S!Save, SettingsOK, SettingsTyped
<1>6. UNCHANGED <<setting, changer, chosen, sealed, keysMade>>
  BY DEF S!Save
<1>7. SettingsTyped'
  BY <1>2, <1>4, <1>5, <1>6 DEF SettingsOK, SettingsTyped, Confs
<1>8. SUFFICES ASSUME ~raced' PROVE Kept'
  BY <1>7, Zenon DEF SettingsOK
<1>9. S!Load' = c /\ c # S!NoYml
  BY <1>2, <1>5, Copies DEF S!Load
<1>10. /\ Keeps(c) /\ c.branch = chosen.branch /\ (c.base = "run" => c.host = "found")
       /\ c.key # 0 /\ (S!Load.key # 0 => c.key = S!Load.key)
  BY <1>1, <1>2, LoadFacts DEF Started, BootSteps, SettingsOK
<1>11. FileKept'
  BY <1>5, <1>6, <1>9, <1>10 DEF FileKept, Keeps, S!Legal
<1>12. changer = S!Down /\ \A b \in Booters \ {q} : proc[b].pc \in {"down", "up"}
  <2>1. ~S!Races(q)
    BY <1>5, <1>8
  <2> QED
    BY <2>1, Copies DEF S!Races, S!Holding, SettingsOK, SettingsTyped, BootSet, BootSteps
<1>13. ChangerKept'
  BY <1>6, <1>12 DEF ChangerKept, S!Down, S!NoYml
<1>14. SealedKept'
  BY <1>5, <1>6, <1>9, <1>10, LoadFacts DEF SealedKept, SettingsOK, Kept
<1>15. ASSUME NEW b \in Booters
       PROVE  Started(proc[b])'
  <2>1. CASE b = q
    <3>1. proc'[b] = r
      BY <1>5, <2>1 DEF SettingsOK, SettingsTyped
    <3> QED
      BY <1>4, <1>5, <1>6, <1>9, <1>10, <3>1 DEF Started, Keeps, S!Legal
  <2>2. CASE b # q
    <3>1. proc'[b] = proc[b] /\ proc[b].pc \in {"down", "up"} /\ Started(proc[b])
      BY <1>5, <1>12, <2>2 DEF SettingsOK, SettingsTyped, Kept
    <3>2. proc[b].pc = "up" => proc[b].conf.key # 0 /\ proc[b].conf.key = c.key
      BY <1>10, <3>1, LoadFacts DEF Started, SettingsOK
    <3> QED
      BY <1>5, <1>9, <3>1, <3>2 DEF Started, BootSteps
  <2> QED
    BY <2>1, <2>2
<1> QED
  BY <1>11, <1>13, <1>14, <1>15, Zenon DEF Kept

LEMMA SealStep ==
  ASSUME SettingsOK, ~raced, NEW q \in Booters, S!Seal(q)
  PROVE  SettingsOK'
<1>1. UNCHANGED <<setting, yml, proc, changer, chosen, overlaid, raced, keysMade>>
  BY DEF S!Seal
<1>2. SettingsTyped'
  BY <1>1 DEF SettingsOK, SettingsTyped
<1>3. S!Load' = S!Load
  BY <1>1 DEF S!Load
<1>4. SealedKept'
  BY <1>1 DEF S!Seal, SettingsOK, Kept, SealedKept, Started, BootSteps
<1>5. FileKept' /\ ChangerKept'
  BY <1>1, <1>3 DEF SettingsOK, Kept, FileKept, ChangerKept, Keeps, S!Legal
<1>6. ASSUME NEW b \in Booters
      PROVE  Started(proc[b])'
  BY <1>1, <1>3 DEF SettingsOK, Kept, Started, Keeps, S!Legal
<1> QED
  BY <1>2, <1>4, <1>5, <1>6, Zenon DEF SettingsOK, Kept

LEMMA QuitStep ==
  ASSUME SettingsOK, ~raced, NEW q \in Booters, S!Quit(q)
  PROVE  SettingsOK'
<1>1. UNCHANGED <<setting, yml, changer, chosen, sealed, overlaid, raced, keysMade>>
  BY DEF S!Quit, S!history
<1>2. proc' = [proc EXCEPT ![q] = S!Down] /\ keysMade' \in Nat
  BY <1>1 DEF S!Quit, SettingsOK, SettingsTyped
<1> QED
  BY <1>1, <1>2, DownFacts, ProceedStep, Zenon

\* The operator writes what was asked for into a file that nobody else has
\* in hand, and leaves the rest of it.
LEMMA SetStep ==
  ASSUME SettingsOK, ~raced, NEW f \in Confs,
         yml' = f, Keeps(f)', f.branch = chosen'.branch, f.key = S!Load.key, f.base = "own",
         setting' \in Followed \cup {"none"},
         chosen' \in [number : Numbers, host : {"none", "op", "found"},
                      branch : {"stable", "beta"}, token : Nat],
         proc' = proc, changer' = changer, keysMade' = keysMade, sealed' = sealed,
         overlaid' = FALSE, raced' = (raced \/ S!Holding # {} \/ changer # S!Down)
  PROVE  SettingsOK'
<1>1. SettingsTyped'
  BY DEF SettingsOK, SettingsTyped
<1>2. SUFFICES ASSUME ~raced' PROVE Kept'
  BY <1>1, Zenon DEF SettingsOK
<1>3. S!Load' = f /\ f # S!NoYml
  BY Copies DEF S!Load
<1>4. FileKept'
  BY <1>3 DEF FileKept, Keeps, S!Legal
<1>5. changer = S!Down /\ \A b \in Booters : proc[b].pc \in {"down", "up"}
  <2>1. changer = S!Down /\ S!Holding = {}
    BY <1>2
  <2> QED
    BY <2>1, Copies DEF S!Holding, SettingsOK, SettingsTyped, BootSet, BootSteps
<1>6. ChangerKept'
  BY <1>5 DEF ChangerKept, S!Down, S!NoYml
<1>7. yml # S!NoYml => S!Load = yml
  BY LoadFacts DEF SettingsOK
<1>8. SealedKept'
  BY <1>3, <1>7 DEF SealedKept, SettingsOK, Kept
<1>9. ASSUME NEW b \in Booters
      PROVE  Started(proc[b])'
  <2>1. proc[b].pc \in {"down", "up"} /\ Started(proc[b])
    BY <1>5 DEF SettingsOK, Kept
  <2> QED
    BY <1>3, <1>7, <2>1 DEF Started, BootSteps
<1> QED
  BY <1>4, <1>6, <1>8, <1>9, Zenon DEF Kept

LEMMA EditStep ==
  ASSUME SettingsOK, ~raced, S!Edit
  PROVE  SettingsOK'
<1>1. PICK c : c = S!Load
  OBVIOUS
<1>2. c \in Confs /\ Keeps(c) /\ c.branch = chosen.branch
  BY <1>1, LoadFacts DEF SettingsOK, Kept, FileKept
<1>3. /\ proc' = proc /\ changer' = changer /\ keysMade' = keysMade /\ sealed' = sealed
      /\ overlaid' = FALSE /\ raced' = (raced \/ S!Holding # {} \/ changer # S!Down)
  BY DEF S!Edit
<1>4. /\ chosen \in [number : Numbers, host : {"none", "op", "found"},
                     branch : {"stable", "beta"}, token : Nat]
      /\ setting \in Followed \cup {"none"}
  BY DEF SettingsOK, SettingsTyped
<1>5. CASE /\ setting' \in IF setting = "none" THEN Followed ELSE {setting}
           /\ \E v \in S!Written(setting') : S!Set("number", v)
  <2>1. PICK v \in S!Written(setting') : S!Set("number", v)
    BY <1>5
  <2>2. setting' \in Followed \cup {"none"} /\ (setting' # "none" => setting' \in DOMAIN S!Ranges)
    BY <1>4, <1>5
  <2>3. v \in Numbers
    <3>1. setting' # "none"
      BY <1>4, <1>5, NoneNamed
    <3> QED
      BY <2>1, <2>2, <3>1, RangesFit DEF S!Written, S!Mistyped, Numbers, Fits
  <2>4. PICK f : f = [c EXCEPT !.number = v, !.base = "own"]
    OBVIOUS
  <2>5. PICK g : g = [chosen EXCEPT !.number = v]
    OBVIOUS
  <2>6. /\ f \in Confs /\ f.number = v /\ f.base = "own" /\ f.host = c.host
        /\ f.branch = c.branch /\ f.token = c.token /\ f.key = c.key
    BY <1>2, <2>3, <2>4 DEF Confs
  <2>7. /\ g.number = v /\ g.host = chosen.host /\ g.branch = chosen.branch
        /\ g.token = chosen.token
        /\ g \in [number : Numbers, host : {"none", "op", "found"},
                  branch : {"stable", "beta"}, token : Nat]
    BY <1>4, <2>3, <2>5
  <2>8. yml' = f /\ chosen' = g
    BY <1>1, <2>1, <2>4, <2>5 DEF S!Set
  <2>9. Keeps(f)'
    BY <1>2, <2>6, <2>7, <2>8 DEF Keeps
  <2> QED
    BY <1>1, <1>2, <1>3, <2>2, <2>6, <2>7, <2>8, <2>9, SetStep
<1>6. CASE \E host \in {"none", "op"} : S!Set("host", host) /\ UNCHANGED setting
  <2>1. PICK h \in {"none", "op"} : S!Set("host", h) /\ UNCHANGED setting
    BY <1>6
  <2>4. PICK f : f = [c EXCEPT !.host = h, !.base = "own"]
    OBVIOUS
  <2>5. PICK g : g = [chosen EXCEPT !.host = h]
    OBVIOUS
  <2>6. /\ f \in Confs /\ f.number = c.number /\ f.base = "own" /\ f.host = h
        /\ f.branch = c.branch /\ f.token = c.token /\ f.key = c.key
    BY <1>2, <2>4 DEF Confs
  <2>7. /\ g.number = chosen.number /\ g.host = h /\ g.branch = chosen.branch
        /\ g.token = chosen.token
        /\ g \in [number : Numbers, host : {"none", "op", "found"},
                  branch : {"stable", "beta"}, token : Nat]
    BY <1>4, <2>5
  <2>8. yml' = f /\ chosen' = g /\ setting' = setting
    BY <1>1, <2>1, <2>4, <2>5 DEF S!Set
  <2>9. Keeps(f)'
    BY <1>2, <2>6, <2>7, <2>8 DEF Keeps, S!Legal
  <2> QED
    BY <1>1, <1>2, <1>3, <1>4, <2>6, <2>7, <2>8, <2>9, SetStep
<1>7. CASE S!Load.token = 0 /\ S!Set("token", MaxMade + 1) /\ UNCHANGED setting
  <2>1. PICK t \in Nat : t = MaxMade + 1
    OBVIOUS
  <2>4. PICK f : f = [c EXCEPT !.token = t, !.base = "own"]
    OBVIOUS
  <2>5. PICK g : g = [chosen EXCEPT !.token = t]
    OBVIOUS
  <2>6. /\ f \in Confs /\ f.number = c.number /\ f.base = "own" /\ f.host = c.host
        /\ f.branch = c.branch /\ f.token = t /\ f.key = c.key
    BY <1>2, <2>4 DEF Confs
  <2>7. /\ g.number = chosen.number /\ g.host = chosen.host /\ g.branch = chosen.branch
        /\ g.token = t
        /\ g \in [number : Numbers, host : {"none", "op", "found"},
                  branch : {"stable", "beta"}, token : Nat]
    BY <1>4, <2>5
  <2>8. yml' = f /\ chosen' = g /\ setting' = setting
    BY <1>1, <1>7, <2>1, <2>4, <2>5 DEF S!Set
  <2>9. Keeps(f)'
    BY <1>2, <2>6, <2>7, <2>8 DEF Keeps, S!Legal
  <2> QED
    BY <1>1, <1>2, <1>3, <1>4, <2>6, <2>7, <2>8, <2>9, SetStep
<1> QED
  BY <1>5, <1>6, <1>7 DEF S!Edit

\* What a command took from the file, the operator leaves alone until it is back.
LEMMA BranchBeginStep ==
  ASSUME SettingsOK, ~raced, S!BranchBegins
  PROVE  SettingsOK'
<1>1. PICK c : c = [S!Load EXCEPT !.branch = "beta"]
  OBVIOUS
<1>2. PICK r : r = [S!Down EXCEPT !.conf = c]
  OBVIOUS
<1>3. /\ c \in Confs /\ Keeps(c) /\ c.branch = "beta" /\ c.key = S!Load.key
      /\ c.base = "run" => overlaid /\ c.host = "found"
  <2>1. PICK d : d = S!Load
    OBVIOUS
  <2>2. /\ d \in Confs /\ Keeps(d) /\ (d.base = "run" => overlaid /\ d.host = "found")
    BY <2>1, LoadFacts DEF SettingsOK, Kept, FileKept
  <2>3. /\ c \in Confs /\ c.number = d.number /\ c.base = d.base /\ c.host = d.host
        /\ c.branch = "beta" /\ c.token = d.token /\ c.key = d.key
    BY <1>1, <2>1, <2>2 DEF Confs
  <2> QED
    BY <2>1, <2>2, <2>3 DEF Keeps
<1>4. r \in ChangeSet /\ r.conf = c
  BY <1>2, <1>3 DEF ChangeSet, S!Down
<1>5. /\ changer' = r /\ setting' = setting /\ yml' = yml /\ proc' = proc /\ chosen' = chosen
      /\ sealed' = sealed /\ overlaid' = overlaid /\ raced' = raced /\ keysMade' = keysMade
  BY <1>1, <1>2 DEF S!BranchBegins, S!history
<1>6. SettingsTyped'
  BY <1>4, <1>5 DEF SettingsOK, SettingsTyped
<1>7. S!Load' = S!Load
  BY <1>5 DEF S!Load
<1>8. FileKept' /\ SealedKept'
  BY <1>5, <1>7 DEF SettingsOK, Kept, FileKept, SealedKept, Keeps, S!Legal
<1>9. ChangerKept'
  BY <1>3, <1>4, <1>5, <1>7 DEF ChangerKept, Keeps, S!Legal
<1>10. ASSUME NEW b \in Booters
       PROVE  Started(proc[b])'
  BY <1>5, <1>7 DEF SettingsOK, Kept, Started, Keeps, S!Legal
<1> QED
  BY <1>6, <1>8, <1>9, <1>10, Zenon DEF SettingsOK, Kept

LEMMA BranchEndStep ==
  ASSUME SettingsOK, ~raced, S!BranchEnds
  PROVE  SettingsOK'
<1>1. /\ changer' = S!Down /\ setting' = setting /\ proc' = proc
      /\ sealed' = sealed /\ overlaid' = overlaid /\ keysMade' = keysMade
  BY DEF S!BranchEnds
<1>2. ChangerKept'
  BY <1>1 DEF ChangerKept, S!Down, S!NoYml
<1>3. CASE yml' = yml /\ chosen' = chosen /\ raced' = raced
  <2>1. S!Load' = S!Load
    BY <1>3 DEF S!Load
  <2>2. SettingsTyped'
    BY <1>1, <1>3, DownFacts DEF SettingsOK, SettingsTyped
  <2>3. FileKept' /\ SealedKept'
    BY <1>1, <1>3, <2>1 DEF SettingsOK, Kept, FileKept, SealedKept, Keeps, S!Legal
  <2>4. ASSUME NEW b \in Booters
        PROVE  Started(proc[b])'
    BY <1>1, <1>3, <2>1 DEF SettingsOK, Kept, Started, Keeps, S!Legal
  <2> QED
    BY <1>2, <2>2, <2>3, <2>4, Zenon DEF SettingsOK, Kept
<1>4. CASE /\ yml' = changer.conf /\ chosen' = [chosen EXCEPT !.branch = changer.conf.branch]
           /\ raced' = (raced \/ S!Holding # {})
  <2>1. PICK c : c = changer.conf
    OBVIOUS
  <2>2. /\ c \in Confs /\ Keeps(c) /\ c.branch = "beta" /\ c.key = S!Load.key
        /\ c.base = "run" => overlaid /\ c.host = "found"
    BY <2>1 DEF S!BranchEnds, SettingsOK, SettingsTyped, ChangeSet, Kept, ChangerKept
  <2>3. PICK g : g = [chosen EXCEPT !.branch = "beta"]
    OBVIOUS
  <2>4. yml' = c /\ chosen' = g
    BY <1>4, <2>1, <2>2, <2>3
  <2>5. /\ g.number = chosen.number /\ g.host = chosen.host /\ g.branch = "beta"
        /\ g.token = chosen.token
        /\ g \in [number : Numbers, host : {"none", "op", "found"},
                  branch : {"stable", "beta"}, token : Nat]
    BY <2>3 DEF SettingsOK, SettingsTyped
  <2>6. SettingsTyped'
    BY <1>1, <1>4, <2>2, <2>4, <2>5, DownFacts DEF SettingsOK, SettingsTyped
  <2>7. SUFFICES ASSUME ~raced' PROVE Kept'
    BY <2>6, Zenon DEF SettingsOK
  <2>8. S!Load' = c /\ c # S!NoYml
    BY <2>2, <2>4, Copies DEF S!Load
  <2>9. FileKept'
    BY <1>1, <2>2, <2>4, <2>5, <2>8 DEF FileKept, Keeps, S!Legal
  <2>10. yml # S!NoYml => S!Load = yml
    BY LoadFacts DEF SettingsOK
  <2>11. SealedKept'
    BY <1>1, <2>2, <2>4, <2>8, <2>10 DEF SealedKept, SettingsOK, Kept
  <2>12. \A b \in Booters : proc[b].pc \in {"down", "up"}
    <3>1. S!Holding = {}
      BY <1>4, <2>7
    <3> QED
      BY <3>1, Copies DEF S!Holding, SettingsOK, SettingsTyped, BootSet, BootSteps
  <2>13. ASSUME NEW b \in Booters
         PROVE  Started(proc[b])'
    <3>1. proc[b].pc \in {"down", "up"} /\ Started(proc[b])
      BY <2>12 DEF SettingsOK, Kept
    <3> QED
      BY <1>1, <2>2, <2>4, <2>8, <2>10, <3>1 DEF Started, BootSteps
  <2> QED
    BY <1>2, <2>9, <2>11, <2>13, Zenon DEF Kept
<1> QED
  BY <1>3, <1>4 DEF S!BranchEnds

LEMMA SettingsSteps ==
  ASSUME SettingsOK, [S!Next]_settingsVars
  PROVE  SettingsOK'
<1>1. CASE UNCHANGED settingsVars
  <2>1. UNCHANGED <<setting, yml, proc, changer, chosen, sealed, overlaid, raced, keysMade>>
    BY <1>1 DEF settingsVars
  <2>2. S!Load' = S!Load
    BY <2>1 DEF S!Load
  <2> QED
    BY <2>1, <2>2 DEF SettingsOK, SettingsTyped, Kept, FileKept, ChangerKept, SealedKept, Started,
       Keeps, S!Legal
<1>2. CASE S!Next
  <2>1. ~raced
    BY <1>2 DEF S!Next
  <2>2. CASE \E q \in Booters : S!SaveSecrets(q) \/ S!SaveMail(q)
    <3>1. PICK q \in Booters : S!SaveSecrets(q) \/ S!SaveMail(q)
      BY <2>2
    <3>2. CASE S!SaveSecrets(q)
      BY <2>1, <3>2, SaveStep DEF S!SaveSecrets
    <3>3. CASE S!SaveMail(q) /\ S!Save(q, "up")
      BY <2>1, <3>3, SaveStep DEF S!SaveMail
    <3>4. CASE /\ S!SaveMail(q)
               /\ proc' = [proc EXCEPT ![q].pc = "up"]
               /\ UNCHANGED <<setting, yml, changer, boots, hands, keysMade, S!history>>
      <4>1. /\ proc[q].pc = "saveMail" /\ Started(proc[q])
            /\ proc[q] \in [pc : BootSteps, conf : Confs, given : BOOLEAN]
        BY <2>1, <3>4, Copies DEF S!SaveMail, SettingsOK, SettingsTyped, BootSet, Kept
      <4>2. PICK r : r = [proc[q] EXCEPT !.pc = "up"]
        OBVIOUS
      <4>3. r \in BootSet /\ Started(r)
        BY <4>1, <4>2 DEF BootSet, BootSteps, Started
      <4>4. proc' = [proc EXCEPT ![q] = r]
        BY <3>4, <4>2 DEF SettingsOK, SettingsTyped
      <4>5. UNCHANGED <<setting, yml, changer, chosen, sealed, overlaid, raced, keysMade>>
        BY <3>4 DEF S!history
      <4>6. keysMade' \in Nat
        BY <4>5 DEF SettingsOK, SettingsTyped
      <4> QED
        BY <2>1, <4>3, <4>4, <4>5, <4>6, ProceedStep, Zenon
    <3> QED
      BY <3>1, <3>2, <3>3, <3>4 DEF S!SaveMail
  <2> QED
    BY <1>2, <2>1, <2>2, EditStep, BranchBeginStep, BranchEndStep, BootStep, EnsureStep, OverlayStep,
       OfferStep, SealStep, QuitStep DEF S!Next
<1> QED
  BY <1>1, <1>2

LEMMA SettingsInvariant == Spec => []SettingsInv
<1>1. Init => SettingsInv
  <2>1. ASSUME S!Init PROVE SettingsOK
    <3>1. /\ setting = "none" /\ yml = S!NoYml /\ proc = [q \in Booters |-> S!Down]
          /\ changer = S!Down /\ keysMade = 0 /\ sealed = {} /\ overlaid = FALSE /\ raced = FALSE
          /\ chosen = [number |-> S!Default, host |-> "none", branch |-> "stable", token |-> 0]
      BY <2>1 DEF S!Init
    <3>2. S!Load = S!Defaults
      BY <3>1 DEF S!Load
    <3>3. SettingsTyped
      <4>1. S!Default \in Numbers
        BY DEF S!Default, Numbers
      <4>2. proc \in [Booters -> BootSet]
        BY <3>1, DownFacts
      <4> QED
        BY <3>1, <4>1, <4>2, DownFacts DEF SettingsTyped
    <3>4. FileKept /\ ChangerKept /\ SealedKept
      BY <3>1, <3>2, Copies DEF FileKept, ChangerKept, SealedKept, Keeps, S!Default
    <3> QED
      BY <3>1, <3>3, <3>4, DownFacts DEF SettingsOK, Kept
  <2> QED
    BY <2>1 DEF Init, SettingsInv
<1>2. SettingsInv /\ [Next]_vars => SettingsInv'
  BY PartStep, SettingsSteps DEF SettingsInv
<1> QED
  BY <1>1, <1>2, PTL DEF Spec

\* What was sealed under a key of a start of the server can be opened with the one
\* in server.yml, unless two wrote the file at once: main.go saves a new key before
\* it is used, and whoever saves the file later has loaded it with the key.
THEOREM SealedStaysReadable == Spec => []SealedReadable
<1>1. SettingsInv => SealedReadable
  BY DEF SettingsInv, SettingsOK, Kept, SealedKept, SealedReadable, S!SealedReadable
<1> QED
  BY <1>1, SettingsInvariant, PTL

\* What the operator and the commands chose stays in the file while nobody wrote it
\* at the same time, and a server runs on legal numbers whatever the file says:
\* Validate and Normalized replace what is out of its range by a default that is not.
THEOREM ChosenKept == Spec => []ChoicesKept
<1>1. ASSUME SettingsOK, ~raced, yml # S!NoYml
      PROVE  /\ setting # "none" /\ S!Legal(chosen.number) => yml.number = chosen.number
             /\ chosen.host # "none" => yml.host = chosen.host
             /\ chosen.token # 0 => yml.token = chosen.token
             /\ yml.branch = chosen.branch
             /\ yml.base = "run" => overlaid /\ yml.host = "found"
  BY <1>1, LoadFacts DEF SettingsOK, Kept, FileKept, Keeps
<1>2. ASSUME SettingsOK, NEW b \in Booters, setting # "none"
      PROVE  S!Legal(S!Used(proc[b].conf))
  BY <1>2, Known, LegalFacts DEF SettingsOK, S!Used, S!Repaired
<1>3. SettingsInv => ChoicesKept
  BY <1>1, <1>2 DEF SettingsInv, ChoicesKept, S!ChoicesKept
<1> QED
  BY <1>3, SettingsInvariant, PTL

-----------------------------------------------------------------------------
(***************************************************************************)
(* Backups and restores                                                    *)
(***************************************************************************)

USE RestoreAssumption

Versions == 0 .. MaxEdits + 1
FileSets == UNION {[names -> Versions] : names \in SUBSET R!Names}
ArchiveSet == [digest : FileSets, content : FileSets, base : FileSets, hashed : FileSets,
               snap : FileSets, accepted : BOOLEAN]
PackSet == [pc : {"idle", "hash", "copy", "verify"}, kind : R!Kinds, at : 1 .. 4, base : FileSets,
            digest : FileSets, content : FileSets, hashed : FileSets, snap : FileSets]
RestoreSet == [pc : {"idle", "stage", "place", "done"}, kind : R!Kinds, names : SUBSET R!Names,
               stage : FileSets]

RestoreTyped ==
  /\ live \in [R!Names -> Versions]
  /\ wal \in [base : Versions, adds : Versions] /\ served \in Versions
  /\ edits \in 1 .. MaxEdits
  /\ archives \in [R!Kinds -> ArchiveSet] /\ restored \in ArchiveSet
  /\ pack \in PackSet /\ restore \in RestoreSet
  /\ disturbed \in BOOLEAN

\* A version that was given out, and not only to the log of the database.
Past(n, v, last, log) ==
  /\ v \in 0 .. last \/ (n = "server.db" /\ v = R!Torn)
  /\ n = "server.db" /\ log \notin {R!Absent, R!Torn} => v # log
Seen(files, last, log) == \A n \in DOMAIN files : Past(n, files[n], last, log)
\* What is hashed is there, and only a database is torn.
Real(files) == \A n \in DOMAIN files : files[n] # R!Absent /\ (n # "server.db" => files[n] # R!Torn)
\* No version comes back: what is not as it was when the manifest was fixed is
\* not copied as it was hashed.
Apart(digest, files, snap) ==
  \A n \in DOMAIN digest \cap DOMAIN files :
    digest[n] # R!Torn /\ digest[n] # snap[n] => files[n] # digest[n]
\* An archive and its base hold what was hashed.
Based(digest, base, hashed) ==
  \A n \in DOMAIN hashed :
    IF n \in DOMAIN digest THEN digest[n] = hashed[n]
                           ELSE n \in DOMAIN base /\ base[n] = hashed[n]

VersionsPast ==
  /\ wal.adds \in 0 .. edits \cup {R!Torn}
  /\ Seen(live, edits, wal.adds) /\ Past("server.db", served, edits, wal.adds)
  /\ Seen(pack.digest, edits, wal.adds) /\ Seen(pack.content, edits, wal.adds)
  /\ Seen(restore.stage, edits, wal.adds)
  /\ \A k \in R!Kinds : Seen(archives[k].content, edits, wal.adds)
AllReal == Real(pack.digest) /\ \A k \in R!Kinds : Real(archives[k].digest)
PackFaithful ==
  /\ pack.pc \in {"idle", "hash"} => pack.content = R!NoFiles
  /\ pack.pc \in {"copy", "verify"} =>
       /\ Based(pack.digest, pack.base, pack.hashed)
       /\ pack.snap # R!NoFiles =>
            Apart(pack.digest, live, pack.snap) /\ Apart(pack.digest, pack.content, pack.snap)
ArchivesFaithful ==
  \A k \in R!Kinds : LET a == archives[k] IN
    /\ Based(a.digest, a.base, a.hashed)
    /\ a.snap # R!NoFiles => Apart(a.digest, a.content, a.snap)
    /\ a.accepted => R!Sound(a)
\* While nobody else writes, what was replaced is as the archive has it.
Replacing ==
  restore.pc # "idle" /\ ~disturbed =>
    LET a == archives[restore.kind] IN
      /\ R!Sound(a)
      /\ restore.pc = "stage" => restore.names = DOMAIN a.digest
      /\ restore.pc \in {"place", "done"} =>
           /\ restore.stage = a.digest
           /\ \A n \in DOMAIN a.digest \ restore.names : live[n] = a.digest[n]
      /\ restore.pc = "done" => restore.names = {}
\* After a full archive only the incremental one has replaced anything.
Replaced ==
  restored # R!NoArchive /\ archives["hourly"] # R!NoArchive =>
    \A n \in DOMAIN restored.digest \ DOMAIN archives["hourly"].digest :
      live[n] = restored.digest[n]

RestoreOK ==
  /\ RestoreTyped /\ VersionsPast /\ AllReal /\ PackFaithful /\ ArchivesFaithful /\ Replacing /\ Replaced
RestoreInv == part = "restore" => RestoreOK

LEMMA FileFacts ==
  /\ R!Names = {"data", "server.db", "server.yml"} /\ Len(R!Members) = 3
  /\ \A i \in 1 .. 3 : R!Members[i] \in R!Names
  /\ \A f \in FileSets : DOMAIN f \subseteq R!Names /\ \A n \in DOMAIN f : f[n] \in Versions
  /\ [R!Names -> Versions] \subseteq FileSets
  /\ R!NoFiles \in FileSets /\ DOMAIN R!NoFiles = {}
  /\ R!NoArchive \in ArchiveSet
<1>1. R!Names = {"data", "server.db", "server.yml"} /\ Len(R!Members) = 3
      /\ \A i \in 1 .. 3 : R!Members[i] \in R!Names
  BY DEF R!Names, R!Members
<1>2. R!NoFiles \in FileSets /\ DOMAIN R!NoFiles = {}
  <2>1. R!NoFiles \in [{} -> Versions]
    BY DEF R!NoFiles
  <2> QED
    BY <2>1 DEF FileSets
<1>3. R!NoArchive \in ArchiveSet
  BY <1>2 DEF R!NoArchive, ArchiveSet
<1>4. ASSUME NEW f \in FileSets
      PROVE  DOMAIN f \subseteq R!Names /\ \A n \in DOMAIN f : f[n] \in Versions
  <2>1. PICK names \in SUBSET R!Names : f \in [names -> Versions]
    BY <1>4 DEF FileSets
  <2> QED
    BY <2>1
<1>5. [R!Names -> Versions] \subseteq FileSets
  <2>1. R!Names \in SUBSET R!Names
    OBVIOUS
  <2> QED
    BY <2>1 DEF FileSets
<1> QED
  BY <1>1, <1>2, <1>3, <1>4, <1>5

LEMMA WithFacts ==
  ASSUME NEW f \in FileSets, NEW n \in R!Names, NEW v \in Versions
  PROVE  /\ R!With(f, n, v) \in FileSets
         /\ DOMAIN R!With(f, n, v) = DOMAIN f \cup {n}
         /\ R!With(f, n, v)[n] = v
         /\ \A m \in DOMAIN f \ {n} : R!With(f, n, v)[m] = f[m]
<1>1. \A m \in DOMAIN f \cup {n} : R!With(f, n, v)[m] = IF m = n THEN v ELSE f[m]
  BY DEF R!With
<1>2. DOMAIN R!With(f, n, v) = DOMAIN f \cup {n}
  BY DEF R!With
<1>3. R!With(f, n, v) \in [DOMAIN f \cup {n} -> Versions]
  BY FileFacts DEF R!With
<1>4. DOMAIN f \cup {n} \in SUBSET R!Names
  BY FileFacts
<1> QED
  BY <1>1, <1>2, <1>3, <1>4 DEF FileSets

LEMMA OnlyFacts ==
  ASSUME NEW f \in FileSets, NEW names
  PROVE  /\ R!Only(f, names) \in FileSets
         /\ DOMAIN R!Only(f, names) = DOMAIN f \cap names
         /\ \A m \in DOMAIN f \cap names : R!Only(f, names)[m] = f[m]
<1>1. R!Only(f, names) \in [DOMAIN f \cap names -> Versions]
  BY FileFacts DEF R!Only
<1>2. DOMAIN f \cap names \in SUBSET R!Names
  BY FileFacts
<1> QED
  BY <1>1, <1>2 DEF FileSets, R!Only

LEMMA SoundFacts ==
  ASSUME NEW a
  PROVE  R!Sound(a) <=> /\ a # R!NoArchive /\ a.content = a.digest
                        /\ "server.db" \in DOMAIN a.content => a.content["server.db"] # R!Torn
BY DEF R!Sound, R!Extracted, R!Whole

LEMMA EmptyArchive ==
  /\ ~R!NoArchive.accepted /\ R!NoArchive.snap = R!NoFiles
  /\ \A last, log : Seen(R!NoArchive.content, last, log)
  /\ Real(R!NoArchive.digest)
  /\ Based(R!NoArchive.digest, R!NoArchive.base, R!NoArchive.hashed)
BY FileFacts DEF R!NoArchive, Seen, Real, Based

\* What was given out stays so; the log is emptied or gets a new version.
LEMMA Later ==
  ASSUME NEW last \in 0 .. MaxEdits, NEW last2 \in last .. MaxEdits, NEW log, NEW log2,
         log2 \in {log, R!Absent, R!Torn} \/ log2 \in last + 1 .. last2
  PROVE  /\ \A n, v : Past(n, v, last, log) => Past(n, v, last2, log2)
         /\ \A files : Seen(files, last, log) => Seen(files, last2, log2)
<1>1. \A n, v : Past(n, v, last, log) => Past(n, v, last2, log2)
  BY DEF Past, R!Torn
<1> QED
  BY <1>1 DEF Seen

LEMMA LaterVersions ==
  ASSUME RestoreTyped, RestoreTyped', VersionsPast,
         edits' \in edits .. MaxEdits,
         wal'.adds \in {wal.adds, R!Absent, R!Torn} \/ wal'.adds \in edits + 1 .. edits',
         archives' = archives, pack' = pack, restore' = restore,
         Seen(live', edits', wal'.adds), Past("server.db", served', edits', wal'.adds)
  PROVE  VersionsPast'
<1>1. edits \in 0 .. MaxEdits /\ edits' \in edits .. MaxEdits
  BY DEF RestoreTyped
<1>2. wal'.adds \in 0 .. edits' \cup {R!Torn}
  BY <1>1 DEF VersionsPast, R!Absent
<1>3. \A files : Seen(files, edits, wal.adds) => Seen(files, edits', wal'.adds)
  BY <1>1, Later
<1> QED
  BY <1>2, <1>3 DEF VersionsPast

LEMMA CommitStep ==
  ASSUME RestoreOK, R!Commit
  PROVE  RestoreOK'
<1>1. /\ edits < MaxEdits /\ edits' = edits + 1
      /\ live' = live /\ served' = served /\ archives' = archives /\ pack' = pack
      /\ restore' = restore /\ disturbed' = TRUE /\ restored' = R!NoArchive
  BY DEF R!Commit, R!Disturb
<1>2. PICK adds \in {R!Torn, edits + 1} : wal' = [base |-> served, adds |-> adds]
  BY DEF R!Commit
<1>3. edits \in 1 .. MaxEdits /\ served \in Versions
  BY DEF RestoreOK, RestoreTyped
<1>4. adds \in Versions /\ wal'.adds = adds /\ edits' \in edits .. MaxEdits /\ edits' \in 1 .. MaxEdits
  BY <1>1, <1>2, <1>3 DEF Versions, R!Torn
<1>5. RestoreTyped'
  BY <1>1, <1>2, <1>3, <1>4, FileFacts DEF RestoreOK, RestoreTyped
<1>6. wal'.adds \in {R!Torn} \/ wal'.adds \in edits + 1 .. edits'
  BY <1>1, <1>2, <1>3, <1>4
<1>7. /\ Seen(live', edits', wal'.adds)
      /\ Past("server.db", served', edits', wal'.adds)
  <2>1. edits \in 0 .. MaxEdits
    BY <1>3
  <2> QED
    BY <1>1, <1>4, <1>6, <2>1, Later DEF RestoreOK, VersionsPast
<1>8. VersionsPast'
  BY <1>1, <1>4, <1>5, <1>6, <1>7, LaterVersions DEF RestoreOK
<1>9. AllReal' /\ PackFaithful' /\ ArchivesFaithful' /\ Replacing' /\ Replaced'
  BY <1>1 DEF RestoreOK, AllReal, PackFaithful, ArchivesFaithful, Replacing, Replaced
<1> QED
  BY <1>5, <1>8, <1>9 DEF RestoreOK

\* The database moves to a version that nobody has seen, or is torn.
LEMMA CheckpointStep ==
  ASSUME RestoreOK, R!Checkpoint
  PROVE  RestoreOK'
<1>1. /\ edits' = edits /\ archives' = archives /\ pack' = pack /\ wal' = R!NoWal
      /\ restore' = restore /\ disturbed' = TRUE /\ restored' = R!NoArchive
  BY DEF R!Checkpoint, R!Disturb
<1>2. PICK v \in {wal.adds, R!Torn} :
        served' = v /\ (live' = live \/ live' = [live EXCEPT !["server.db"] = v])
  BY DEF R!Checkpoint
<1>3. /\ edits \in 1 .. MaxEdits /\ v \in Versions /\ wal.adds \in 0 .. edits \cup {R!Torn}
      /\ live \in [R!Names -> Versions]
  BY <1>2 DEF RestoreOK, RestoreTyped, VersionsPast, R!Torn, Versions
<1>4. wal'.adds = R!Absent /\ wal' \in [base : Versions, adds : Versions]
  BY <1>1 DEF R!NoWal, R!Absent, Versions
<1>5. RestoreTyped'
  <2>1. live' \in [R!Names -> Versions]
    BY <1>2, <1>3
  <2> QED
    BY <1>1, <1>2, <1>3, <1>4, <2>1, FileFacts DEF RestoreOK, RestoreTyped
<1>6. Past("server.db", v, edits, R!Absent)
  BY <1>2, <1>3 DEF Past
<1>7. edits \in 0 .. MaxEdits /\ edits \in edits .. MaxEdits
  BY <1>3
<1>8. Seen(live, edits, R!Absent)
  BY <1>7, Later DEF RestoreOK, VersionsPast
<1>9. Seen(live', edits, R!Absent)
  BY <1>2, <1>3, <1>6, <1>8 DEF Seen
<1>10. VersionsPast'
  BY <1>1, <1>2, <1>4, <1>5, <1>6, <1>7, <1>9, LaterVersions DEF RestoreOK
<1>11. AllReal' /\ ArchivesFaithful' /\ Replacing' /\ Replaced'
  BY <1>1 DEF RestoreOK, AllReal, ArchivesFaithful, Replacing, Replaced
<1>12. ASSUME pack.snap # R!NoFiles, pack.pc \in {"copy", "verify"}
       PROVE  Apart(pack.digest, live', pack.snap)
  <2>1. Apart(pack.digest, live, pack.snap)
    BY <1>12 DEF RestoreOK, PackFaithful
  <2>2. "server.db" \in DOMAIN pack.digest => pack.digest["server.db"] # v \/ v = R!Torn
    BY <1>2 DEF RestoreOK, VersionsPast, Seen, Past, AllReal, Real
  <2> QED
    BY <1>2, <1>3, <2>1, <2>2 DEF Apart
<1>13. PackFaithful'
  BY <1>1, <1>12 DEF RestoreOK, PackFaithful
<1> QED
  BY <1>5, <1>10, <1>11, <1>13 DEF RestoreOK

LEMMA OpenStep ==
  ASSUME RestoreOK, R!Open \/ R!CloseOrDie
  PROVE  RestoreOK'
<1>1. /\ live' = live /\ wal' = wal /\ edits' = edits /\ archives' = archives /\ pack' = pack
      /\ restore' = restore /\ disturbed' = disturbed /\ restored' = restored
  BY DEF R!Open, R!CloseOrDie
<1>2. served' \in {live["server.db"], R!Absent}
  BY DEF R!Open, R!CloseOrDie
<1>3. served' \in Versions
  BY <1>2, FileFacts DEF RestoreOK, RestoreTyped, R!Absent, Versions
<1>4. RestoreTyped'
  BY <1>1, <1>3 DEF RestoreOK, RestoreTyped
<1>5. Past("server.db", served', edits, wal.adds)
  <2>1. R!Absent \in 0 .. edits
    BY DEF RestoreOK, RestoreTyped, R!Absent
  <2>2. Past("server.db", live["server.db"], edits, wal.adds)
    BY FileFacts DEF RestoreOK, RestoreTyped, VersionsPast, Seen
  <2> QED
    BY <1>2, <2>1, <2>2 DEF Past
<1>6. VersionsPast'
  BY <1>1, <1>5 DEF RestoreOK, VersionsPast
<1>7. AllReal' /\ PackFaithful' /\ ArchivesFaithful' /\ Replacing' /\ Replaced'
  BY <1>1 DEF RestoreOK, AllReal, PackFaithful, ArchivesFaithful, Replacing, Replaced
<1> QED
  BY <1>4, <1>6, <1>7 DEF RestoreOK

LEMMA EditFileStep ==
  ASSUME RestoreOK, NEW n \in R!Names, R!Edit(n)
  PROVE  RestoreOK'
<1>1. /\ n # "server.db" /\ edits < MaxEdits /\ edits' = edits + 1
      /\ wal' = wal /\ served' = served /\ archives' = archives /\ pack' = pack
      /\ restore' = restore /\ disturbed' = TRUE /\ restored' = R!NoArchive
  BY DEF R!Edit, R!Disturb
<1>2. PICK v \in {edits + 1, R!Absent} : live' = [live EXCEPT ![n] = v]
  BY DEF R!Edit
<1>3. edits \in 1 .. MaxEdits /\ live \in [R!Names -> Versions]
  BY DEF RestoreOK, RestoreTyped
<1>4. /\ v \in Versions /\ v \in 0 .. edits' /\ edits' \in edits .. MaxEdits /\ edits' \in 1 .. MaxEdits
      /\ edits \in 0 .. MaxEdits
  BY <1>1, <1>2, <1>3 DEF Versions, R!Absent
<1>5. RestoreTyped'
  BY <1>1, <1>2, <1>3, <1>4, FileFacts DEF RestoreOK, RestoreTyped
<1>6. Seen(live, edits', wal.adds) /\ Past("server.db", served, edits', wal.adds)
  BY <1>4, Later DEF RestoreOK, VersionsPast
<1>7. Seen(live', edits', wal.adds)
  BY <1>1, <1>2, <1>3, <1>4, <1>6 DEF Seen, Past
<1>8. VersionsPast'
  BY <1>1, <1>4, <1>5, <1>6, <1>7, LaterVersions DEF RestoreOK
<1>9. AllReal' /\ ArchivesFaithful' /\ Replacing' /\ Replaced'
  BY <1>1 DEF RestoreOK, AllReal, ArchivesFaithful, Replacing, Replaced
<1>10. ASSUME pack.snap # R!NoFiles, pack.pc \in {"copy", "verify"}
       PROVE  Apart(pack.digest, live', pack.snap)
  <2>1. Apart(pack.digest, live, pack.snap)
    BY <1>10 DEF RestoreOK, PackFaithful
  <2>2. n \in DOMAIN pack.digest => pack.digest[n] \in 0 .. edits /\ pack.digest[n] # R!Absent
    BY <1>1 DEF RestoreOK, VersionsPast, Seen, Past, AllReal, Real
  <2>3. n \in DOMAIN pack.digest => pack.digest[n] # v
    BY <1>2, <1>3, <2>2
  <2> QED
    BY <1>2, <1>3, <2>1, <2>3 DEF Apart
<1>11. PackFaithful'
  BY <1>1, <1>10 DEF RestoreOK, PackFaithful
<1> QED
  BY <1>5, <1>8, <1>9, <1>11 DEF RestoreOK

\* A backup goes on: what it holds is typed, seen and faithful.
LEMMA PackStep ==
  ASSUME RestoreOK, NEW q \in PackSet, pack' = q,
         live' = live, wal' = wal, served' = served, edits' = edits, archives' = archives,
         restore' = restore, disturbed' = disturbed, restored' = restored,
         Seen(q.digest, edits, wal.adds), Seen(q.content, edits, wal.adds), Real(q.digest),
         q.pc \in {"idle", "hash"} => q.content = R!NoFiles,
         q.pc \in {"copy", "verify"} =>
           /\ Based(q.digest, q.base, q.hashed)
           /\ q.snap # R!NoFiles => Apart(q.digest, live, q.snap) /\ Apart(q.digest, q.content, q.snap)
  PROVE  RestoreOK'
<1>1. RestoreTyped'
  BY DEF RestoreOK, RestoreTyped
<1>2. VersionsPast' /\ AllReal'
  BY DEF RestoreOK, VersionsPast, AllReal
<1>3. PackFaithful'
  BY DEF PackFaithful
<1>4. ArchivesFaithful' /\ Replacing' /\ Replaced'
  BY DEF RestoreOK, ArchivesFaithful, Replacing, Replaced
<1> QED
  BY <1>1, <1>2, <1>3, <1>4 DEF RestoreOK

LEMMA IdlePack ==
  /\ R!NoPack \in PackSet /\ R!NoPack.pc = "idle" /\ R!NoPack.content = R!NoFiles
  /\ R!NoPack.digest = R!NoFiles
  /\ \A last, log : Seen(R!NoFiles, last, log)
  /\ Real(R!NoFiles)
BY FileFacts DEF R!NoPack, PackSet, R!Kinds, Seen, Real

LEMMA BeginPackStep ==
  ASSUME RestoreOK, NEW k \in R!Kinds, R!BeginPack(k)
  PROVE  RestoreOK'
<1>1. PICK b : b = IF k = "hourly" THEN archives["full"].digest ELSE R!NoFiles
  OBVIOUS
<1>2. b \in FileSets
  BY <1>1, FileFacts DEF RestoreOK, RestoreTyped, ArchiveSet, R!Kinds
<1>3. PICK q : q = [R!NoPack EXCEPT !.pc = "hash", !.kind = k, !.base = b]
  OBVIOUS
<1>4. q \in PackSet /\ q.pc = "hash" /\ q.content = R!NoFiles /\ q.digest = R!NoFiles
  BY <1>2, <1>3, IdlePack DEF PackSet
<1>5. /\ pack' = q /\ live' = live /\ wal' = wal /\ served' = served /\ edits' = edits
      /\ archives' = archives /\ restore' = restore /\ disturbed' = disturbed /\ restored' = restored
  BY <1>1, <1>3 DEF R!BeginPack
<1> QED
  BY <1>4, <1>5, IdlePack, PackStep

LEMMA HashStep ==
  ASSUME RestoreOK, R!HashSource
  PROVE  RestoreOK'
<1>1. /\ pack.pc = "hash" /\ pack \in PackSet /\ pack.at \in 1 .. 3
      /\ pack.content = R!NoFiles /\ pack.digest \in FileSets
  BY FileFacts DEF R!HashSource, RestoreOK, RestoreTyped, PackSet, PackFaithful
<1>2. PICK n \in R!Names : n = R!Members[pack.at]
  BY <1>1, FileFacts
<1>3. PICK d : d = IF live[n] = R!Absent THEN pack.digest ELSE R!With(pack.digest, n, live[n])
  OBVIOUS
<1>4. /\ live \in [R!Names -> Versions] /\ Seen(live, edits, wal.adds)
      /\ Seen(pack.digest, edits, wal.adds) /\ Real(pack.digest)
  BY DEF RestoreOK, RestoreTyped, VersionsPast, AllReal
<1>5. live[n] \in Versions /\ Past(n, live[n], edits, wal.adds)
  BY <1>2, <1>4 DEF Seen
<1>6. n # "server.db" => live[n] # R!Torn
  BY <1>5 DEF Past, RestoreOK, RestoreTyped, R!Torn
<1>7. d \in FileSets /\ Seen(d, edits, wal.adds) /\ Real(d)
  <2>1. CASE live[n] = R!Absent
    BY <1>1, <1>3, <1>4, <2>1
  <2>2. CASE live[n] # R!Absent
    <3>1. d = R!With(pack.digest, n, live[n])
      BY <1>3, <2>2
    <3>2. /\ d \in FileSets /\ DOMAIN d = DOMAIN pack.digest \cup {n} /\ d[n] = live[n]
          /\ \A m \in DOMAIN pack.digest \ {n} : d[m] = pack.digest[m]
      <4>1. PICK e \in FileSets, v \in Versions : e = pack.digest /\ v = live[n]
        BY <1>1, <1>5
      <4>2. /\ R!With(e, n, v) \in FileSets /\ DOMAIN R!With(e, n, v) = DOMAIN e \cup {n}
            /\ R!With(e, n, v)[n] = v
            /\ \A m \in DOMAIN e \ {n} : R!With(e, n, v)[m] = e[m]
        BY WithFacts, ZenonT(60)
      <4> QED
        BY <3>1, <4>1, <4>2
    <3> QED
      BY <1>4, <1>5, <1>6, <2>2, <3>2 DEF Seen, Real
  <2> QED
    BY <2>1, <2>2
<1>8. PICK t \in 1 .. 4 : t = pack.at + 1
  BY <1>1
<1>11. PICK q : q = [pack EXCEPT !.at = t, !.digest = d]
  OBVIOUS
<1>9. q \in PackSet /\ q.pc = "hash" /\ q.content = R!NoFiles /\ q.digest = d
  BY <1>1, <1>7, <1>11 DEF PackSet
<1>10. /\ pack' = q /\ live' = live /\ wal' = wal /\ served' = served /\ edits' = edits
       /\ archives' = archives /\ restore' = restore /\ disturbed' = disturbed /\ restored' = restored
  BY <1>2, <1>3, <1>8, <1>11 DEF R!HashSource
<1> QED
  BY <1>7, <1>9, <1>10, IdlePack, PackStep

LEMMA ManifestStep ==
  ASSUME RestoreOK, R!Manifest
  PROVE  RestoreOK'
<1>1. /\ pack.pc = "hash" /\ pack \in PackSet /\ pack.content = R!NoFiles
      /\ pack.digest \in FileSets
  BY DEF R!Manifest, RestoreOK, RestoreTyped, PackSet, PackFaithful
<1>2. PICK kept : kept = R!Only(pack.digest, R!Unlike(pack.digest, pack.base))
  OBVIOUS
<1>3. /\ live \in [R!Names -> Versions] /\ live \in FileSets
      /\ Seen(pack.digest, edits, wal.adds) /\ Real(pack.digest)
  BY FileFacts DEF RestoreOK, RestoreTyped, VersionsPast, AllReal
<1>4. /\ kept \in FileSets
      /\ DOMAIN kept = DOMAIN pack.digest \cap R!Unlike(pack.digest, pack.base)
      /\ \A m \in DOMAIN kept : kept[m] = pack.digest[m]
  <2>1. PICK e \in FileSets, names \in {R!Unlike(pack.digest, pack.base)} : e = pack.digest
    BY <1>1
  <2>2. /\ R!Only(e, names) \in FileSets /\ DOMAIN R!Only(e, names) = DOMAIN e \cap names
        /\ \A m \in DOMAIN e \cap names : R!Only(e, names)[m] = e[m]
    BY OnlyFacts, Zenon
  <2> QED
    BY <1>2, <2>1, <2>2
<1>12. DOMAIN kept \subseteq DOMAIN pack.digest
  BY <1>4
<1>5. Seen(kept, edits, wal.adds) /\ Real(kept)
  BY <1>3, <1>4, <1>12 DEF Seen, Real
<1>6. Based(kept, pack.base, pack.digest)
  BY <1>4 DEF Based, R!Unlike
<1>7. Apart(kept, live, live)
  BY DEF Apart
<1>8. Apart(kept, R!NoFiles, live)
  BY FileFacts DEF Apart
<1>9. PICK q : q = [pack EXCEPT !.pc = "copy", !.at = 1, !.digest = kept,
                                !.hashed = pack.digest, !.snap = live]
  OBVIOUS
<1>10. /\ q \in PackSet /\ q.pc = "copy" /\ q.content = R!NoFiles /\ q.digest = kept
       /\ q.hashed = pack.digest /\ q.snap = live /\ q.base = pack.base
  <2>1. 1 \in 1 .. 4 /\ kept \in FileSets
    BY <1>4
  <2> QED
    BY <1>1, <1>3, <1>9, <2>1 DEF PackSet
<1>11. /\ pack' = q /\ live' = live /\ wal' = wal /\ served' = served /\ edits' = edits
       /\ archives' = archives /\ restore' = restore /\ disturbed' = disturbed /\ restored' = restored
  BY <1>2, <1>9 DEF R!Manifest
<1> QED
  BY <1>5, <1>6, <1>7, <1>8, <1>10, <1>11, IdlePack, PackStep

LEMMA CopyStep ==
  ASSUME RestoreOK, R!CopySource
  PROVE  RestoreOK'
<1>1. /\ pack.pc = "copy" /\ pack \in PackSet /\ pack.at \in 1 .. 3
      /\ pack.content \in FileSets
  BY FileFacts DEF R!CopySource, RestoreOK, RestoreTyped, PackSet
<1>2. PICK n \in R!Names : n = R!Members[pack.at]
  BY <1>1, FileFacts
<1>3. PICK c : c = IF n \in DOMAIN pack.digest THEN R!With(pack.content, n, live[n]) ELSE pack.content
  OBVIOUS
<1>4. /\ live \in [R!Names -> Versions] /\ Seen(live, edits, wal.adds)
      /\ Seen(pack.digest, edits, wal.adds) /\ Real(pack.digest)
      /\ Seen(pack.content, edits, wal.adds)
      /\ Based(pack.digest, pack.base, pack.hashed)
  BY <1>1 DEF RestoreOK, RestoreTyped, VersionsPast, AllReal, PackFaithful
<1>5. live[n] \in Versions /\ Past(n, live[n], edits, wal.adds)
  BY <1>2, <1>4 DEF Seen
<1>6. /\ c \in FileSets /\ Seen(c, edits, wal.adds)
      /\ \A m \in DOMAIN c : c[m] = live[m] \/ (m \in DOMAIN pack.content /\ c[m] = pack.content[m])
  <2>1. CASE n \notin DOMAIN pack.digest
    BY <1>1, <1>3, <1>4, <2>1
  <2>2. CASE n \in DOMAIN pack.digest
    <3>1. c = R!With(pack.content, n, live[n])
      BY <1>3, <2>2
    <3>2. /\ c \in FileSets /\ DOMAIN c = DOMAIN pack.content \cup {n} /\ c[n] = live[n]
          /\ \A m \in DOMAIN pack.content \ {n} : c[m] = pack.content[m]
      <4>1. PICK e \in FileSets, v \in Versions : e = pack.content /\ v = live[n]
        BY <1>1, <1>5
      <4>2. /\ R!With(e, n, v) \in FileSets /\ DOMAIN R!With(e, n, v) = DOMAIN e \cup {n}
            /\ R!With(e, n, v)[n] = v
            /\ \A m \in DOMAIN e \ {n} : R!With(e, n, v)[m] = e[m]
        BY WithFacts, ZenonT(60)
      <4> QED
        BY <3>1, <4>1, <4>2
    <3> QED
      BY <1>4, <1>5, <3>2 DEF Seen
  <2> QED
    BY <2>1, <2>2
<1>7. ASSUME pack.snap # R!NoFiles
      PROVE  Apart(pack.digest, live, pack.snap) /\ Apart(pack.digest, c, pack.snap)
  <2>1. Apart(pack.digest, live, pack.snap) /\ Apart(pack.digest, pack.content, pack.snap)
    BY <1>1, <1>7 DEF RestoreOK, PackFaithful
  <2>2. DOMAIN c \subseteq R!Names /\ DOMAIN live = R!Names
    BY <1>4, <1>6, FileFacts
  <2> QED
    BY <1>6, <2>1, <2>2 DEF Apart
<1>8. PICK t \in 1 .. 4 : t = pack.at + 1
  BY <1>1
<1>11. PICK q : q = [pack EXCEPT !.at = t, !.content = c]
  OBVIOUS
<1>9. /\ q \in PackSet /\ q.pc = "copy" /\ q.content = c /\ q.digest = pack.digest
      /\ q.hashed = pack.hashed /\ q.snap = pack.snap /\ q.base = pack.base
  BY <1>1, <1>6, <1>11 DEF PackSet
<1>10. /\ pack' = q /\ live' = live /\ wal' = wal /\ served' = served /\ edits' = edits
       /\ archives' = archives /\ restore' = restore /\ disturbed' = disturbed /\ restored' = restored
  BY <1>2, <1>3, <1>8, <1>11 DEF R!CopySource
<1> QED
  BY <1>4, <1>6, <1>7, <1>9, <1>10, PackStep

LEMMA AbandonStep ==
  ASSUME RestoreOK, R!AbandonArchive
  PROVE  RestoreOK'
<1>1. /\ pack' = R!NoPack /\ live' = live /\ wal' = wal /\ served' = served /\ edits' = edits
      /\ archives' = archives /\ restore' = restore /\ disturbed' = disturbed /\ restored' = restored
  BY DEF R!AbandonArchive
<1> QED
  BY <1>1, IdlePack, PackStep

\* An archive is placed or removed: nobody restores from it undisturbed.
LEMMA ArchiveStep ==
  ASSUME RestoreOK, NEW k \in R!Kinds, NEW a \in ArchiveSet, NEW q \in PackSet,
         archives' = [archives EXCEPT ![k] = a], pack' = q,
         Seen(a.content, edits, wal.adds), Real(a.digest), Based(a.digest, a.base, a.hashed),
         a.snap # R!NoFiles => Apart(a.digest, a.content, a.snap), ~a.accepted,
         live' = live, wal' = wal, served' = served, edits' = edits, restore' = restore,
         disturbed' = TRUE, restored' \in {restored, R!NoArchive},
         k = "hourly" => a = R!NoArchive \/ restored' = R!NoArchive,
         q = R!NoPack \/ (q.pc = "verify" /\ pack.pc = "copy" /\ q = [pack EXCEPT !.pc = "verify"])
  PROVE  RestoreOK'
<1>1. RestoreTyped'
  BY FileFacts DEF RestoreOK, RestoreTyped
<1>2. /\ q.digest = pack.digest \/ q.digest = R!NoFiles
      /\ q.content = pack.content \/ q.content = R!NoFiles
  BY IdlePack DEF RestoreOK, RestoreTyped, PackSet
<1>3. \A j \in R!Kinds : archives'[j] = IF j = k THEN a ELSE archives[j]
  BY DEF RestoreOK, RestoreTyped
<1>4. VersionsPast'
  BY <1>2, <1>3, IdlePack DEF RestoreOK, VersionsPast
<1>5. AllReal'
  BY <1>2, <1>3, IdlePack DEF RestoreOK, AllReal
<1>6. PackFaithful'
  <2>1. CASE q = R!NoPack
    BY <2>1, IdlePack DEF PackFaithful
  <2>2. CASE q.pc = "verify" /\ pack.pc = "copy" /\ q = [pack EXCEPT !.pc = "verify"]
    <3>1. /\ q.content = pack.content /\ q.digest = pack.digest
          /\ q.hashed = pack.hashed /\ q.snap = pack.snap /\ q.base = pack.base
      BY <2>2 DEF RestoreOK, RestoreTyped, PackSet
    <3> QED
      BY <2>2, <3>1 DEF RestoreOK, PackFaithful
  <2> QED
    BY <2>1, <2>2
<1>7. ArchivesFaithful'
  BY <1>3 DEF RestoreOK, ArchivesFaithful
<1>8. Replacing'
  BY DEF Replacing
<1>9. Replaced'
  BY <1>3 DEF RestoreOK, Replaced, R!Kinds
<1> QED
  BY <1>1, <1>4, <1>5, <1>6, <1>7, <1>8, <1>9 DEF RestoreOK

LEMMA PlaceArchiveStep ==
  ASSUME RestoreOK, R!PlaceArchive
  PROVE  RestoreOK'
<1>1. PICK a : a = [digest |-> pack.digest, content |-> pack.content, base |-> pack.base,
                    hashed |-> pack.hashed, snap |-> pack.snap, accepted |-> FALSE]
  OBVIOUS
<1>2. PICK q : q = [pack EXCEPT !.pc = "verify"]
  OBVIOUS
<1>3. PICK k \in R!Kinds : k = pack.kind
  BY DEF RestoreOK, RestoreTyped, PackSet
<1>4. /\ pack.pc = "copy" /\ pack \in PackSet
      /\ Seen(pack.content, edits, wal.adds) /\ Real(pack.digest)
      /\ Based(pack.digest, pack.base, pack.hashed)
      /\ pack.snap # R!NoFiles => Apart(pack.digest, pack.content, pack.snap)
  BY DEF R!PlaceArchive, RestoreOK, RestoreTyped, VersionsPast, AllReal, PackFaithful
<1>5. q \in PackSet /\ q.pc = "verify"
  BY <1>2, <1>4 DEF PackSet
<1>6. /\ a \in ArchiveSet /\ ~a.accepted /\ a.digest = pack.digest /\ a.content = pack.content
      /\ a.base = pack.base /\ a.hashed = pack.hashed /\ a.snap = pack.snap
  BY <1>1, <1>4 DEF PackSet, ArchiveSet
<1>7. /\ archives' = [archives EXCEPT ![k] = a] /\ pack' = q /\ disturbed' = TRUE
      /\ restored' = (IF k = "hourly" THEN R!NoArchive ELSE restored)
      /\ live' = live /\ wal' = wal /\ served' = served /\ edits' = edits /\ restore' = restore
  BY <1>1, <1>2, <1>3 DEF R!PlaceArchive
<1> QED
  BY <1>2, <1>4, <1>5, <1>6, <1>7, ArchiveStep

LEMMA FailPackStep ==
  ASSUME RestoreOK, R!FailPack
  PROVE  RestoreOK'
<1>1. PICK k \in R!Kinds : k = pack.kind
  BY DEF RestoreOK, RestoreTyped, PackSet
<1>2. /\ pack' = R!NoPack /\ disturbed' = TRUE /\ restored' = restored
      /\ live' = live /\ wal' = wal /\ served' = served /\ edits' = edits /\ restore' = restore
  BY DEF R!FailPack
<1>3. CASE pack.pc = "copy"
  <2>1. archives' = [archives EXCEPT ![k] = R!NoArchive]
    BY <1>1, <1>3 DEF R!FailPack
  <2> QED
    BY <1>2, <2>1, EmptyArchive, FileFacts, IdlePack, ArchiveStep
<1>4. CASE pack.pc # "copy"
  <2>1. archives' = archives
    BY <1>1, <1>4 DEF R!FailPack, RestoreOK, RestoreTyped
  <2>2. RestoreTyped'
    BY <1>2, <2>1, IdlePack DEF RestoreOK, RestoreTyped
  <2>3. VersionsPast' /\ AllReal' /\ PackFaithful'
    BY <1>2, <2>1, IdlePack DEF RestoreOK, VersionsPast, AllReal, PackFaithful
  <2>4. ArchivesFaithful' /\ Replacing' /\ Replaced'
    BY <1>2, <2>1 DEF RestoreOK, ArchivesFaithful, Replacing, Replaced
  <2> QED
    BY <2>2, <2>3, <2>4 DEF RestoreOK
<1> QED
  BY <1>3, <1>4

\* Only what was accepted changes, or the archive goes.
LEMMA VerifyStep ==
  ASSUME RestoreOK, R!VerifyArchive
  PROVE  RestoreOK'
<1>1. PICK k \in R!Kinds : k = pack.kind
  BY DEF RestoreOK, RestoreTyped, PackSet
<1>2. /\ pack' = R!NoPack /\ restored' = restored
      /\ live' = live /\ wal' = wal /\ served' = served /\ edits' = edits /\ restore' = restore
  BY DEF R!VerifyArchive
<1>3. CASE archives' = [archives EXCEPT ![k] = R!NoArchive] /\ disturbed' = TRUE
  BY <1>2, <1>3, EmptyArchive, FileFacts, IdlePack, ArchiveStep
<1>4. CASE /\ R!Sound(archives[k]) /\ archives' = [archives EXCEPT ![k].accepted = TRUE]
           /\ disturbed' = disturbed
  <2>1. PICK a : a = [archives[k] EXCEPT !.accepted = TRUE]
    OBVIOUS
  <2>2. archives[k] \in ArchiveSet /\ archives \in [R!Kinds -> ArchiveSet]
    BY DEF RestoreOK, RestoreTyped
  <2>3. /\ a \in ArchiveSet /\ a.accepted
        /\ a.digest = archives[k].digest /\ a.content = archives[k].content
        /\ a.base = archives[k].base /\ a.hashed = archives[k].hashed /\ a.snap = archives[k].snap
    BY <2>1, <2>2 DEF ArchiveSet
  <2>4. archives' = [archives EXCEPT ![k] = a]
    BY <1>4, <2>1, <2>2
  <2>5. a # R!NoArchive
    BY <2>3, EmptyArchive
  <2>6. R!Sound(a)
    BY <1>4, <2>3, <2>5, SoundFacts
  <2>7. /\ archives'[k] = a
        /\ \A j \in R!Kinds \ {k} : archives'[j] = archives[j]
    BY <2>2, <2>4
  <2>8. RestoreTyped'
    BY <1>2, <1>4, <2>2, <2>3, <2>4, IdlePack DEF RestoreOK, RestoreTyped
  <2>9. ASSUME NEW j \in R!Kinds
        PROVE  /\ archives'[j].content = archives[j].content
               /\ archives'[j].digest = archives[j].digest
               /\ R!Sound(archives[j]) => R!Sound(archives'[j])
               /\ archives[j] = R!NoArchive => archives'[j] = R!NoArchive
    <3>1. archives[k] # R!NoArchive
      BY <1>4, SoundFacts
    <3>2. CASE j = k
      BY <2>3, <2>6, <2>7, <3>1, <3>2
    <3>3. CASE j # k
      BY <2>7, <3>3
    <3> QED
      BY <3>2, <3>3
  <2>10. VersionsPast' /\ AllReal'
    <3>1. /\ \A j \in R!Kinds : Seen(archives'[j].content, edits, wal.adds)
          /\ \A j \in R!Kinds : Real(archives'[j].digest)
      BY <2>9 DEF RestoreOK, VersionsPast, AllReal
    <3> QED
      BY <1>2, <3>1, IdlePack DEF RestoreOK, VersionsPast, AllReal
  <2>11. PackFaithful'
    BY <1>2, IdlePack DEF PackFaithful
  <2>12. ArchivesFaithful'
    BY <2>3, <2>6, <2>7 DEF RestoreOK, ArchivesFaithful
  <2>13. Replacing'
    <3>1. restore \in RestoreSet
      BY DEF RestoreOK, RestoreTyped
    <3>2. restore.kind \in R!Kinds
      BY <3>1 DEF RestoreSet
    <3>3. PICK j \in R!Kinds : j = restore.kind
      BY <3>2
    <3>4. /\ archives'[j].content = archives[j].content
          /\ archives'[j].digest = archives[j].digest
          /\ R!Sound(archives[j]) => R!Sound(archives'[j])
      BY <2>9
    <3> QED
      BY <1>2, <1>4, <3>3, <3>4 DEF RestoreOK, Replacing
  <2>14. Replaced'
    <3>1. PICK j \in R!Kinds : j = "hourly"
      BY DEF R!Kinds
    <3>2. /\ archives'[j].digest = archives[j].digest
          /\ archives[j] = R!NoArchive => archives'[j] = R!NoArchive
      BY <2>9
    <3> QED
      BY <1>2, <3>1, <3>2 DEF RestoreOK, Replaced
  <2> QED
    BY <2>8, <2>10, <2>11, <2>12, <2>13, <2>14 DEF RestoreOK
<1> QED
  BY <1>1, <1>3, <1>4 DEF R!VerifyArchive

\* A restore goes on, and no file is replaced.
LEMMA RestorerStep ==
  ASSUME RestoreOK, NEW r \in RestoreSet, restore' = r,
         live' = live, wal' = wal, served' = served, edits' = edits, archives' = archives, pack' = pack,
         disturbed' \in BOOLEAN, restored' \in ArchiveSet,
         Seen(r.stage, edits, wal.adds), Replacing', Replaced'
  PROVE  RestoreOK'
<1>1. RestoreTyped'
  BY DEF RestoreOK, RestoreTyped
<1>2. VersionsPast' /\ AllReal' /\ PackFaithful' /\ ArchivesFaithful'
  BY DEF RestoreOK, VersionsPast, AllReal, PackFaithful, ArchivesFaithful
<1> QED
  BY <1>1, <1>2 DEF RestoreOK

LEMMA BeginRestoreStep ==
  ASSUME RestoreOK, NEW k \in R!Kinds, R!BeginRestore(k)
  PROVE  RestoreOK'
<1>1. PICK r : r = [R!NoRestore EXCEPT !.pc = "stage", !.kind = k, !.names = DOMAIN archives[k].digest]
  OBVIOUS
<1>2. archives[k].digest \in FileSets /\ archives[k] \in ArchiveSet
  BY DEF RestoreOK, RestoreTyped, ArchiveSet
<1>3. /\ r \in RestoreSet /\ r.stage = R!NoFiles /\ r.pc = "stage" /\ r.kind = k
      /\ r.names = DOMAIN archives[k].digest
  <2>1. DOMAIN archives[k].digest \in SUBSET R!Names
    BY <1>2, FileFacts
  <2> QED
    BY <1>1, <2>1, FileFacts DEF R!NoRestore, RestoreSet
<1>4. /\ restore' = r /\ live' = live /\ wal' = wal /\ served' = served /\ edits' = edits
      /\ archives' = archives /\ pack' = pack /\ disturbed' = FALSE /\ restored' = restored
      /\ R!Sound(archives[k])
  BY <1>1 DEF R!BeginRestore
<1>5. Replacing'
  BY <1>3, <1>4 DEF Replacing
<1>6. Replaced' /\ restored' \in ArchiveSet
  BY <1>4 DEF RestoreOK, RestoreTyped, Replaced
<1> QED
  BY <1>3, <1>4, <1>5, <1>6, IdlePack, RestorerStep

LEMMA StageStep ==
  ASSUME RestoreOK, R!Stage
  PROVE  RestoreOK'
<1>1. restore \in RestoreSet /\ restore.pc = "stage"
  BY DEF R!Stage, RestoreOK, RestoreTyped
<1>2. PICK k \in R!Kinds : k = restore.kind
  BY <1>1 DEF RestoreSet
<1>3. archives[k] \in ArchiveSet /\ Seen(archives[k].content, edits, wal.adds)
  BY DEF RestoreOK, RestoreTyped, VersionsPast
<1>4. PICK r : r = [restore EXCEPT !.pc = "place", !.stage = archives[k].content]
  OBVIOUS
<1>5. /\ r \in RestoreSet /\ r.stage = archives[k].content /\ r.pc = "place" /\ r.kind = k
      /\ r.names = restore.names
  BY <1>1, <1>2, <1>3, <1>4 DEF RestoreSet, ArchiveSet
<1>6. /\ restore' = r /\ live' = live /\ wal' = wal /\ served' = served /\ edits' = edits
      /\ archives' = archives /\ pack' = pack /\ disturbed' = disturbed /\ restored' = restored
  BY <1>2, <1>4 DEF R!Stage, R!Extracted
<1>7. ~disturbed => R!Sound(archives[k]) /\ restore.names = DOMAIN archives[k].digest
  BY <1>1, <1>2 DEF RestoreOK, Replacing
<1>8. Replacing'
  BY <1>5, <1>6, <1>7, SoundFacts DEF Replacing
<1>9. Replaced' /\ restored' \in ArchiveSet /\ disturbed' \in BOOLEAN
  BY <1>6 DEF RestoreOK, RestoreTyped, Replaced
<1> QED
  BY <1>3, <1>5, <1>6, <1>8, <1>9, RestorerStep

\* A file gets back a version that it had; a backup under way is not held to
\* have seen one state of the files.
LEMMA PlaceStep ==
  ASSUME RestoreOK, R!Place
  PROVE  RestoreOK'
<1>1. restore \in RestoreSet /\ restore.pc = "place" /\ pack \in PackSet
  BY DEF R!Place, RestoreOK, RestoreTyped
<1>2. PICK k \in R!Kinds : k = restore.kind
  BY <1>1 DEF RestoreSet
<1>3. PICK n : n = R!NextName
  OBVIOUS
<1>4. n \in DOMAIN restore.stage /\ restore.stage \in FileSets
  BY <1>1, <1>3 DEF R!Place, RestoreSet
<1>5. PICK v : v = restore.stage[n]
  OBVIOUS
<1>6. n \in R!Names /\ v \in Versions /\ Past(n, v, edits, wal.adds)
  BY <1>4, <1>5, FileFacts DEF RestoreOK, VersionsPast, Seen
<1>7. PICK r : r = [restore EXCEPT !.names = restore.names \ {n}]
  OBVIOUS
<1>8. PICK q : q = [pack EXCEPT !.snap = R!NoFiles]
  OBVIOUS
<1>9. /\ restore' = r /\ live' = [live EXCEPT ![n] = v] /\ wal' = wal /\ served' = served
      /\ edits' = edits /\ archives' = archives /\ pack' = q /\ disturbed' = disturbed
      /\ restored' = IF k = "hourly" /\ ~disturbed THEN restored ELSE R!NoArchive
  BY <1>2, <1>3, <1>5, <1>7, <1>8 DEF R!Place, R!Placed
<1>10. /\ r \in RestoreSet /\ r.stage = restore.stage /\ r.pc = "place" /\ r.kind = k
       /\ r.names = restore.names \ {n}
  BY <1>1, <1>2, <1>7 DEF RestoreSet
<1>11. /\ q \in PackSet /\ q.snap = R!NoFiles /\ q.pc = pack.pc /\ q.digest = pack.digest
       /\ q.content = pack.content /\ q.base = pack.base /\ q.hashed = pack.hashed
  BY <1>1, <1>8, FileFacts DEF PackSet
<1>12. live \in [R!Names -> Versions] /\ Seen(live, edits, wal.adds)
  BY DEF RestoreOK, RestoreTyped, VersionsPast
<1>13. /\ live' \in [R!Names -> Versions] /\ Seen(live', edits, wal.adds)
       /\ live'[n] = v /\ \A m \in R!Names \ {n} : live'[m] = live[m]
  BY <1>6, <1>9, <1>12 DEF Seen
<1>14. RestoreTyped'
  BY <1>9, <1>10, <1>11, <1>13, FileFacts DEF RestoreOK, RestoreTyped
<1>15. VersionsPast' /\ AllReal'
  BY <1>9, <1>10, <1>11, <1>13 DEF RestoreOK, VersionsPast, AllReal
<1>16. PackFaithful'
  BY <1>9, <1>11 DEF RestoreOK, PackFaithful
<1>17. ArchivesFaithful'
  BY <1>9 DEF RestoreOK, ArchivesFaithful
<1>18. archives[k] \in ArchiveSet /\ archives[k].digest \in FileSets
  BY DEF RestoreOK, RestoreTyped, ArchiveSet
<1>19. ~disturbed => /\ R!Sound(archives[k]) /\ restore.stage = archives[k].digest
                     /\ \A m \in DOMAIN archives[k].digest \ restore.names :
                          live[m] = archives[k].digest[m]
  BY <1>1, <1>2 DEF RestoreOK, Replacing
<1>20. DOMAIN archives[k].digest \subseteq R!Names
  BY <1>18, FileFacts
<1>21. ~disturbed => \A m \in DOMAIN archives[k].digest \ (restore.names \ {n}) :
                       live'[m] = archives[k].digest[m]
  BY <1>5, <1>13, <1>19, <1>20
<1>22. Replacing'
  BY <1>9, <1>10, <1>19, <1>21 DEF Replacing
<1>23. Replaced'
  <2>1. CASE k = "hourly" /\ ~disturbed
    <3>1. n \in DOMAIN archives["hourly"].digest
      BY <1>4, <1>19, <2>1
    <3>2. restored \in ArchiveSet /\ DOMAIN restored.digest \subseteq R!Names
      BY FileFacts DEF RestoreOK, RestoreTyped, ArchiveSet
    <3> QED
      BY <1>9, <1>13, <2>1, <3>1, <3>2 DEF RestoreOK, Replaced
  <2>2. CASE ~(k = "hourly" /\ ~disturbed)
    BY <1>9, <2>2 DEF Replaced
  <2> QED
    BY <2>1, <2>2
<1> QED
  BY <1>14, <1>15, <1>16, <1>17, <1>22, <1>23 DEF RestoreOK

LEMMA DoneStep ==
  ASSUME RestoreOK, R!Done
  PROVE  RestoreOK'
<1>1. restore \in RestoreSet /\ restore.pc = "place" /\ restore.names = {}
  BY DEF R!Done, RestoreOK, RestoreTyped
<1>2. PICK k \in R!Kinds : k = restore.kind
  BY <1>1 DEF RestoreSet
<1>3. PICK r : r = [restore EXCEPT !.pc = "done"]
  OBVIOUS
<1>4. /\ r \in RestoreSet /\ r.stage = restore.stage /\ r.pc = "done" /\ r.kind = k
      /\ r.names = {}
  BY <1>1, <1>2, <1>3 DEF RestoreSet
<1>5. /\ restore' = r /\ live' = live /\ wal' = wal /\ served' = served /\ edits' = edits
      /\ archives' = archives /\ pack' = pack /\ disturbed' = disturbed
      /\ restored' = IF disturbed THEN R!NoArchive
                     ELSE IF k = "full" THEN archives["full"] ELSE restored
  BY <1>2, <1>3 DEF R!Done
<1>6. Seen(restore.stage, edits, wal.adds) /\ disturbed \in BOOLEAN /\ restored' \in ArchiveSet
  BY <1>5, FileFacts DEF RestoreOK, RestoreTyped, VersionsPast, R!Kinds
<1>7. ~disturbed => /\ R!Sound(archives[k]) /\ restore.stage = archives[k].digest
                    /\ \A m \in DOMAIN archives[k].digest : live[m] = archives[k].digest[m]
  BY <1>1, <1>2 DEF RestoreOK, Replacing
<1>8. Replacing'
  BY <1>4, <1>5, <1>7 DEF Replacing
<1>9. Replaced'
  <2>1. CASE disturbed
    BY <1>5, <2>1 DEF Replaced
  <2>2. CASE ~disturbed /\ k = "full"
    BY <1>5, <1>7, <2>2 DEF Replaced
  <2>3. CASE ~disturbed /\ k # "full"
    BY <1>5, <2>3 DEF RestoreOK, Replaced
  <2> QED
    BY <2>1, <2>2, <2>3
<1> QED
  BY <1>4, <1>5, <1>6, <1>8, <1>9, RestorerStep

LEMMA EndRestoreStep ==
  ASSUME RestoreOK, R!EndRestore
  PROVE  RestoreOK'
<1>1. /\ R!NoRestore \in RestoreSet /\ R!NoRestore.pc = "idle" /\ R!NoRestore.stage = R!NoFiles
  BY FileFacts DEF R!NoRestore, RestoreSet, R!Kinds
<1>2. /\ restore' = R!NoRestore /\ live' = live /\ wal' = wal /\ served' = served /\ edits' = edits
      /\ archives' = archives /\ pack' = pack /\ disturbed' = disturbed /\ restored' = restored
  BY DEF R!EndRestore
<1>3. Replacing'
  BY <1>1, <1>2 DEF Replacing
<1>4. Replaced' /\ restored' \in ArchiveSet /\ disturbed' \in BOOLEAN
  BY <1>2 DEF RestoreOK, RestoreTyped, Replaced
<1> QED
  BY <1>1, <1>2, <1>3, <1>4, IdlePack, RestorerStep

LEMMA RestoreSteps ==
  ASSUME RestoreOK, [R!Next]_restoreVars
  PROVE  RestoreOK'
<1>1. CASE UNCHANGED restoreVars
  <2>1. /\ restore' = restore /\ live' = live /\ wal' = wal /\ served' = served /\ edits' = edits
        /\ archives' = archives /\ pack' = pack /\ disturbed' = disturbed /\ restored' = restored
    BY <1>1 DEF restoreVars
  <2>2. Replacing' /\ Replaced' /\ Seen(restore.stage, edits, wal.adds)
        /\ restore \in RestoreSet /\ disturbed \in BOOLEAN /\ restored \in ArchiveSet
    BY <2>1 DEF RestoreOK, RestoreTyped, VersionsPast, Replacing, Replaced
  <2> QED
    BY <2>1, <2>2, RestorerStep
<1>2. CASE \/ R!Commit \/ R!Checkpoint \/ R!Open \/ R!CloseOrDie \/ \E n \in R!Names : R!Edit(n)
           \/ \E k \in R!Kinds : R!BeginPack(k) \/ R!BeginRestore(k)
  BY <1>2, CommitStep, CheckpointStep, OpenStep, EditFileStep, BeginPackStep, BeginRestoreStep
<1>3. CASE \/ R!HashSource \/ R!Manifest \/ R!CopySource \/ R!PlaceArchive \/ R!FailPack
           \/ R!VerifyArchive \/ R!AbandonArchive
  BY <1>3, HashStep, ManifestStep, CopyStep, PlaceArchiveStep, FailPackStep, VerifyStep, AbandonStep
<1>4. CASE R!Stage \/ R!Place \/ R!Done \/ R!EndRestore
  BY <1>4, StageStep, PlaceStep, DoneStep, EndRestoreStep
<1> QED
  BY <1>1, <1>2, <1>3, <1>4 DEF R!Next

LEMMA RestoreInvariant == Spec => []RestoreInv
<1>1. ASSUME R!Init PROVE RestoreOK
  <2>1. /\ live = [n \in R!Names |-> IF n = "data" THEN R!Absent ELSE 1]
        /\ wal = R!NoWal /\ served = R!Absent /\ edits = 1
        /\ archives = [k \in R!Kinds |-> R!NoArchive] /\ pack = R!NoPack
        /\ restore = R!NoRestore /\ disturbed = FALSE /\ restored = R!NoArchive
    BY <1>1 DEF R!Init
  <2>2. /\ R!NoRestore \in RestoreSet /\ R!NoRestore.pc = "idle" /\ R!NoRestore.stage = R!NoFiles
    BY FileFacts DEF R!NoRestore, RestoreSet, R!Kinds
  <2>3. /\ R!Absent = 0 /\ 1 \in 1 .. MaxEdits /\ {0, 1} \subseteq Versions
        /\ R!NoWal.adds = R!Absent /\ R!NoWal \in [base : Versions, adds : Versions]
    BY DEF R!NoWal, R!Absent, Versions
  <2>4. \A n : Past(n, 0, 1, R!Absent) /\ Past(n, 1, 1, R!Absent)
    BY DEF Past
  <2>5. live \in [R!Names -> Versions] /\ Seen(live, 1, R!Absent)
    BY <2>1, <2>3, <2>4 DEF Seen
  <2>6. RestoreTyped
    BY <2>1, <2>2, <2>3, <2>5, FileFacts, IdlePack DEF RestoreTyped
  <2>7. VersionsPast
    BY <2>1, <2>2, <2>3, <2>4, <2>5, EmptyArchive, IdlePack DEF VersionsPast
  <2>8. AllReal /\ PackFaithful /\ ArchivesFaithful
    BY <2>1, EmptyArchive, IdlePack DEF AllReal, PackFaithful, ArchivesFaithful
  <2>9. Replacing /\ Replaced
    BY <2>1, <2>2 DEF Replacing, Replaced
  <2> QED
    BY <2>6, <2>7, <2>8, <2>9 DEF RestoreOK
<1>2. Init => RestoreInv
  BY <1>1 DEF Init, RestoreInv
<1>3. RestoreInv /\ [Next]_vars => RestoreInv'
  BY PartStep, RestoreSteps DEF RestoreInv
<1> QED
  BY <1>2, <1>3, PTL DEF Spec

\* An accepted archive is one state of all the files, unless a restore gave back a
\* version meanwhile: no version returns otherwise, so what is copied as it was
\* hashed had not changed when the manifest was fixed.
THEOREM AcceptedAreSnapshots == Spec => []AcceptedIsSnapshot
<1>1. ASSUME RestoreOK, NEW k \in R!Kinds, archives[k].accepted, archives[k].snap # R!NoFiles,
             NEW n \in DOMAIN archives[k].content
      PROVE  archives[k].content[n] = archives[k].snap[n]
  <2>1. PICK a : a = archives[k]
    OBVIOUS
  <2>2. /\ R!Sound(a) /\ Apart(a.digest, a.content, a.snap) /\ Real(a.digest)
        /\ n \in DOMAIN a.content
    BY <1>1, <2>1 DEF RestoreOK, ArchivesFaithful, AllReal
  <2>3. a.content = a.digest /\ a.content[n] # R!Torn
    BY <2>2, SoundFacts DEF Real
  <2> QED
    BY <2>1, <2>2, <2>3 DEF Apart
<1>2. RestoreInv => AcceptedIsSnapshot
  BY <1>1 DEF RestoreInv, AcceptedIsSnapshot, R!AcceptedIsSnapshot
<1> QED
  BY <1>2, RestoreInvariant, PTL

\* A restore that nobody disturbed leaves every file as the archive has it, and a
\* full one with an incremental one of it all files as they were hashed.
THEOREM RestoresExactly == Spec => []RestoreExact
<1>1. ASSUME RestoreOK, restore.pc = "done", ~disturbed,
             NEW a, a = archives[restore.kind]
      PROVE  /\ \A n \in DOMAIN a.digest : live[n] = a.digest[n]
             /\ restore.kind = "hourly" /\ restored # R!NoArchive /\ a.base = restored.digest
                => \A n \in DOMAIN a.hashed : live[n] = a.hashed[n]
  <2>1. R!Sound(a) /\ \A n \in DOMAIN a.digest : live[n] = a.digest[n]
    BY <1>1 DEF RestoreOK, Replacing
  <2>2. ASSUME restore.kind = "hourly", restored # R!NoArchive, a.base = restored.digest
        PROVE  \A n \in DOMAIN a.hashed : live[n] = a.hashed[n]
    <3>1. a # R!NoArchive /\ Based(a.digest, a.base, a.hashed)
      BY <1>1, <2>1, <2>2, SoundFacts DEF RestoreOK, ArchivesFaithful, R!Kinds
    <3>2. \A n \in DOMAIN restored.digest \ DOMAIN a.digest : live[n] = restored.digest[n]
      BY <1>1, <2>2, <3>1 DEF RestoreOK, Replaced
    <3> QED
      BY <2>1, <2>2, <3>1, <3>2 DEF Based
  <2> QED
    BY <2>1, <2>2
<1>2. RestoreInv => RestoreExact
  BY <1>1 DEF RestoreInv, RestoreExact, R!RestoreExact
<1> QED
  BY <1>2, RestoreInvariant, PTL

-----------------------------------------------------------------------------
(***************************************************************************)
(* Updates of the binary                                                   *)
(***************************************************************************)

Offered     == U!Builds \cup {U!NoBuild}
UpdateKinds == {"task", "command"}
CheckPcs       == {"idle", "load", "note", "save", "download", "checksum", "restart"}
RunSet      == [pc : CheckPcs, pick : Offered, seen : Offered, got : Offered \cup {U!Garbled}]

\* Listed for a channel; old enough for the task.
Listed(b, list, channel) == b \in list /\ U!Matches(b, channel)
Ripe(b, now)             == Defer = 0 \/ now - b.at >= Defer

\* The types; two releases of one instant are one, and none is of the future.
UpdateTyped ==
  /\ today \in Nat \ {0} /\ (today = 1 \/ today <= MaxTime)
  /\ releases \subseteq U!Builds /\ branch \in U!Channels
  /\ \A b \in releases : b.at <= today
  /\ \A b, c \in releases : b.at = c.at => b = c
  /\ serving \in [build : U!Builds, branch : U!Channels]
  /\ installed \in U!Builds /\ known \in Offered
  /\ run \in [UpdateKinds -> RunSet]
  /\ told \in [U!Builds -> Nat]

\* What is downloaded was picked, and by the task only when its window was over.
PickedWell ==
  /\ \A k \in UpdateKinds : run[k].pc = "idle" => run[k] = U!NoRun
  /\ \A k \in UpdateKinds :
       run[k].pc \in {"download", "checksum", "restart"} => run[k].pick # U!NoBuild
  /\ run["task"].pick # U!NoBuild =>
       run["task"].pick.at <= today /\ Ripe(run["task"].pick, today)

\* One check at a time, on one channel, and a restart after an installation.
Calm == {"overlap", "switched", "pending"} \cap past = {} /\ branch # "daily"

\* Then the server runs what is installed, or will when the check has restarted
\* it, and what a check has picked is no older.
CalmChecks ==
  Calm =>
    /\ serving.branch = branch /\ Listed(installed, releases, branch)
    /\ \A j, k \in UpdateKinds : run[j].pc # "idle" /\ run[k].pc # "idle" => j = k
    /\ installed # serving.build => \E k \in UpdateKinds : run[k].pc = "restart"
    /\ \A k \in UpdateKinds : run[k].pick # U!NoBuild =>
         /\ Listed(run[k].pick, releases, branch)
         /\ run[k].pc # "restart" => installed.at <= run[k].pick.at

\* What is on record was listed and ripe, so no later pick is older; and nothing
\* newer has been announced, except by the check that has yet to record it.
Recorded ==
  past = {} /\ branch # "daily" =>
    /\ known # U!NoBuild => Listed(known, releases, branch) /\ Ripe(known, today)
    /\ \A k \in UpdateKinds :
         /\ run[k].pc \in {"load", "note", "save"} /\ run[k].pick # U!NoBuild
            => known.at <= run[k].pick.at
         /\ run[k].pc = "note" => run[k].seen = known
         /\ run[k].pc = "save" =>
              run[k].seen = IF run[k].pick = U!NoBuild THEN known ELSE run[k].pick
    /\ \A b \in U!Builds :
         /\ told[b] <= 1
         /\ told[b] = 1 => \/ b.at <= known.at
                           \/ \E k \in UpdateKinds : /\ run[k].pc = "save"
                                                     /\ run[k].pick # U!NoBuild
                                                     /\ b.at <= run[k].pick.at

UpdateOK  == UpdateTyped /\ PickedWell /\ CalmChecks /\ Recorded
UpdateInv == part = "update" => UpdateOK

LEMMA SmallestNat ==
  ASSUME NEW T, T \subseteq Nat, T # {}
  PROVE  \E x \in T : \A y \in T : x <= y
<1>1. IsWellFoundedOn(OpToRel(<, Nat), Nat)
  BY NatLessThanWellFounded
<1>2. PICK x \in T : \A y \in T : ~(<<y, x>> \in OpToRel(<, Nat))
  BY <1>1, WFMin, Zenon
<1>3. ASSUME NEW y \in T PROVE x <= y
  <2>1. x \in Nat /\ y \in Nat
    OBVIOUS
  <2>2. <<y, x>> \in Nat \X Nat /\ <<y, x>>[1] = y /\ <<y, x>>[2] = x
    BY <2>1
  <2>3. ~(y < x)
    BY <1>2, <2>2 DEF OpToRel
  <2> QED
    BY <2>1, <2>3
<1> QED
  BY <1>3

\* Some of a set of builds is the newest.
LEMMA NewestBuild ==
  ASSUME NEW c, c \subseteq U!Builds, c # {}
  PROVE  \E b \in c : \A d \in c : d.at <= b.at
<1> DEFINE T == {MaxTime + 1 - b.at : b \in c}
<1>1. \A b \in U!Builds : b.at \in Nat /\ b.at <= MaxTime + 1
  BY UpdateAssumption DEF U!Builds, U!First
<1>2. T \subseteq Nat /\ T # {}
  BY <1>1, UpdateAssumption
<1>3. PICK x \in T : \A y \in T : x <= y
  BY <1>2, SmallestNat
<1>4. PICK b \in c : x = MaxTime + 1 - b.at
  BY <1>3
<1>5. ASSUME NEW d \in c PROVE d.at <= b.at
  <2>1. MaxTime + 1 - b.at <= MaxTime + 1 - d.at
    BY <1>3, <1>4
  <2>2. d.at \in Nat /\ b.at \in Nat
    BY <1>1
  <2> QED
    BY <2>1, <2>2, UpdateAssumption
<1> QED
  BY <1>5

LEMMA BuildFacts ==
  /\ \A b \in U!Builds : b.at \in Nat /\ b.at >= 1 /\ b.channel \in U!Channels
  /\ U!First \in U!Builds /\ U!First.at = 1 /\ U!First.channel = "stable"
  /\ U!NoBuild \notin U!Builds /\ U!NoBuild.at = 0 /\ U!NoBuild \in Offered
  /\ U!Garbled \notin U!Builds
BY UpdateAssumption DEF U!Builds, U!First, U!NoBuild, U!Garbled, U!Channels, Offered

\* What Select returns is listed, of the channel and out of its window.
LEMMA SelectFacts ==
  ASSUME releases \subseteq U!Builds, NEW cur, NEW ch, NEW defer,
         NEW s, s = U!Select(cur, ch, defer), s # U!NoBuild
  PROVE  Listed(s, releases, ch) /\ U!Eligible(s, defer)
<1> DEFINE c == U!Candidates(U!Fetched(ch, defer), cur, ch, defer)
<1>1. c \subseteq releases /\ \A b \in c : U!Matches(b, ch) /\ U!Eligible(b, defer)
  BY DEF U!Candidates, U!Fetched
<1>2. c # {} /\ s = CHOOSE b \in c : \A d \in c : d.at <= b.at
  BY DEF U!Select
<1>3. \E b \in c : \A d \in c : d.at <= b.at
  BY <1>1, <1>2, NewestBuild
<1>4. s \in c
  BY <1>2, <1>3
<1> QED
  BY <1>1, <1>4 DEF Listed

\* On a channel without the rolling release it is no older than the build that
\* runs, nor than any other that is out of the window.
LEMMA SelectNewest ==
  ASSUME releases \subseteq U!Builds, NEW ch, NEW defer, ch \in {"stable", "beta"},
         NEW cur, Listed(cur, releases, ch),
         NEW s, s = U!Select(cur, ch, defer), s # U!NoBuild
  PROVE  /\ cur.at <= s.at
         /\ \A b \in releases : U!Matches(b, ch) /\ U!Eligible(b, defer) => b.at <= s.at
<1> DEFINE l == U!Fetched(ch, defer)
           c == U!Candidates(l, cur, ch, defer)
<1>1. c \subseteq l /\ l \subseteq releases
  BY DEF U!Candidates, U!Fetched
<1>2. c # {} /\ s = CHOOSE b \in c : \A d \in c : d.at <= b.at
  BY DEF U!Select
<1>3. \E b \in c : \A d \in c : d.at <= b.at
  BY <1>1, <1>2, NewestBuild
<1>4. s \in c /\ \A d \in c : d.at <= s.at
  BY <1>2, <1>3
<1>5. \A b \in U!Builds : b.at \in Nat
  BY BuildFacts
<1>6. CASE ch = "stable" /\ defer = 0
  <2> DEFINE T == {b.at : b \in {e \in releases : e.channel = "stable"}}
             S1 == {e \in releases : e.channel = "stable"}
  <2>1. \A b \in releases : U!Matches(b, ch) => b \in S1
    BY <1>6 DEF U!Matches
  <2>2. S1 # {} /\ S1 \subseteq U!Builds
    BY <2>1 DEF Listed
  <2>3. PICK b \in S1 : \A d \in S1 : d.at <= b.at
    BY <2>2, NewestBuild
  <2>4. b.at \in T /\ \A y \in T : b.at >= y
    BY <1>5, <2>2, <2>3
  <2>5. U!Latest \in T /\ \A y \in T : U!Latest >= y
    <3>1. U!Latest = CHOOSE x \in T : \A y \in T : x >= y
      BY DEF U!Latest, U!Max
    <3> QED
      BY <2>4, <3>1
  <2>6. s.at = U!Latest
    BY <1>1, <1>4, <1>6 DEF U!Fetched
  <2>7. \A d \in S1 : d.at <= s.at
    BY <1>5, <2>2, <2>5, <2>6
  <2> QED
    BY <2>1, <2>7 DEF Listed
<1>7. CASE ~(ch = "stable" /\ defer = 0)
  <2>1. l = releases
    BY <1>7 DEF U!Fetched
  <2>2. \A b \in releases : U!Matches(b, ch) => b.channel # "daily"
    BY DEF U!Matches
  <2>3. \A b : U!Passed(l, cur, b) <=> cur.at >= b.at
    BY <2>1, <2>2 DEF U!Passed, Listed
  <2>4. \A b \in releases : U!Matches(b, ch) /\ U!Eligible(b, defer) => b \in c \/ cur.at >= b.at
    BY <2>1, <2>2, <2>3 DEF U!Candidates
  <2>5. ~(cur.at >= s.at)
    BY <1>4, <2>3 DEF U!Candidates, Listed
  <2>6. s \in releases /\ cur \in releases
    BY <1>1, <1>4 DEF Listed
  <2> QED
    BY <1>4, <1>5, <2>4, <2>5, <2>6
<1> QED
  BY <1>6, <1>7

\* Where a check goes from one step to the next, and nothing is installed.
LEMMA QuietStep ==
  ASSUME UpdateOK, NEW k \in UpdateKinds, NEW r \in RunSet, NEW q, q = run[k],
         run' = [run EXCEPT ![k] = r], q.pc # "idle",
         today' = today, releases' = releases, branch' = branch, serving' = serving,
         installed' = installed, known' \in Offered, told' \in [U!Builds -> Nat],
         past \subseteq past', q.pc = "restart" => "pending" \in past',
         r.pc = "idle" => r = U!NoRun, r.pick \in {q.pick, U!NoBuild}, r.pc # "restart",
         r.pc \in {"download", "checksum"} => r.pick # U!NoBuild
  PROVE  UpdateTyped' /\ PickedWell' /\ CalmChecks'
<1>1. run \in [UpdateKinds -> RunSet] /\ run'[k] = r /\ \A j \in UpdateKinds \ {k} : run'[j] = run[j]
  BY DEF UpdateOK, UpdateTyped
<1>2. UpdateTyped'
  BY DEF UpdateOK, UpdateTyped
<1>3. PickedWell'
  BY <1>1, BuildFacts DEF UpdateOK, PickedWell, RunSet, CheckPcs, UpdateKinds
<1>4. CalmChecks'
  <2> SUFFICES ASSUME Calm' PROVE CalmChecks'
    BY DEF CalmChecks
  <2>1. Calm /\ q.pc # "restart"
    BY DEF Calm
  <2>2. /\ serving.branch = branch /\ Listed(installed, releases, branch)
        /\ \A i, j \in UpdateKinds : run[i].pc # "idle" /\ run[j].pc # "idle" => i = j
        /\ installed # serving.build => \E j \in UpdateKinds : run[j].pc = "restart"
        /\ \A j \in UpdateKinds : run[j].pick # U!NoBuild =>
             /\ Listed(run[j].pick, releases, branch)
             /\ run[j].pc # "restart" => installed.at <= run[j].pick.at
    BY <2>1 DEF UpdateOK, CalmChecks
  <2>3. \A i, j \in UpdateKinds : run'[i].pc # "idle" /\ run'[j].pc # "idle" => i = j
    BY <1>1, <2>2
  <2>4. installed # serving.build => \E j \in UpdateKinds : run'[j].pc = "restart"
    BY <1>1, <2>1, <2>2
  <2>5. ASSUME NEW j \in UpdateKinds, run'[j].pick # U!NoBuild
        PROVE  /\ Listed(run'[j].pick, releases, branch)
               /\ run'[j].pc # "restart" => installed.at <= run'[j].pick.at
    <3>1. CASE j = k
      BY <1>1, <2>1, <2>2, <2>5, <3>1
    <3>2. CASE j # k
      BY <1>1, <2>2, <2>5, <3>2
    <3> QED
      BY <3>1, <3>2
  <2> QED
    BY <2>2, <2>3, <2>4, <2>5 DEF CalmChecks, Listed
<1> QED
  BY <1>2, <1>3, <1>4

\* The state file and what was announced stand, and no check is about to save
\* what it had announced.
LEMMA RecordStays ==
  ASSUME UpdateOK, NEW k \in UpdateKinds, NEW r \in RunSet, NEW q, q = run[k],
         run' = [run EXCEPT ![k] = r],
         today' = today, releases' = releases, branch' = branch,
         known' = known, told' = told, past \subseteq past',
         past' = {} => q.pc # "save" /\ r.pc # "save",
         past' = {} /\ r.pc = "note" => r.seen = known,
         past' = {} /\ branch # "daily" =>
           (r.pick # U!NoBuild /\ r.pc \in {"load", "note"} => known.at <= r.pick.at)
  PROVE  Recorded'
<1>1. run \in [UpdateKinds -> RunSet] /\ run'[k] = r /\ \A j \in UpdateKinds \ {k} : run'[j] = run[j]
  BY DEF UpdateOK, UpdateTyped
<1> SUFFICES ASSUME past' = {}, branch # "daily" PROVE Recorded'
  BY DEF Recorded
<1>2. past = {} /\ q.pc # "save" /\ r.pc # "save"
  OBVIOUS
<1>3. /\ known # U!NoBuild => Listed(known, releases, branch) /\ Ripe(known, today)
      /\ \A j \in UpdateKinds :
           /\ run[j].pc \in {"load", "note", "save"} /\ run[j].pick # U!NoBuild
              => known.at <= run[j].pick.at
           /\ run[j].pc = "note" => run[j].seen = known
           /\ run[j].pc = "save" =>
                run[j].seen = IF run[j].pick = U!NoBuild THEN known ELSE run[j].pick
      /\ \A b \in U!Builds :
           /\ told[b] <= 1
           /\ told[b] = 1 => \/ b.at <= known.at
                             \/ \E j \in UpdateKinds : /\ run[j].pc = "save"
                                                       /\ run[j].pick # U!NoBuild
                                                       /\ b.at <= run[j].pick.at
  BY <1>2 DEF UpdateOK, Recorded
<1>4. ASSUME NEW j \in UpdateKinds
      PROVE  /\ run'[j].pc \in {"load", "note", "save"} /\ run'[j].pick # U!NoBuild
                => known.at <= run'[j].pick.at
             /\ run'[j].pc = "note" => run'[j].seen = known
             /\ run'[j].pc = "save" =>
                  run'[j].seen = IF run'[j].pick = U!NoBuild THEN known ELSE run'[j].pick
  <2>1. CASE j = k
    BY <1>1, <1>2, <2>1
  <2>2. CASE j # k
    BY <1>1, <1>3, <2>2
  <2> QED
    BY <2>1, <2>2
<1>5. \A j \in UpdateKinds : run[j].pc = "save" => run'[j] = run[j]
  BY <1>1, <1>2
<1> QED
  BY <1>3, <1>4, <1>5 DEF Recorded, Listed, Ripe

LEMMA LoadStep ==
  ASSUME UpdateOK, NEW k \in UpdateKinds, U!Load(k)
  PROVE  UpdateOK'
<1>1. PICK q \in RunSet : q = run[k]
  BY DEF UpdateOK, UpdateTyped
<1>2. /\ q.pc = "load" /\ today' = today /\ releases' = releases /\ branch' = branch
      /\ serving' = serving /\ installed' = installed /\ known' = known /\ told' = told
      /\ \/ run' = [run EXCEPT ![k].pc = "note", ![k].seen = known] /\ past' = past
         \/ run' = [run EXCEPT ![k].pc = "note"] /\ past' = past \cup {"lost"}
  BY <1>1 DEF U!Load
<1>3. PICK r : run' = [run EXCEPT ![k] = r] /\
                 \/ r = [q EXCEPT !.pc = "note", !.seen = known] /\ past' = past
                 \/ r = [q EXCEPT !.pc = "note"] /\ past' = past \cup {"lost"}
  BY <1>1, <1>2
<1>4. /\ r \in RunSet /\ r.pc = "note" /\ r.pick = q.pick
      /\ past' = {} => r.seen = known
  BY <1>3 DEF RunSet, CheckPcs, UpdateOK, UpdateTyped
<1>5. past' = {} /\ branch # "daily" => past = {}
  BY <1>3
<1>6. past' = {} /\ branch # "daily" => (q.pick # U!NoBuild => known.at <= q.pick.at)
  BY <1>1, <1>2, <1>5 DEF UpdateOK, Recorded
<1>7. Recorded'
  BY <1>1, <1>2, <1>3, <1>4, <1>6, RecordStays
<1>8. known' \in Offered /\ told' \in [U!Builds -> Nat]
  BY <1>2 DEF UpdateOK, UpdateTyped
<1>9. UpdateTyped' /\ PickedWell' /\ CalmChecks'
  BY <1>1, <1>2, <1>3, <1>4, <1>8, QuietStep
<1> QED
  BY <1>7, <1>9 DEF UpdateOK

LEMMA NoteStep ==
  ASSUME UpdateOK, NEW k \in UpdateKinds, U!Note(k)
  PROVE  UpdateOK'
<1>1. PICK q \in RunSet : q = run[k]
  BY DEF UpdateOK, UpdateTyped
<1>2. PICK r : r = [q EXCEPT !.pc = "save", !.seen = IF q.pick = U!NoBuild THEN q.seen ELSE q.pick]
  OBVIOUS
<1>3. PICK new : new = (k = "task" /\ q.pick # U!NoBuild /\ q.pick # q.seen)
  OBVIOUS
<1>4. /\ q.pc = "note" /\ today' = today /\ releases' = releases /\ branch' = branch
      /\ serving' = serving /\ installed' = installed /\ known' = known /\ past' = past
      /\ run' = [run EXCEPT ![k] = r]
      /\ told' = IF new THEN [told EXCEPT ![q.pick] = @ + 1] ELSE told
  BY <1>1, <1>2, <1>3 DEF U!Note, U!KeyToKeep
<1>5. r \in RunSet /\ r.pc = "save" /\ r.pick = q.pick
      /\ r.seen = IF q.pick = U!NoBuild THEN q.seen ELSE q.pick
  BY <1>2 DEF RunSet, CheckPcs
<1>6. new => q.pick \in U!Builds
  BY <1>3 DEF RunSet, Offered
<1>7. known' \in Offered /\ told' \in [U!Builds -> Nat]
  BY <1>4, <1>6 DEF UpdateOK, UpdateTyped
<1>8. UpdateTyped' /\ PickedWell' /\ CalmChecks'
  BY <1>1, <1>4, <1>5, <1>7, QuietStep
<1>9. Recorded'
  <2> SUFFICES ASSUME past = {}, branch # "daily" PROVE Recorded'
    BY <1>4 DEF Recorded
  <2>1. /\ known # U!NoBuild => Listed(known, releases, branch) /\ Ripe(known, today)
        /\ \A b \in U!Builds : told[b] <= 1
        /\ q.seen = known
        /\ q.pick # U!NoBuild => known.at <= q.pick.at
    BY <1>1, <1>4 DEF UpdateOK, Recorded
  <2>2. /\ run'[k] = r /\ \A j \in UpdateKinds : run[j].pc # "idle" => j = k
        /\ \A j \in UpdateKinds \ {k} : run'[j] = run[j] /\ run[j].pc = "idle"
        /\ q.pick # U!NoBuild => q.pick \in releases
    BY <1>1, <1>4 DEF UpdateOK, UpdateTyped, CalmChecks, Calm, Listed
  <2>3. \A b \in U!Builds : told[b] = 1 => b.at <= known.at
    BY <1>1, <1>4, <2>2 DEF UpdateOK, Recorded
  <2>4. ASSUME new PROVE told[q.pick] = 0
    <3>1. /\ q.pick \in U!Builds /\ q.pick \in releases /\ q.pick # known
          /\ known.at <= q.pick.at /\ told[q.pick] \in Nat /\ told[q.pick] <= 1
      BY <1>3, <1>6, <2>1, <2>2, <2>4 DEF UpdateOK, UpdateTyped
    <3>2. known \in Offered /\ q.pick.at \in Nat /\ q.pick.at >= 1 /\ known.at \in Nat
      BY <3>1, BuildFacts DEF UpdateOK, UpdateTyped, Offered
    <3>3. ~(q.pick.at <= known.at)
      <4>1. CASE known = U!NoBuild
        BY <3>2, <4>1, BuildFacts
      <4>2. CASE known # U!NoBuild
        <5>1. known \in releases /\ known.at # q.pick.at
          BY <2>1, <3>1, <4>2 DEF Listed, UpdateOK, UpdateTyped
        <5> QED
          BY <3>1, <3>2, <5>1
      <4> QED
        BY <4>1, <4>2
    <3> QED
      BY <2>3, <3>1, <3>3
  <2>5. ASSUME NEW b \in U!Builds
        PROVE  told'[b] <= 1 /\ (told'[b] = 1 => b.at <= known.at \/ (new /\ b = q.pick))
    <3>1. CASE new /\ b = q.pick
      BY <1>4, <2>4, <3>1 DEF UpdateOK, UpdateTyped
    <3>2. CASE ~(new /\ b = q.pick)
      BY <1>4, <2>1, <2>3, <3>2 DEF UpdateOK, UpdateTyped
    <3> QED
      BY <3>1, <3>2
  <2>6. \A b \in U!Builds : new /\ b = q.pick => b.at <= q.pick.at /\ q.pick # U!NoBuild
    BY <1>3, BuildFacts
  <2>7. \A j \in UpdateKinds : run'[j].pc # "idle" => j = k
    BY <2>2
  <2> QED
    BY <1>4, <1>5, <2>1, <2>2, <2>5, <2>6, <2>7 DEF Recorded, Listed, Ripe
<1> QED
  BY <1>8, <1>9 DEF UpdateOK

LEMMA SaveStateStep ==
  ASSUME UpdateOK, NEW k \in UpdateKinds, U!Save(k)
  PROVE  UpdateOK'
<1>1. PICK q \in RunSet : q = run[k]
  BY DEF UpdateOK, UpdateTyped
<1>2. /\ q.pc = "save" /\ today' = today /\ releases' = releases /\ branch' = branch
      /\ serving' = serving /\ installed' = installed /\ told' = told
  BY <1>1 DEF U!Save
<1>3. PICK r : /\ run' = [run EXCEPT ![k] = r]
               /\ r = U!NoRun \/ (q.pick # U!NoBuild /\ r = [q EXCEPT !.pc = "download"])
               /\ \/ /\ known' = q.seen
                     /\ past' = IF q.pick = U!NoBuild \/ U!Eligible(q.pick, Defer) THEN past
                                  ELSE past \cup {"early"}
                  \/ known' = known /\ past' = past \cup {"lost"}
  BY <1>1 DEF U!Save, U!Go, U!Stop
<1>4. /\ r \in RunSet /\ r.pc \in {"idle", "download"} /\ (r.pc = "idle" => r = U!NoRun)
      /\ r.pick \in {q.pick, U!NoBuild} /\ (r.pc = "download" => r.pick # U!NoBuild)
  BY <1>3, BuildFacts DEF RunSet, CheckPcs, U!NoRun, Offered
<1>5. known' \in Offered /\ told' \in [U!Builds -> Nat] /\ past \subseteq past'
  BY <1>2, <1>3 DEF UpdateOK, UpdateTyped, RunSet
<1>6. UpdateTyped' /\ PickedWell' /\ CalmChecks'
  BY <1>1, <1>2, <1>3, <1>4, <1>5, QuietStep
<1>7. Recorded'
  <2> SUFFICES ASSUME past' = {}, branch # "daily" PROVE Recorded'
    BY <1>2 DEF Recorded
  <2>1. past = {} /\ known' = q.seen /\ (q.pick = U!NoBuild \/ Ripe(q.pick, today))
    BY <1>3 DEF U!Eligible, Ripe
  <2>2. /\ known # U!NoBuild => Listed(known, releases, branch) /\ Ripe(known, today)
        /\ \A b \in U!Builds : told[b] <= 1
        /\ q.seen = IF q.pick = U!NoBuild THEN known ELSE q.pick
        /\ q.pick # U!NoBuild => known.at <= q.pick.at
    BY <1>1, <1>2, <2>1 DEF UpdateOK, Recorded
  <2>3. /\ run'[k] = r /\ \A j \in UpdateKinds : run[j].pc # "idle" => j = k
        /\ \A j \in UpdateKinds \ {k} : run'[j] = run[j] /\ run[j].pc = "idle"
        /\ q.pick # U!NoBuild => Listed(q.pick, releases, branch)
    BY <1>1, <1>2, <1>3, <2>1 DEF UpdateOK, UpdateTyped, CalmChecks, Calm
  <2>4. /\ known \in Offered /\ q.pick \in Offered
        /\ \A b \in Offered : b.at \in Nat
    BY BuildFacts DEF UpdateOK, UpdateTyped, RunSet, Offered
  <2>5. ASSUME NEW b \in U!Builds, told[b] = 1 PROVE b.at <= known'.at
    <3>1. b.at \in Nat
      BY BuildFacts
    <3>2. b.at <= known.at \/ (q.pick # U!NoBuild /\ b.at <= q.pick.at)
      BY <1>1, <2>1, <2>3, <2>5 DEF UpdateOK, Recorded
    <3> QED
      BY <2>1, <2>2, <2>4, <3>1, <3>2
  <2>6. known' # U!NoBuild => Listed(known', releases, branch) /\ Ripe(known', today)
    BY <2>1, <2>2, <2>3
  <2>7. \A j \in UpdateKinds : run'[j].pc \notin {"load", "note", "save"}
    BY <1>4, <2>3
  <2> QED
    BY <1>2, <2>2, <2>5, <2>6, <2>7 DEF Recorded, Listed, Ripe
<1> QED
  BY <1>6, <1>7 DEF UpdateOK

LEMMA GiveUpStep ==
  ASSUME UpdateOK, NEW k \in UpdateKinds, U!GiveUp(k)
  PROVE  UpdateOK'
<1>1. PICK q \in RunSet : q = run[k]
  BY DEF UpdateOK, UpdateTyped
<1>2. PICK r : r = U!NoRun
  OBVIOUS
<1>3. /\ q.pc \in {"load", "download", "checksum", "restart"}
      /\ today' = today /\ releases' = releases /\ branch' = branch
      /\ serving' = serving /\ installed' = installed /\ told' = told /\ known' = known
      /\ run' = [run EXCEPT ![k] = r]
      /\ past \subseteq past' /\ (q.pc = "restart" => "pending" \in past')
  BY <1>1, <1>2 DEF U!GiveUp, U!Stop
<1>4. /\ r \in RunSet /\ r.pc = "idle" /\ r.pick = U!NoBuild
  BY <1>2, BuildFacts DEF RunSet, CheckPcs, U!NoRun, Offered
<1>5. known' \in Offered /\ told' \in [U!Builds -> Nat]
  BY <1>3 DEF UpdateOK, UpdateTyped
<1>6. UpdateTyped' /\ PickedWell' /\ CalmChecks'
  BY <1>1, <1>2, <1>3, <1>4, <1>5, QuietStep
<1>7. Recorded'
  BY <1>1, <1>3, <1>4, RecordStays
<1> QED
  BY <1>6, <1>7 DEF UpdateOK

LEMMA DownloadStep ==
  ASSUME UpdateOK, NEW k \in UpdateKinds, U!Download(k)
  PROVE  UpdateOK'
<1>1. PICK q \in RunSet : q = run[k]
  BY DEF UpdateOK, UpdateTyped
<1>2. PICK got \in U!Behind(q.pick) \cup {U!Garbled} :
        run' = [run EXCEPT ![k].pc = "checksum", ![k].got = got]
  BY <1>1 DEF U!Download
<1>3. PICK r : r = [q EXCEPT !.pc = "checksum", !.got = got]
  OBVIOUS
<1>4. /\ q.pc = "download" /\ today' = today /\ releases' = releases /\ branch' = branch
      /\ serving' = serving /\ installed' = installed /\ told' = told /\ known' = known
      /\ past' = past /\ run' = [run EXCEPT ![k] = r]
  BY <1>1, <1>2, <1>3 DEF U!Download
<1>5. got \in Offered \cup {U!Garbled}
  BY <1>2 DEF U!Behind, UpdateOK, UpdateTyped, RunSet, Offered
<1>6. /\ r \in RunSet /\ r.pc = "checksum" /\ r.pick = q.pick /\ r.pick # U!NoBuild
  BY <1>1, <1>3, <1>4, <1>5 DEF RunSet, CheckPcs, UpdateOK, PickedWell
<1>7. known' \in Offered /\ told' \in [U!Builds -> Nat]
  BY <1>4 DEF UpdateOK, UpdateTyped
<1>8. UpdateTyped' /\ PickedWell' /\ CalmChecks'
  BY <1>1, <1>4, <1>6, <1>7, QuietStep
<1>9. Recorded'
  BY <1>1, <1>4, <1>6, RecordStays
<1> QED
  BY <1>8, <1>9 DEF UpdateOK

LEMMA CheckStep ==
  ASSUME UpdateOK, NEW k \in UpdateKinds, U!Check(k)
  PROVE  UpdateOK'
<1>1. PICK cur, ch, defer : cur = U!Current(k) /\ ch = U!Channel(k) /\ defer = U!Window(k)
  OBVIOUS
<1>2. PICK s : s = U!Select(cur, ch, defer)
  OBVIOUS
<1>3. PICK r : r = [run[k] EXCEPT !.pc = "load", !.pick = s]
  OBVIOUS
<1>4. /\ run[k].pc = "idle" /\ today' = today /\ releases' = releases /\ branch' = branch
      /\ serving' = serving /\ installed' = installed /\ told' = told /\ known' = known
      /\ run' = [run EXCEPT ![k] = r] /\ past \subseteq past'
      /\ past' = {} => past = {}
      /\ "overlap" \notin past' => \A j \in UpdateKinds \ {k} : run[j].pc = "idle"
  <2>1. run \in [UpdateKinds -> RunSet] /\ DOMAIN run = UpdateKinds
    BY DEF UpdateOK, UpdateTyped
  <2>2. run' = [run EXCEPT ![k] = r]
    BY <1>1, <1>2, <1>3 DEF U!Check
  <2>3. past' = IF \E j \in UpdateKinds \ {k} : run[j].pc # "idle" THEN past \cup {"overlap"} ELSE past
    BY <2>1 DEF U!Check, U!Others
  <2> QED
    BY <2>2, <2>3 DEF U!Check
<1>5. releases \subseteq U!Builds /\ \A b \in releases : b.at <= today
  BY DEF UpdateOK, UpdateTyped
<1>6. s # U!NoBuild => Listed(s, releases, ch) /\ U!Eligible(s, defer)
  BY <1>2, <1>5, SelectFacts
<1>7. s \in Offered
  BY <1>5, <1>6 DEF Listed, Offered
<1>8. run[k] = U!NoRun /\ r \in RunSet /\ r.pc = "load" /\ r.pick = s
  <2>1. run[k] = U!NoRun
    BY <1>4 DEF UpdateOK, PickedWell
  <2>2. run[k] \in RunSet
    BY DEF UpdateOK, UpdateTyped
  <2>3. r \in RunSet /\ r.pc = "load" /\ r.pick = s
    BY <1>3, <1>7, <2>2 DEF RunSet, CheckPcs
  <2> QED
    BY <2>1, <2>3
<1>9. run \in [UpdateKinds -> RunSet] /\ run'[k] = r /\ \A j \in UpdateKinds \ {k} : run'[j] = run[j]
  BY <1>4 DEF UpdateOK, UpdateTyped
<1>10. UpdateTyped'
  BY <1>4, <1>8 DEF UpdateOK, UpdateTyped
<1>11. PickedWell'
  <2>1. ASSUME k = "task", s # U!NoBuild PROVE s.at <= today /\ Ripe(s, today)
    BY <1>1, <1>5, <1>6, <2>1 DEF U!Window, U!Eligible, Ripe, Listed
  <2> QED
    BY <1>4, <1>8, <1>9, <2>1 DEF UpdateOK, PickedWell, UpdateKinds
<1>12. ASSUME Calm'
       PROVE  /\ serving.branch = branch /\ Listed(installed, releases, branch)
              /\ installed = serving.build /\ cur = installed /\ ch = branch
              /\ ch \in {"stable", "beta"} /\ \A j \in UpdateKinds : run[j].pc = "idle"
  <2>1. Calm /\ \A j \in UpdateKinds : run[j].pc = "idle"
    BY <1>4, <1>12 DEF Calm
  <2>2. serving.branch = branch /\ Listed(installed, releases, branch) /\ installed = serving.build
    BY <2>1 DEF UpdateOK, CalmChecks
  <2>3. branch \in {"stable", "beta"}
    BY <2>1 DEF Calm, UpdateOK, UpdateTyped, U!Channels
  <2> QED
    BY <1>1, <2>1, <2>2, <2>3 DEF U!Current, U!Channel
<1>13. Calm' /\ s # U!NoBuild =>
         /\ installed.at <= s.at
         /\ \A b \in releases : U!Matches(b, branch) /\ U!Eligible(b, defer) => b.at <= s.at
  BY <1>2, <1>5, <1>12, SelectNewest
<1>14. CalmChecks'
  <2> SUFFICES ASSUME Calm' PROVE CalmChecks'
    BY DEF CalmChecks
  <2>1. \A j \in UpdateKinds \ {k} : run'[j].pc = "idle" /\ run'[j].pick = U!NoBuild
    BY <1>9, <1>12 DEF UpdateOK, PickedWell, U!NoRun
  <2>2. \A i, j \in UpdateKinds : run'[i].pc # "idle" /\ run'[j].pc # "idle" => i = j
    BY <2>1
  <2>3. ASSUME NEW j \in UpdateKinds, run'[j].pick # U!NoBuild
        PROVE  Listed(run'[j].pick, releases, branch) /\ installed.at <= run'[j].pick.at
    BY <1>6, <1>8, <1>9, <1>12, <1>13, <2>1, <2>3
  <2> QED
    BY <1>4, <1>12, <2>2, <2>3 DEF CalmChecks, Listed
<1>15. Recorded'
  <2>1. ASSUME past' = {}, branch # "daily", s # U!NoBuild PROVE known.at <= s.at
    <3>1. Calm'
      BY <1>4, <2>1 DEF Calm
    <3>2. known # U!NoBuild => Listed(known, releases, branch) /\ Ripe(known, today)
      BY <1>4, <2>1 DEF UpdateOK, Recorded
    <3>3. defer = 0 \/ defer = Defer
      BY <1>1 DEF U!Window
    <3>4. known # U!NoBuild => U!Matches(known, branch) /\ U!Eligible(known, defer) /\ known \in releases
      BY <3>2, <3>3 DEF Listed, Ripe, U!Eligible
    <3>5. known # U!NoBuild => known.at <= s.at
      BY <1>13, <2>1, <3>1, <3>4
    <3>6. s.at \in Nat /\ U!NoBuild.at = 0
      BY <1>7, BuildFacts DEF Offered
    <3> QED
      BY <3>5, <3>6
  <2> QED
    BY <1>4, <1>8, <2>1, RecordStays
<1> QED
  BY <1>10, <1>11, <1>14, <1>15 DEF UpdateOK

\* What is installed when all is calm is what was picked: only of the rolling
\* release the build can change under the download.
LEMMA InstalledCalm ==
  ASSUME UpdateOK, NEW k \in UpdateKinds, U!Replace(k)
  PROVE  /\ installed' \in U!Builds
         /\ Calm => installed' = run[k].pick
<1>1. PICK q \in RunSet : q = run[k]
  BY DEF UpdateOK, UpdateTyped
<1>2. q.pc = "checksum" /\ installed' \in U!Behind(q.pick) /\ q.pick \in U!Builds
  BY <1>1 DEF U!Replace, U!Verified, UpdateOK, PickedWell, RunSet, Offered
<1>3. installed' \in U!Builds
  BY <1>2 DEF U!Behind, UpdateOK, UpdateTyped
<1>4. ASSUME Calm PROVE q.pick.channel # "daily"
  <2>1. U!Matches(q.pick, branch) /\ branch # "daily"
    BY <1>1, <1>2, <1>4, BuildFacts DEF UpdateOK, CalmChecks, Listed, Calm
  <2> QED
    BY <2>1 DEF U!Matches
<1> QED
  BY <1>1, <1>2, <1>3, <1>4 DEF U!Behind

LEMMA ReplaceStep ==
  ASSUME UpdateOK, NEW k \in UpdateKinds, U!Replace(k)
  PROVE  UpdateOK'
<1>1. PICK q \in RunSet : q = run[k]
  BY DEF UpdateOK, UpdateTyped
<1>2. PICK r : r = [q EXCEPT !.pc = "restart"]
  OBVIOUS
<1>3. /\ q.pc = "checksum" /\ today' = today /\ releases' = releases /\ branch' = branch
      /\ serving' = serving /\ told' = told /\ known' = known
      /\ past' = past /\ run' = [run EXCEPT ![k] = r]
  BY <1>1, <1>2 DEF U!Replace, U!Go
<1>4. /\ r \in RunSet /\ r.pc = "restart" /\ r.pick = q.pick /\ r.pick # U!NoBuild
  BY <1>1, <1>2, <1>3 DEF RunSet, CheckPcs, UpdateOK, PickedWell
<1>5. run \in [UpdateKinds -> RunSet] /\ run'[k] = r /\ \A j \in UpdateKinds \ {k} : run'[j] = run[j]
  BY <1>3 DEF UpdateOK, UpdateTyped
<1>6. UpdateTyped'
  BY <1>3, <1>4, InstalledCalm DEF UpdateOK, UpdateTyped
<1>7. PickedWell'
  BY <1>1, <1>3, <1>4, <1>5 DEF UpdateOK, PickedWell, UpdateKinds
<1>8. CalmChecks'
  <2> SUFFICES ASSUME Calm' PROVE CalmChecks'
    BY DEF CalmChecks
  <2>1. Calm
    BY <1>3 DEF Calm
  <2>2. installed' = q.pick
    BY <1>1, <2>1, InstalledCalm
  <2>3. /\ serving.branch = branch /\ Listed(q.pick, releases, branch)
        /\ \A j \in UpdateKinds : run[j].pc # "idle" => j = k
    BY <1>1, <1>3, <1>4, <2>1 DEF UpdateOK, CalmChecks
  <2>4. \A j \in UpdateKinds \ {k} : run'[j].pc = "idle" /\ run'[j].pick = U!NoBuild
    BY <1>5, <2>3 DEF UpdateOK, PickedWell, U!NoRun
  <2>5. \A i, j \in UpdateKinds : run'[i].pc # "idle" /\ run'[j].pc # "idle" => i = j
    BY <2>4
  <2>6. \A j \in UpdateKinds : run'[j].pick # U!NoBuild => j = k
    BY <2>4
  <2> QED
    BY <1>3, <1>4, <1>5, <2>2, <2>3, <2>5, <2>6 DEF CalmChecks, Listed
<1>9. Recorded'
  BY <1>1, <1>3, <1>4, RecordStays
<1> QED
  BY <1>6, <1>7, <1>8, <1>9 DEF UpdateOK

LEMMA PublishStep ==
  ASSUME UpdateOK, U!Publish
  PROVE  UpdateOK'
<1>1. /\ today < MaxTime /\ today' = today + 1
      /\ branch' = branch /\ serving' = serving /\ installed' = installed /\ known' = known
      /\ run' = run /\ told' = told /\ past' = past
  BY DEF U!Publish
<1>2. PICK c \in U!Channels \cup {"none"} :
        releases' = IF c = "none" THEN releases
                    ELSE {b \in releases : c = "daily" => b.channel # "daily"}
                           \cup {[channel |-> c, at |-> today']}
  BY DEF U!Publish
<1>3. today \in Nat \ {0} /\ today' \in 2 .. MaxTime
  BY <1>1, UpdateAssumption DEF UpdateOK, UpdateTyped
<1>4. PICK n : n = [channel |-> c, at |-> today']
  OBVIOUS
<1>5. /\ n.at = today' /\ (c # "none" => n \in U!Builds)
      /\ \A b \in releases' : b \in releases \/ (c # "none" /\ b = n)
      /\ \A b \in releases : b.channel # "daily" => b \in releases'
  BY <1>2, <1>3, <1>4 DEF U!Builds
<1>6. \A b \in releases : b \in U!Builds /\ b.at \in Nat /\ b.at <= today
  BY BuildFacts DEF UpdateOK, UpdateTyped
<1>7. UpdateTyped'
  <2>1. today' \in Nat \ {0} /\ today' <= MaxTime
    BY <1>3, UpdateAssumption
  <2>2. releases' \subseteq U!Builds
    BY <1>5, <1>6
  <2>3. \A b \in releases' : b.at <= today'
    BY <1>1, <1>3, <1>5, <1>6
  <2>4. ASSUME NEW b \in releases', NEW d \in releases', b.at = d.at PROVE b = d
    <3>1. b \in releases /\ d \in releases => b = d
      BY <2>4 DEF UpdateOK, UpdateTyped
    <3>2. \A e \in releases : e.at # n.at
      BY <1>1, <1>3, <1>5, <1>6
    <3> QED
      BY <1>5, <2>4, <3>1, <3>2
  <2> QED
    BY <1>1, <2>1, <2>2, <2>3, <2>4 DEF UpdateOK, UpdateTyped
<1>8. \A b \in Offered : b.at \in Nat /\ (Ripe(b, today) => Ripe(b, today'))
  BY <1>1, <1>3, BuildFacts, UpdateAssumption DEF Ripe, Offered
<1>9. PickedWell'
  <2>1. run["task"].pick \in Offered
    BY DEF UpdateOK, UpdateTyped, UpdateKinds, RunSet
  <2>2. run["task"].pick.at <= today => run["task"].pick.at <= today'
    BY <1>1, <1>3, <1>8, <2>1
  <2> QED
    BY <1>1, <1>8, <2>1, <2>2 DEF UpdateOK, PickedWell
<1>10. ASSUME NEW b, branch # "daily", Listed(b, releases, branch) PROVE Listed(b, releases', branch)
  BY <1>5, <1>10 DEF Listed, U!Matches
<1>11. CalmChecks'
  BY <1>1, <1>10 DEF UpdateOK, CalmChecks, Calm
<1>12. Recorded'
  <2> SUFFICES ASSUME past = {}, branch # "daily" PROVE Recorded'
    BY <1>1 DEF Recorded
  <2>1. known # U!NoBuild => Listed(known, releases', branch) /\ Ripe(known, today')
    BY <1>8, <1>10 DEF UpdateOK, UpdateTyped, Recorded
  <2> QED
    BY <1>1, <2>1 DEF UpdateOK, Recorded
<1> QED
  BY <1>7, <1>9, <1>11, <1>12 DEF UpdateOK

LEMMA SwitchStep ==
  ASSUME UpdateOK, NEW c \in U!Channels, U!SwitchBranch(c)
  PROVE  UpdateOK'
<1>1. /\ branch' = c /\ "switched" \in past'
      /\ today' = today /\ releases' = releases /\ serving' = serving
      /\ installed' = installed /\ known' = known /\ run' = run /\ told' = told
  BY DEF U!SwitchBranch
<1>2. UpdateTyped'
  BY <1>1 DEF UpdateOK, UpdateTyped
<1>3. PickedWell'
  BY <1>1 DEF UpdateOK, PickedWell
<1> QED
  BY <1>1, <1>2, <1>3 DEF UpdateOK, CalmChecks, Calm, Recorded

LEMMA RestartStep ==
  ASSUME UpdateOK, U!Restart
  PROVE  UpdateOK'
<1>1. PICK t \in RunSet, q \in RunSet : t = run["task"] /\ q = run["command"]
  BY DEF UpdateOK, UpdateTyped, UpdateKinds
<1>2. PICK r : r = IF q.pc = "restart" THEN U!NoRun ELSE q
  OBVIOUS
<1>3. /\ serving' = [build |-> installed, branch |-> branch]
      /\ today' = today /\ releases' = releases /\ branch' = branch
      /\ installed' = installed /\ known' = known /\ told' = told
      /\ past \subseteq past' /\ (t.pc = "save" => "lost" \in past')
  BY <1>1 DEF U!Restart
<1>4. /\ U!NoRun \in RunSet /\ U!NoRun.pc = "idle" /\ U!NoRun.pick = U!NoBuild
  BY BuildFacts DEF RunSet, CheckPcs, U!NoRun, Offered
<1>5. /\ run' \in [UpdateKinds -> RunSet]
      /\ run'["task"] = U!NoRun /\ run'["command"] = r
  BY <1>1, <1>2, <1>4 DEF U!Restart, UpdateOK, UpdateTyped, UpdateKinds
<1>6. UpdateTyped'
  BY <1>3, <1>5 DEF UpdateOK, UpdateTyped
<1>7. r = U!NoRun \/ (r = q /\ q.pc # "restart")
  BY <1>2
<1>8. PickedWell'
  BY <1>1, <1>3, <1>4, <1>5, <1>7 DEF UpdateOK, PickedWell, UpdateKinds
<1>9. CalmChecks'
  <2> SUFFICES ASSUME Calm' PROVE CalmChecks'
    BY DEF CalmChecks
  <2>1. Calm
    BY <1>3 DEF Calm
  <2>2. /\ serving'.branch = branch /\ serving'.build = installed
        /\ Listed(installed, releases, branch)
        /\ q.pick # U!NoBuild =>
             /\ Listed(q.pick, releases, branch)
             /\ q.pc # "restart" => installed.at <= q.pick.at
    BY <1>1, <1>3, <2>1 DEF UpdateOK, CalmChecks, UpdateKinds
  <2>3. \A i, j \in UpdateKinds : run'[i].pc # "idle" /\ run'[j].pc # "idle" => i = j
    BY <1>4, <1>5 DEF UpdateKinds
  <2>4. \A j \in UpdateKinds : run'[j].pick # U!NoBuild =>
          /\ Listed(run'[j].pick, releases, branch)
          /\ run'[j].pc # "restart" => installed.at <= run'[j].pick.at
    BY <1>4, <1>5, <1>7, <2>2 DEF UpdateKinds
  <2> QED
    BY <1>3, <2>2, <2>3, <2>4 DEF CalmChecks, Listed
<1>10. Recorded'
  <2> SUFFICES ASSUME past' = {}, branch # "daily" PROVE Recorded'
    BY <1>3 DEF Recorded
  <2>1. past = {} /\ t.pc # "save"
    BY <1>3
  <2>2. ASSUME NEW j \in UpdateKinds PROVE run'[j] = run[j] \/ run'[j] = U!NoRun
    BY <1>1, <1>5, <1>7 DEF UpdateKinds
  <2>3. ASSUME NEW j \in UpdateKinds, run[j].pc = "save" PROVE run'[j] = run[j]
    <3>1. j = "command" /\ q.pc = "save"
      BY <1>1, <2>1, <2>3 DEF UpdateKinds
    <3> QED
      BY <1>1, <1>2, <1>5, <3>1
  <2>4. /\ known # U!NoBuild => Listed(known, releases, branch) /\ Ripe(known, today)
        /\ \A j \in UpdateKinds :
             /\ run[j].pc \in {"load", "note", "save"} /\ run[j].pick # U!NoBuild
                => known.at <= run[j].pick.at
             /\ run[j].pc = "note" => run[j].seen = known
             /\ run[j].pc = "save" =>
                  run[j].seen = IF run[j].pick = U!NoBuild THEN known ELSE run[j].pick
        /\ \A b \in U!Builds :
             /\ told[b] <= 1
             /\ told[b] = 1 => \/ b.at <= known.at
                               \/ \E j \in UpdateKinds : /\ run[j].pc = "save"
                                                         /\ run[j].pick # U!NoBuild
                                                         /\ b.at <= run[j].pick.at
    BY <2>1 DEF UpdateOK, Recorded
  <2>5. ASSUME NEW j \in UpdateKinds
        PROVE  /\ run'[j].pc \in {"load", "note", "save"} /\ run'[j].pick # U!NoBuild
                  => known.at <= run'[j].pick.at
               /\ run'[j].pc = "note" => run'[j].seen = known
               /\ run'[j].pc = "save" =>
                    run'[j].seen = IF run'[j].pick = U!NoBuild THEN known ELSE run'[j].pick
    BY <1>4, <2>2, <2>4
  <2> QED
    BY <1>3, <2>3, <2>4, <2>5 DEF Recorded, Listed, Ripe
<1> QED
  BY <1>6, <1>8, <1>9, <1>10 DEF UpdateOK

LEMMA UpdateSteps ==
  ASSUME UpdateOK, [U!Next]_updateVars
  PROVE  UpdateOK'
<1>1. CASE UNCHANGED updateVars
  BY <1>1 DEF updateVars, UpdateOK, UpdateTyped, PickedWell, CalmChecks, Calm, Recorded
<1>2. CASE U!Publish
  BY <1>2, PublishStep
<1>3. CASE U!Restart
  BY <1>3, RestartStep
<1>4. ASSUME NEW c \in U!Channels, U!SwitchBranch(c) PROVE UpdateOK'
  BY <1>4, SwitchStep
<1>5. ASSUME NEW k \in UpdateKinds,
             U!Check(k) \/ U!Load(k) \/ U!Note(k) \/ U!Save(k) \/ U!GiveUp(k)
             \/ U!Download(k) \/ U!Replace(k)
      PROVE  UpdateOK'
  BY <1>5, CheckStep, LoadStep, NoteStep, SaveStateStep, GiveUpStep, DownloadStep, ReplaceStep
<1> QED
  BY <1>1, <1>2, <1>3, <1>4, <1>5 DEF U!Next, UpdateKinds

LEMMA UpdateInvariant == Spec => []UpdateInv
<1>1. ASSUME U!Init PROVE UpdateOK
  <2>1. /\ today = 1 /\ releases = {U!First} /\ branch \in U!Channels
        /\ serving = [build |-> U!First, branch |-> branch] /\ installed = U!First
        /\ known = U!NoBuild /\ run = [k \in UpdateKinds |-> U!NoRun]
        /\ told = [b \in U!Builds |-> 0] /\ past = {}
    BY <1>1 DEF U!Init, UpdateKinds
  <2>2. /\ U!NoRun \in RunSet /\ U!NoRun.pc = "idle" /\ U!NoRun.pick = U!NoBuild
    BY BuildFacts DEF RunSet, CheckPcs, U!NoRun, Offered
  <2>3. UpdateTyped
    BY <2>1, <2>2, BuildFacts DEF UpdateTyped
  <2>4. PickedWell
    BY <2>1, <2>2 DEF PickedWell, UpdateKinds
  <2>5. CalmChecks
    BY <2>1, <2>2, BuildFacts DEF CalmChecks, Listed, U!Matches
  <2>6. Recorded
    BY <2>1, <2>2 DEF Recorded
  <2> QED
    BY <2>3, <2>4, <2>5, <2>6 DEF UpdateOK
<1>2. Init => UpdateInv
  BY <1>1 DEF Init, UpdateInv
<1>3. UpdateInv /\ [Next]_vars => UpdateInv'
  BY PartStep, UpdateSteps DEF UpdateInv
<1> QED
  BY <1>2, <1>3, PTL DEF Spec

\* The task announces what it finds, records it, and starts from the record the
\* next time: while checks do not overlap and no record is lost, a release comes
\* up once, whatever is published and installed meanwhile.
THEOREM AnnouncesOnce == Spec => []AnnouncedOnce
<1>1. UpdateInv => AnnouncedOnce
  BY DEF UpdateInv, UpdateOK, Recorded, AnnouncedOnce, U!AnnouncedOnce
<1> QED
  BY <1>1, UpdateInvariant, PTL

\* DoUpdate installs a build as it was published, never an older one than there
\* is unless checks or channels mix, and by the task none before its time.
THEOREM InstallsAreSound == Spec => InstallationsSound
<1>1. ASSUME UpdateOK, U!Next PROVE U!InstallsSoundly
  <2>1. CASE installed' = installed
    BY <1>1, <2>1, BuildFacts DEF U!InstallsSoundly, U!Ascends, U!InstalledWithinWindow,
       UpdateOK, UpdateTyped
  <2>2. CASE installed' # installed
    <3>1. PICK k \in UpdateKinds : U!Replace(k)
      BY <1>1, <2>2 DEF U!Next, UpdateKinds, U!Publish, U!Restart, U!SwitchBranch, U!Check,
         U!Load, U!Note, U!Save, U!GiveUp, U!Download
    <3>2. installed' \in U!Builds /\ (Calm => installed' = run[k].pick)
      BY <1>1, <3>1, InstalledCalm
    <3>3. run[k].pc = "checksum" /\ run[k].pick # U!NoBuild
      BY <1>1, <3>1 DEF U!Replace, UpdateOK, PickedWell
    <3>4. U!Ascends
      <4>1. Calm => installed.at <= run[k].pick.at
        BY <1>1, <3>3 DEF UpdateOK, CalmChecks
      <4>2. installed.at \in Nat /\ installed'.at \in Nat
        BY <1>1, <3>2, BuildFacts DEF UpdateOK, UpdateTyped
      <4>3. past \subseteq {"lost", "early"} /\ branch # "daily" => Calm
        BY DEF Calm
      <4> QED
        BY <3>2, <4>1, <4>2, <4>3 DEF U!Ascends
    <3>5. U!InstalledWithinWindow
      <4> SUFFICES ASSUME NEW b \in U!Builds, b = run["task"].pick PROVE today - b.at >= Defer
        BY DEF U!InstalledWithinWindow
      <4>1. b.at \in Nat /\ today \in Nat /\ b.at <= today /\ Ripe(b, today)
        BY <1>1, BuildFacts DEF UpdateOK, UpdateTyped, PickedWell
      <4> QED
        BY <4>1, UpdateAssumption DEF Ripe
    <3> QED
      BY <3>2, <3>4, <3>5 DEF U!InstallsSoundly
  <2> QED
    BY <2>1, <2>2
<1>2. UpdateInv /\ [Next]_vars => [part = "update" => U!InstallsSoundly]_updateVars
  BY <1>1, PartStep DEF UpdateInv
<1> QED
  BY <1>2, UpdateInvariant, PTL DEF Spec, InstallationsSound
=============================================================================
