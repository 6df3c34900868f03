---------------------------- MODULE LinkRegistry ----------------------------
(***************************************************************************)
(* What the link store promises, with no tables, ids or handlers: a slug   *)
(* is free or names one link, and a link is published, changed, visited    *)
(* and withdrawn one step at a time.  Changing a link keeps its visits, a  *)
(* visit is counted once, and a slug is published again only after its     *)
(* link was withdrawn, with the visits starting from zero.                 *)
(***************************************************************************)
EXTENDS Naturals

CONSTANTS Slugs, URLs, Ends, Free

VARIABLE entry   \* for every slug its link, or Free

Entries == [url : URLs, end : Ends, visits : Nat]

Init == entry = [s \in Slugs |-> Free]

Publish(s) ==
  /\ entry[s] = Free
  /\ \E u \in URLs, e \in Ends :
       entry' = [entry EXCEPT ![s] = [url |-> u, end |-> e, visits |-> 0]]

Change(s) ==
  /\ entry[s] # Free
  /\ \E u \in URLs, e \in Ends :
       entry' = [entry EXCEPT ![s].url = u, ![s].end = e]

Visit(s) ==
  /\ entry[s] # Free
  /\ entry' = [entry EXCEPT ![s].visits = @ + 1]

Withdraw(s) ==
  /\ entry[s] # Free
  /\ entry' = [entry EXCEPT ![s] = Free]

Next == \E s \in Slugs : Publish(s) \/ Change(s) \/ Visit(s) \/ Withdraw(s)

Spec == Init /\ [][Next]_entry
=============================================================================
