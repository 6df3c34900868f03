------------------------- MODULE CommandLineProofs --------------------------
(***************************************************************************)
(* Proofs about CommandLine: a command changes the server once at most,    *)
(* what is saved outlives the runs, and a version that is too old sends    *)
(* nothing.                                                                *)
(***************************************************************************)
EXTENDS CommandLine, TLAPS

\* What the bounds must be.
BoundsAreNat == MaxVersion \in Nat \ {0} /\ Retry \in Nat

Places == {"none", "save", "write", "gate", "discover", "download", "stage", "rename",
           "call", "wizard", "saveSetup", "writeSetup"}
Outcomes == {"nothing", "killed", "ok", "error", "connection", "config", "notfound", "auth",
             "usage", "unread", "aborted"}
Texts  == {Unset, Bad} \cup Addresses \cup AtFirst \cup Tokens
Inputs == [Fields -> Texts]
Versions == 0 .. MaxVersion
Docs   == [server : Texts, missing : BOOLEAN, min : Nat, latest : Versions]
Runs ==
  [at : Places, kind : Kinds, env : Inputs, flags : Inputs, cfg : Inputs, doc : Docs,
   left : Nat, got : Versions, effects : Nat, said : Outcomes, gated : BOOLEAN,
   tested : BOOLEAN, tests : SUBSET Texts, late : SUBSET Texts, good : Texts,
   overtaken : BOOLEAN, kept : Inputs]

HostOK ==
  /\ file = NoFile \/ file \in Inputs
  /\ mode \in {"never", "warn", "auto"}
  /\ cached \in Docs /\ age \in Nat /\ starts \in Nat
  /\ bin \in 1 .. MaxVersion
  /\ offered \in [Addresses -> [min : Nat, latest : 1 .. MaxVersion]]
TypeOK == HostOK /\ p \in Runs

\* Nothing is changed before the end, by the commands that change anything.
Counted ==
  /\ ~At("none") \/ p.kind # "change" => p.effects = 0
  /\ p.effects <= 1

\* Who comes to the wizard and its steps, and what it knows there.
Setting ==
  /\ p.at \in {"wizard", "saveSetup", "writeSetup"} => p.kind \in {"setup", "ui"}
  /\ p.at = "wizard" /\ p.tested => p.overtaken \/ Server = p.good
  /\ p.at = "wizard" => p.tests \subseteq p.late \cup {Server}
  /\ p.at \in {"save", "write", "gate", "discover", "download", "stage", "rename"} =>
       ~p.tested /\ p.tests = {}

\* What a run that goes on has to keep is in the file, or about to be written.
Keeping ==
  /\ p.at \in {"save", "write"} => \A f \in Fields : p.kept[f] # Unset => p.cfg[f] = p.kept[f]
  /\ p.at \in {"gate", "discover", "download", "stage", "rename", "call"}
     /\ p.kind \notin {"setup", "ui"} =>
       \A f \in Fields : p.kept[f] # Unset => file[f] = p.kept[f]
  /\ ~At("none") => file \in Inputs

\* Whether a document is at hand, and which.
Gating ==
  /\ p.at \in {"discover", "download", "stage", "rename"} => Usually
  /\ p.at \in {"download", "stage", "rename"} =>
       /\ p.doc.server = Server /\ p.doc.latest > bin /\ p.kind # "check"
       /\ p.kind \notin Updates => ~TooOld(bin, p.doc)
  /\ p.at \in {"stage", "rename"} => p.got = p.doc.latest
  /\ p.at \in {"wizard", "saveSetup", "writeSetup"} /\ p.kind = "ui" => ~p.gated

IInv ==
  /\ TypeOK /\ Counted /\ Setting /\ Keeping /\ Gating
  /\ ChangedOnce /\ SavedKept /\ GateHolds

-----------------------------------------------------------------------------
(***************************************************************************)
(* How a run goes on and ends                                              *)
(***************************************************************************)

LEMMA RestingType ==
  ASSUME BoundsAreNat
  PROVE  /\ Empty \in Inputs /\ NoDoc \in Docs /\ Resting \in Runs
         /\ Resting.at = "none" /\ Resting.effects = 0 /\ Resting.tested = FALSE
         /\ Resting.gated = TRUE /\ Resting.tests = {} /\ Resting.overtaken = FALSE
<1>1. Empty = [f \in Fields |-> Unset] /\ Unset \in Texts
  BY DEF Empty, Fields, Texts
<1>2. Empty \in Inputs
  BY <1>1 DEF Inputs
<1>3. NoDoc \in Docs
  BY <1>1 DEF BoundsAreNat, NoDoc, Docs, Versions
<1>4. "none" \in Places /\ "ui" \in Kinds /\ "nothing" \in Outcomes /\ 0 \in Versions
  BY DEF Places, Kinds, Outcomes, Versions, BoundsAreNat
<1>5. {} \in SUBSET Texts
  OBVIOUS
<1>6. Resting \in Runs
  BY <1>1, <1>2, <1>3, <1>4, <1>5 DEF Resting, Runs
<1> QED
  BY <1>2, <1>3, <1>6 DEF Resting

LEMMA OverFacts ==
  ASSUME BoundsAreNat, NEW q \in Runs, NEW said \in Outcomes
  PROVE  /\ Over(q, said) \in Runs /\ Over(q, said).at = "none"
         /\ Over(q, said).said = said /\ Over(q, said).kind = q.kind
         /\ Over(q, said).effects = q.effects /\ Over(q, said).kept = q.kept
BY RestingType DEF Over, Runs

\* A run that ends leaves the files as they are.
LEMMA EndStep ==
  ASSUME BoundsAreNat, IInv, HostOK', file' = file, bin' = bin,
         NEW q \in Runs, NEW said \in Outcomes, p' = Over(q, said),
         q.kind = p.kind, q.kept = p.kept, q.effects <= 1, q.kind # "change" => q.effects = 0,
         q.kind = "change" =>
           /\ said = "ok" => q.effects = 1
           /\ said \in {"notfound", "auth", "config", "usage", "unread", "aborted"} =>
                q.effects = 0,
         said \notin {"nothing", "killed"} /\ q.kind \notin {"setup", "ui"} =>
           \A f \in Fields : q.kept[f] # Unset => file[f] = q.kept[f]
  PROVE  IInv'
<1>1. /\ p' \in Runs /\ p'.at = "none" /\ p'.said = said /\ p'.kind = q.kind
      /\ p'.effects = q.effects /\ p'.kept = q.kept
  BY OverFacts
<1>2. TypeOK'
  BY <1>1 DEF TypeOK
<1>3. Counted' /\ ChangedOnce'
  BY <1>1 DEF Counted, ChangedOnce, At, Ended
<1>4. Setting' /\ Gating' /\ Keeping'
  BY <1>1 DEF Setting, Gating, Keeping, At
<1>5. SavedKept'
  BY <1>1 DEF SavedKept, Ended, At
<1>6. GateHolds'
  BY <1>1 DEF GateHolds, At, IInv, TypeOK, HostOK
<1> QED
  BY <1>2, <1>3, <1>4, <1>5, <1>6 DEF IInv

\* After the gate.
LEMMA ProceedStep ==
  ASSUME BoundsAreNat, IInv, HostOK', file' = file, bin' = bin, file \in Inputs,
         NEW q \in Runs, Proceed(q), q.effects = 0, ~q.tested, q.tests = {},
         q.kind \notin {"setup", "ui"} =>
           \A f \in Fields : q.kept[f] # Unset => file[f] = q.kept[f],
         q.cfg = p.cfg,
         q.gated => q.doc.server = Server /\ Usually,
         q.gated /\ q.kind \notin Updates => ~TooOld(bin, q.doc),
         q.kind \notin Updates
  PROVE  IInv'
<1>1. /\ p' \in Runs /\ p'.at \in {"wizard", "call"} /\ p'.kind = q.kind /\ p'.cfg = q.cfg
      /\ p'.effects = 0 /\ p'.tested = FALSE /\ p'.tests = {} /\ p'.kept = q.kept
      /\ p'.doc = q.doc /\ p'.gated = q.gated
      /\ p'.at = "wizard" => q.kind = "setup" \/ (q.kind = "ui" /\ ~Usually)
  BY RestingType DEF Proceed, Runs, Places, BoundsAreNat
<1>2. TypeOK'
  BY <1>1 DEF TypeOK
<1>3. Counted' /\ ChangedOnce'
  BY <1>1 DEF Counted, ChangedOnce, At, Ended
<1>4. Setting' /\ Keeping'
  BY <1>1 DEF Setting, Keeping, At
<1>5. SavedKept'
  BY <1>1 DEF SavedKept, Ended, At
<1>6. Gating' /\ GateHolds'
  BY <1>1 DEF Gating, GateHolds, At, Server, Usually, IInv, TypeOK, HostOK, TooOld
<1> QED
  BY <1>2, <1>3, <1>4, <1>5, <1>6 DEF IInv

-----------------------------------------------------------------------------
(***************************************************************************)
(* The steps                                                               *)
(***************************************************************************)

LEMMA InitIInv ==
  ASSUME BoundsAreNat, Init
  PROVE  IInv
<1>1. file = NoFile \/ file \in Inputs
  <2>1. CASE file \in [server : AtFirst, token : Tokens]
    <3>1. PICK s \in AtFirst, t \in Tokens : file = [server |-> s, token |-> t]
      BY <2>1
    <3>2. file = [f \in Fields |-> IF f = "server" THEN s ELSE t]
      BY <3>1 DEF Fields
    <3> QED
      BY <3>2 DEF Inputs, Texts
  <2> QED
    BY <2>1 DEF Init
<1>2. TypeOK
  BY <1>1, RestingType DEF Init, TypeOK, HostOK, BoundsAreNat
<1> QED
  BY <1>2, RestingType DEF Init, IInv, Counted, ChangedOnce, Setting, Keeping, SavedKept,
     Gating, GateHolds, At, Ended, Resting, HostOK, TypeOK

LEMMA StartStep ==
  ASSUME BoundsAreNat, IInv, Start
  PROVE  IInv'
<1> DEFINE saved == IF file = NoFile THEN Empty ELSE file
<1>1. PICK env \in Values, flags \in Values, kind \in Kinds :
        LET merged == ApplyEnv(saved, env)
            persist == \E f \in Fields : SaveIfEmptyOrInvalid(f, merged[f], flags[f])
        IN /\ p' = [Resting EXCEPT
                     !.at = IF persist THEN "save" ELSE "gate",
                     !.kind = kind, !.env = env, !.flags = flags,
                     !.cfg = ForNow(merged, flags),
                     !.kept = Kept(saved, env, flags)]
           /\ file' = saved
  BY DEF Start
<1> DEFINE merged == ApplyEnv(saved, env)
           cfg    == ForNow(merged, flags)
           kept   == Kept(saved, env, flags)
           persist == \E f \in Fields : SaveIfEmptyOrInvalid(f, merged[f], flags[f])
<1>2. saved \in Inputs
  BY RestingType DEF IInv, TypeOK, HostOK
<1>3. env \in Inputs /\ flags \in Inputs
  <2>1. ASSUME NEW v \in Values PROVE v \in Inputs
    <3>1. PICK s \in {Unset, Bad} \cup Addresses, t \in {Unset, Bad} \cup Tokens :
            v = [server |-> s, token |-> t]
      BY DEF Values
    <3>2. v = [f \in Fields |-> IF f = "server" THEN s ELSE t]
      BY <3>1 DEF Fields
    <3> QED
      BY <3>2 DEF Inputs, Texts
  <2> QED
    BY <2>1
<1>4. merged \in Inputs
  BY <1>2, <1>3 DEF ApplyEnv, Inputs
<1>5. cfg \in Inputs /\ \A f \in Fields : flags[f] \notin Usable(f) => cfg[f] = merged[f]
  BY <1>3, <1>4 DEF ForNow, Inputs
<1>6. kept \in Inputs /\ \A f \in Fields : kept[f] # Unset => kept[f] = saved[f]
  BY <1>2, RestingType DEF Kept, Inputs, Texts
<1>7. persist => \A f \in Fields : kept[f] # Unset => cfg[f] = kept[f]
  <2> SUFFICES ASSUME persist, NEW f \in Fields, kept[f] # Unset
               PROVE  cfg[f] = kept[f]
    OBVIOUS
  <2>1. \E g \in Fields : flags[g] \in Usable(g) /\ merged[g] \notin Usable(g)
    BY DEF SaveIfEmptyOrInvalid
  <2>2. env[f] = Unset /\ flags[f] \notin Usable(f)
    BY <2>1 DEF Kept
  <2>3. merged[f] = saved[f]
    BY <2>2 DEF ApplyEnv
  <2> QED
    BY <2>2, <2>3, <1>5, <1>6
<1> PICK at \in {"save", "gate"} : at = IF persist THEN "save" ELSE "gate"
  OBVIOUS
<1> HIDE DEF saved, merged, cfg, kept, persist
<1>8. PICK c, k : c = cfg /\ k = kept
  OBVIOUS
<1>9. p' = [Resting EXCEPT !.at = at, !.kind = kind, !.env = env, !.flags = flags,
                           !.cfg = c, !.kept = k] /\ file' = saved
  BY <1>1, <1>8 DEF saved, merged, cfg, kept, persist
<1>10. /\ p' \in Runs /\ p'.at = at /\ p'.effects = 0 /\ p'.tested = FALSE /\ p'.tests = {}
       /\ p'.cfg = c /\ p'.kept = k
  BY <1>9, <1>8, <1>3, <1>5, <1>6, RestingType DEF Runs, Places
<1>11. TypeOK'
  BY <1>9, <1>10, <1>2 DEF Start, IInv, TypeOK, HostOK
<1>12. Keeping'
  BY <1>10, <1>9, <1>8, <1>2, <1>6, <1>7 DEF Keeping, At
<1> QED
  BY <1>10, <1>11, <1>12 DEF IInv, Counted, ChangedOnce, Setting, SavedKept,
     Gating, GateHolds, At, Ended, HostOK, TypeOK

LEMMA TruncateStep ==
  ASSUME BoundsAreNat, IInv, Truncate
  PROVE  IInv'
<1>1. PICK at \in {"write", "writeSetup"} :
        p' = [p EXCEPT !.at = at] /\ at = IF p.at = "save" THEN "write" ELSE "writeSetup"
  BY DEF Truncate, Go, At
<1>2. /\ p' \in Runs /\ p'.at = at /\ p'.kind = p.kind /\ p'.effects = p.effects
      /\ p'.tested = p.tested /\ p'.tests = p.tests /\ p'.cfg = p.cfg
      /\ p'.kept = p.kept /\ p'.good = p.good /\ p'.overtaken = p.overtaken
      /\ p'.gated = p.gated
  BY <1>1 DEF IInv, TypeOK, Runs, Places
<1>3. TypeOK'
  BY <1>2, RestingType DEF Truncate, IInv, TypeOK, HostOK
<1>4. Keeping' /\ SavedKept'
  BY <1>1, <1>2, RestingType DEF Truncate, IInv, Keeping, SavedKept, Setting, At, Ended, Server
<1> QED
  BY <1>1, <1>2, <1>3, <1>4 DEF Truncate, IInv, TypeOK, Counted, ChangedOnce, Setting,
     Gating, GateHolds, At, Ended, Server, HostOK

LEMMA WriteStep ==
  ASSUME BoundsAreNat, IInv, Write
  PROVE  IInv'
<1>1. HostOK' /\ file' = p.cfg /\ bin' = bin /\ p \in Runs /\ p.cfg \in Inputs
  BY DEF Write, IInv, TypeOK, HostOK, Runs
<1>2. CASE p.at = "write"
  <2>1. p' = [p EXCEPT !.at = "gate"]
    BY <1>2 DEF Write, Go, At
  <2>2. /\ p' \in Runs /\ p'.at = "gate" /\ p'.kind = p.kind /\ p'.effects = p.effects
        /\ p'.tested = p.tested /\ p'.tests = p.tests /\ p'.kept = p.kept
    BY <1>1, <2>1 DEF Runs, Places
  <2> QED
    BY <1>1, <1>2, <2>2 DEF IInv, TypeOK, Counted, ChangedOnce, Setting, Keeping, SavedKept,
       Gating, GateHolds, At, Ended, HostOK
<1>3. CASE p.at = "writeSetup" /\ p.kind = "ui"
  <2>1. p' = [p EXCEPT !.at = "call", !.left = Retry]
    BY <1>3 DEF Write, At
  <2>2. /\ p' \in Runs /\ p'.at = "call" /\ p'.kind = p.kind /\ p'.effects = p.effects
        /\ p'.gated = p.gated
    BY <1>1, <2>1 DEF Runs, Places, BoundsAreNat
  <2> QED
    BY <1>1, <1>3, <2>2 DEF IInv, TypeOK, Counted, ChangedOnce, Setting, Keeping, SavedKept,
       Gating, GateHolds, At, Ended, HostOK
<1>4. CASE p.at = "writeSetup" /\ p.kind # "ui"
  <2>1. p' = Over(p, "ok")
    BY <1>4 DEF Write, At, End
  <2>2. /\ p' \in Runs /\ p'.at = "none" /\ p'.kind = "setup" /\ p'.effects = p.effects
    BY <1>1, <1>4, <2>1, OverFacts DEF IInv, Setting, Outcomes
  <2> QED
    BY <1>1, <1>4, <2>2 DEF IInv, TypeOK, Counted, ChangedOnce, Setting, Keeping, SavedKept,
       Gating, GateHolds, At, Ended, HostOK
<1> QED
  BY <1>2, <1>3, <1>4 DEF Write, At

\* A document of the server that the run asks: it ends, downloads or goes on.
LEMMA JudgeStep ==
  ASSUME BoundsAreNat, IInv, HostOK', file' = file, bin' = bin,
         p.at \in {"gate", "discover"}, Usually,
         NEW doc \in Docs, doc.server = Server, Judge(doc)
  PROVE  IInv'
<1>1. p \in Runs /\ p.effects = 0 /\ ~p.tested /\ p.tests = {} /\ file \in Inputs
  BY DEF IInv, TypeOK, Counted, Setting, Keeping, At
<1>2. p.kind \notin {"setup", "ui"} => \A f \in Fields : p.kept[f] # Unset => file[f] = p.kept[f]
  BY DEF IInv, Keeping
<1>3. ASSUME p.kind \in Updates, p' = Over(p, "ok")
      PROVE  IInv'
  BY <1>1, <1>2, <1>3, EndStep DEF Updates, Outcomes
<1>4. ASSUME p.kind \notin Updates, TooOld(bin, doc), p' = Over(p, "error")
      PROVE  IInv'
  BY <1>1, <1>2, <1>4, EndStep DEF Outcomes
<1>5. ASSUME p' = [p EXCEPT !.at = "download", !.doc = doc], bin < doc.latest, p.kind # "check",
             p.kind \notin Updates => ~TooOld(bin, doc)
      PROVE  IInv'
  <2>1. /\ p' \in Runs /\ p'.at = "download" /\ p'.kind = p.kind /\ p'.effects = p.effects
        /\ p'.tested = p.tested /\ p'.tests = p.tests
        /\ p'.kept = p.kept /\ p'.doc = doc /\ p'.cfg = p.cfg
    BY <1>1, <1>5 DEF Runs, Places
  <2>2. bin \in Nat /\ doc.latest \in Nat
    BY DEF HostOK, IInv, TypeOK, Docs, Versions
  <2> QED
    BY <1>1, <1>2, <1>5, <2>1, <2>2 DEF IInv, TypeOK, Counted, ChangedOnce, Setting, Keeping,
       SavedKept, Gating, GateHolds, At, Ended, HostOK, Server, Usually, TooOld
<1>6. ASSUME p.kind \notin Updates, ~TooOld(bin, doc), Proceed([p EXCEPT !.doc = doc])
      PROVE  IInv'
  <2>1. PICK q : q = [p EXCEPT !.doc = doc]
    OBVIOUS
  <2>2. /\ q \in Runs /\ q.effects = 0 /\ ~q.tested /\ q.tests = {}
        /\ q.kind = p.kind /\ q.kept = p.kept
        /\ q.cfg = p.cfg /\ q.doc = doc
    BY <1>1, <2>1 DEF Runs
  <2>3. Proceed(q)
    BY <1>6, <2>1
  <2> QED
    BY <1>1, <1>2, <1>6, <2>2, <2>3, ProceedStep
<1> QED
  BY <1>3, <1>4, <1>5, <1>6 DEF Judge, End, Updates

LEMMA GateStep ==
  ASSUME BoundsAreNat, IInv, Gate
  PROVE  IInv'
<1>1. /\ HostOK' /\ file' = file /\ bin' = bin /\ cached \in Docs /\ p.at = "gate"
      /\ p \in Runs /\ p.effects = 0 /\ ~p.tested /\ p.tests = {} /\ file \in Inputs
  BY DEF Gate, IInv, TypeOK, HostOK, Counted, Setting, Keeping, At
<1>2. p.kind \notin {"setup", "ui"} => \A f \in Fields : p.kept[f] # Unset => file[f] = p.kept[f]
  BY <1>1 DEF IInv, Keeping
<1>3. CASE p.kind \in Updates /\ p' = Over(p, "config")
  BY <1>1, <1>2, <1>3, EndStep DEF Updates, Outcomes
<1>4. CASE Usually /\ Call("discover")
  <2>1. /\ p' \in Runs /\ p'.at = "discover" /\ p'.kind = p.kind /\ p'.effects = p.effects
        /\ p'.tested = p.tested /\ p'.tests = p.tests /\ p'.kept = p.kept /\ p'.cfg = p.cfg
    BY <1>1, <1>4 DEF Call, Runs, Places, BoundsAreNat
  <2> QED
    BY <1>1, <1>2, <1>4, <2>1 DEF IInv, TypeOK, Counted, ChangedOnce, Setting, Keeping,
       SavedKept, Gating, GateHolds, At, Ended, HostOK, Server, Usually
<1>5. CASE p.kind \notin Updates /\ Proceed([p EXCEPT !.gated = FALSE])
  <2>1. PICK q : q = [p EXCEPT !.gated = FALSE]
    OBVIOUS
  <2>2. /\ q \in Runs /\ q.effects = 0 /\ ~q.tested /\ q.tests = {}
        /\ q.kind = p.kind /\ q.kept = p.kept
        /\ q.cfg = p.cfg /\ q.gated = FALSE
    BY <1>1, <2>1 DEF Runs
  <2>3. Proceed(q)
    BY <1>5, <2>1
  <2> QED
    BY <1>1, <1>2, <1>5, <2>2, <2>3, ProceedStep
<1>6. CASE Usually /\ Hit /\ Judge(cached)
  BY <1>1, <1>6, JudgeStep DEF Hit
<1> QED
  BY <1>3, <1>4, <1>5, <1>6 DEF Gate, End

LEMMA DiscoverStep ==
  ASSUME BoundsAreNat, IInv, Discover
  PROVE  IInv'
<1>1. /\ file' = file /\ bin' = bin /\ p.at = "discover" /\ Usually /\ Server \in Texts
      /\ offered[Server] \in [min : Nat, latest : 1 .. MaxVersion]
  BY DEF Discover, At, IInv, TypeOK, HostOK, Gating, Usually, Texts
<1>2. PICK missing \in BOOLEAN :
        LET doc == [server |-> Server, missing |-> missing,
                    min |-> IF missing THEN 0 ELSE offered[Server].min,
                    latest |-> IF missing THEN 0 ELSE offered[Server].latest]
        IN cached' = doc /\ age' = 0 /\ Judge(doc)
  BY DEF Discover
<1>3. PICK min \in Nat, latest \in Versions :
        /\ min = IF missing THEN 0 ELSE offered[Server].min
        /\ latest = IF missing THEN 0 ELSE offered[Server].latest
  BY <1>1 DEF BoundsAreNat, Versions
<1>4. PICK doc : doc = [server |-> Server, missing |-> missing, min |-> min, latest |-> latest]
  OBVIOUS
<1>5. doc \in Docs /\ doc.server = Server
  BY <1>1, <1>4 DEF Docs
<1>6. cached' = doc /\ age' = 0 /\ Judge(doc)
  BY <1>2, <1>3, <1>4
<1>7. HostOK'
  BY <1>5, <1>6 DEF Discover, IInv, TypeOK, HostOK
<1> QED
  BY <1>1, <1>5, <1>6, <1>7, JudgeStep

LEMMA DiscoverFailsStep ==
  ASSUME BoundsAreNat, IInv, DiscoverFails
  PROVE  IInv'
<1>1. /\ HostOK' /\ file' = file /\ bin' = bin /\ p.at = "discover"
      /\ p \in Runs /\ p.effects = 0 /\ ~p.tested /\ p.tests = {} /\ file \in Inputs
  BY DEF DiscoverFails, IInv, TypeOK, HostOK, Counted, Setting, Keeping, At
<1>2. p.kind \notin {"setup", "ui"} => \A f \in Fields : p.kept[f] # Unset => file[f] = p.kept[f]
  BY <1>1 DEF IInv, Keeping
<1>3. CASE p.left > 0
  <2>1. p' = [p EXCEPT !.left = p.left - 1] /\ p.left - 1 \in Nat
    BY <1>1, <1>3 DEF DiscoverFails, Runs
  <2>2. /\ p' \in Runs /\ p'.at = p.at /\ p'.kind = p.kind /\ p'.effects = p.effects
        /\ p'.tested = p.tested /\ p'.tests = p.tests /\ p'.kept = p.kept /\ p'.cfg = p.cfg
    BY <1>1, <2>1 DEF Runs
  <2> QED
    BY <1>1, <1>2, <2>2 DEF IInv, TypeOK, Counted, ChangedOnce, Setting, Keeping,
       SavedKept, Gating, GateHolds, At, Ended, HostOK, Server, Usually
<1>4. CASE p.kind \in Updates /\ p' = Over(p, "connection")
  BY <1>1, <1>2, <1>4, EndStep DEF Updates, Outcomes
<1>5. CASE p.kind \notin Updates /\ Proceed([p EXCEPT !.gated = FALSE])
  <2>1. PICK q : q = [p EXCEPT !.gated = FALSE]
    OBVIOUS
  <2>2. /\ q \in Runs /\ q.effects = 0 /\ ~q.tested /\ q.tests = {}
        /\ q.kind = p.kind /\ q.kept = p.kept
        /\ q.cfg = p.cfg /\ q.gated = FALSE
    BY <1>1, <2>1 DEF Runs
  <2>3. Proceed(q)
    BY <1>5, <2>1
  <2> QED
    BY <1>1, <1>2, <1>5, <2>2, <2>3, ProceedStep
<1> QED
  BY <1>3, <1>4, <1>5 DEF DiscoverFails, End

LEMMA DownloadStep ==
  ASSUME BoundsAreNat, IInv, Download
  PROVE  IInv'
<1>1. /\ HostOK' /\ file' = file /\ bin' = bin /\ bin \in 1 .. MaxVersion /\ p.at = "download"
      /\ p \in Runs /\ p.effects = 0 /\ ~p.tested /\ p.tests = {} /\ file \in Inputs
      /\ Usually /\ p.doc.server = Server /\ p.doc.latest > bin /\ p.kind # "check"
      /\ p.kind \notin Updates => ~TooOld(bin, p.doc)
  BY DEF Download, IInv, TypeOK, HostOK, Counted, Setting, Keeping, Gating, At
<1>2. p.kind \notin {"setup", "ui"} => \A f \in Fields : p.kept[f] # Unset => file[f] = p.kept[f]
  BY <1>1 DEF IInv, Keeping
<1>3. CASE NotInstalled
  <2>1. CASE p.kind = "update" /\ p' = Over(p, "error")
    BY <1>1, <1>2, <2>1, EndStep DEF Outcomes
  <2>2. CASE p.kind # "update" /\ Proceed(p)
    BY <1>1, <1>2, <2>2, ProceedStep DEF Updates
  <2> QED
    BY <1>3, <2>1, <2>2 DEF NotInstalled, End
<1>4. ASSUME NEW got \in {offered[Server].latest, Torn}, Matches(got),
             p' = [p EXCEPT !.at = "stage", !.got = got]
      PROVE  IInv'
  <2>1. got = p.doc.latest /\ got \in Versions
    BY <1>1, <1>4 DEF Matches, Runs, Docs
  <2>2. /\ p' \in Runs /\ p'.at = "stage" /\ p'.kind = p.kind /\ p'.effects = p.effects
        /\ p'.tested = p.tested /\ p'.tests = p.tests
        /\ p'.kept = p.kept /\ p'.doc = p.doc /\ p'.cfg = p.cfg
        /\ p'.got = got
    BY <1>1, <1>4, <2>1 DEF Runs, Places
  <2> QED
    BY <1>1, <1>2, <2>1, <2>2 DEF IInv, TypeOK, Counted, ChangedOnce, Setting, Keeping,
       SavedKept, Gating, GateHolds, At, Ended, HostOK, Server, Usually, TooOld
<1> QED
  BY <1>3, <1>4 DEF Download

LEMMA StageStep ==
  ASSUME BoundsAreNat, IInv, Stage
  PROVE  IInv'
<1>1. /\ HostOK' /\ file' = file /\ bin' = bin /\ p.at = "stage"
      /\ p \in Runs /\ p' = [p EXCEPT !.at = "rename"]
  BY DEF Stage, CopiedBeside, Go, IInv, TypeOK, HostOK, At
<1>2. /\ p' \in Runs /\ p'.at = "rename" /\ p'.kind = p.kind /\ p'.effects = p.effects
      /\ p'.tested = p.tested /\ p'.tests = p.tests
        /\ p'.kept = p.kept /\ p'.doc = p.doc /\ p'.cfg = p.cfg
      /\ p'.got = p.got
  BY <1>1 DEF Runs, Places
<1> QED
  BY <1>1, <1>2 DEF IInv, TypeOK, Counted, ChangedOnce, Setting, Keeping,
     SavedKept, Gating, GateHolds, At, Ended, HostOK, Server, Usually, TooOld

LEMMA RenameStep ==
  ASSUME BoundsAreNat, IInv, Rename
  PROVE  IInv'
<1>1. /\ p.at = "rename" /\ p \in Runs /\ p.effects = 0 /\ file \in Inputs
      /\ p.got \in 1 .. MaxVersion
  BY DEF Rename, At, IInv, TypeOK, HostOK, Counted, Keeping, Gating, Runs, Versions, BoundsAreNat
<1>2. PICK cfg : cfg = ForNow(ApplyEnv(file, p.env), p.flags)
  OBVIOUS
<1>3. cfg \in Inputs
  BY <1>1, <1>2 DEF ForNow, ApplyEnv, Inputs, Runs
<1>4. p' = [Resting EXCEPT !.at = "gate", !.kind = p.kind, !.env = p.env, !.flags = p.flags,
                           !.cfg = cfg, !.kept = p.kept]
  BY <1>2 DEF Rename
<1>5. /\ p' \in Runs /\ p'.at = "gate" /\ p'.kind = p.kind /\ p'.effects = 0
      /\ p'.tested = FALSE /\ p'.tests = {} /\ p'.kept = p.kept
  BY <1>1, <1>3, <1>4, RestingType DEF Runs, Places
<1>6. TypeOK'
  BY <1>1, <1>5 DEF Rename, IInv, TypeOK, HostOK
<1> QED
  BY <1>1, <1>5, <1>6 DEF Rename, IInv, TypeOK, Counted, ChangedOnce, Setting, Keeping,
     SavedKept, Gating, GateHolds, At, Ended, HostOK

LEMMA ChangesAreChanging == "change" \in Changing
<1>1. runShorten.kind = "change" /\ runShorten.method = "POST"
  BY DEF runShorten, CreateLink
<1>2. runShorten \in Commands
  BY DEF Commands
<1> QED
  BY <1>1, <1>2 DEF Changing

LEMMA RequestStep ==
  ASSUME BoundsAreNat, IInv, Request
  PROVE  IInv'
<1>1. /\ HostOK' /\ file' = file /\ bin' = bin /\ p.at = "call"
      /\ p \in Runs /\ p.effects = 0 /\ p.left \in Nat /\ file \in Inputs
  BY DEF Request, At, IInv, TypeOK, HostOK, Counted, Keeping, Runs
<1>2. p.kind \notin {"setup", "ui"} => \A f \in Fields : p.kept[f] # Unset => file[f] = p.kept[f]
  BY <1>1 DEF IInv, Keeping
<1>3. PICK done \in BOOLEAN, arrives \in BOOLEAN :
        LET q == [p EXCEPT !.effects = @ + IF done /\ p.kind = "change" THEN 1 ELSE 0] IN
        IF arrives
        THEN \E said \in IF done THEN {"ok", "error"} ELSE {"notfound", "auth", "error"} :
               p' = Over(q, said)
        ELSE IF Retries THEN p' = [q EXCEPT !.left = @ - 1]
        ELSE p' = Over(q, "connection")
  BY DEF Request
<1>4. PICK n \in {0, 1} : n = IF done /\ p.kind = "change" THEN 1 ELSE 0
  OBVIOUS
<1>5. PICK q : q = [p EXCEPT !.effects = n]
  OBVIOUS
<1>6. /\ q \in Runs /\ q.effects = n /\ q.kind = p.kind /\ q.kept = p.kept /\ q.left = p.left
      /\ q.at = p.at /\ q.cfg = p.cfg /\ q.doc = p.doc /\ q.gated = p.gated
  BY <1>1, <1>5 DEF Runs
<1>7. q = [p EXCEPT !.effects = @ + IF done /\ p.kind = "change" THEN 1 ELSE 0]
  BY <1>1, <1>4, <1>5
<1>8. ASSUME NEW said \in IF done THEN {"ok", "error"} ELSE {"notfound", "auth", "error"},
             p' = Over(q, said)
      PROVE  IInv'
  BY <1>1, <1>2, <1>4, <1>6, <1>8, EndStep DEF Outcomes
<1>9. CASE p' = Over(q, "connection")
  BY <1>1, <1>2, <1>4, <1>6, <1>9, EndStep DEF Outcomes
<1>10. ASSUME Retries, p' = [q EXCEPT !.left = @ - 1]
       PROVE  IInv'
  <2>1. p.left - 1 \in Nat /\ n = 0
    BY <1>1, <1>4, <1>10, ChangesAreChanging DEF Retries
  <2>2. /\ p' \in Runs /\ p'.at = "call" /\ p'.kind = p.kind /\ p'.effects = 0
        /\ p'.kept = p.kept /\ p'.cfg = p.cfg /\ p'.doc = p.doc /\ p'.gated = p.gated
    BY <1>1, <1>6, <1>10, <2>1 DEF Runs
  <2> QED
    BY <1>1, <1>2, <2>2 DEF IInv, TypeOK, Counted, ChangedOnce, Setting, Keeping,
       SavedKept, Gating, GateHolds, At, Ended, HostOK, Server, TooOld
<1> QED
  BY <1>3, <1>7, <1>8, <1>9, <1>10

LEMMA CallEndStep ==
  ASSUME BoundsAreNat, IInv, Decline \/ NoServer
  PROVE  IInv'
<1>1. /\ HostOK' /\ file' = file /\ bin' = bin /\ p.at = "call"
      /\ p \in Runs /\ p.effects = 0
  BY DEF Decline, NoServer, At, IInv, TypeOK, HostOK, Counted
<1>2. p.kind \notin {"setup", "ui"} => \A f \in Fields : p.kept[f] # Unset => file[f] = p.kept[f]
  BY <1>1 DEF IInv, Keeping
<1>3. PICK said \in Outcomes : p' = Over(p, said) /\ said # "ok"
  <2>1. CASE Decline
    <3>1. PICK c \in Commands : \E said \in c.declines : p' = Over(p, said)
      BY <2>1 DEF Decline, End
    <3>2. c.declines \subseteq {"usage", "unread", "aborted"}
      BY DEF Commands, runShorten, runUpdateLink, runDelete, runGet, runStats, runList,
         runHealth, readStdin, selectSlug, confirmed
    <3> QED
      BY <3>1, <3>2 DEF Outcomes
  <2> QED
    BY <2>1 DEF NoServer, End, Outcomes
<1> QED
  BY <1>1, <1>2, <1>3, EndStep

\* The inputs and tests of the wizard change nothing else.
LEMMA WizardStep ==
  ASSUME BoundsAreNat, IInv, Wizard, p' \in Runs, p'.at \in {"wizard", "saveSetup"},
         p'.kind = p.kind, p'.effects = p.effects, p'.gated = p.gated,
         p'.at = "wizard" => p'.tests \subseteq p'.late \cup {p'.cfg.server},
         p'.tested \/ p'.at = "saveSetup" => p'.overtaken \/ p'.cfg.server = p'.good
  PROVE  IInv'
<1>1. HostOK' /\ file' = file /\ bin' = bin /\ p.at = "wizard"
  BY DEF Wizard, IInv, TypeOK, HostOK, At
<1> QED
  BY <1>1 DEF IInv, TypeOK, Counted, ChangedOnce, Setting, Keeping,
     SavedKept, Gating, GateHolds, At, Ended, HostOK, Server

\* What holds at the wizard.
LEMMA AtWizard ==
  ASSUME IInv, Wizard
  PROVE  /\ p \in Runs /\ p.at = "wizard" /\ Server = p.cfg.server /\ Server \in Texts
         /\ p.tests \in SUBSET Texts /\ p.late \in SUBSET Texts
         /\ p.tests \subseteq p.late \cup {Server}
         /\ p.tested => p.overtaken \/ Server = p.good
BY DEF Wizard, At, IInv, TypeOK, Setting, Server, Runs, Inputs, Fields

\* After an edit every test under way is a late one.
LEMMA EditStep ==
  ASSUME BoundsAreNat, IInv, Edit
  PROVE  IInv'
<1>1. Wizard /\ p \in Runs /\ p.at = "wizard" /\ p.tests \in SUBSET Texts
  BY AtWizard DEF Edit
<1>2. PICK v \in {Unset, Bad} \cup Addresses :
        p' = [p EXCEPT !.cfg.server = v, !.tested = TestedAfterEdit, !.late = p.tests]
  BY DEF Edit
<1>3. PICK cfg : cfg = [p.cfg EXCEPT !["server"] = v]
  OBVIOUS
<1>4. cfg \in Inputs
  BY <1>1, <1>3 DEF Runs, Inputs, Texts
<1>5. p' = [p EXCEPT !.cfg = cfg, !.tested = FALSE, !.late = p.tests]
  BY <1>2, <1>3 DEF TestedAfterEdit
<1>6. /\ p' \in Runs /\ p'.at = "wizard" /\ p'.kind = p.kind /\ p'.effects = p.effects
      /\ p'.gated = p.gated /\ p'.tested = FALSE /\ p'.tests = p.tests /\ p'.late = p.tests
  BY <1>1, <1>4, <1>5 DEF Runs
<1> QED
  BY <1>1, <1>6, WizardStep

LEMMA TestStep ==
  ASSUME BoundsAreNat, IInv, Test
  PROVE  IInv'
<1>1. Wizard
  BY DEF Test
<1>2. PICK tests \in SUBSET Texts : tests = p.tests \cup {Server}
  BY <1>1, AtWizard
<1>3. p' = [p EXCEPT !.tests = tests]
  BY <1>2 DEF Test
<1>4. /\ p' \in Runs /\ p'.at = "wizard" /\ p'.kind = p.kind /\ p'.effects = p.effects
      /\ p'.gated = p.gated /\ p'.tested = p.tested /\ p'.cfg = p.cfg /\ p'.good = p.good
      /\ p'.tests = tests /\ p'.late = p.late /\ p'.overtaken = p.overtaken
  BY <1>1, <1>3, AtWizard DEF Runs
<1>5. tests \subseteq p.late \cup {Server} /\ (p.tested => p.overtaken \/ Server = p.good)
  BY <1>1, <1>2, AtWizard
<1> QED
  BY <1>1, <1>4, <1>5, WizardStep DEF Server

\* A result that is not late is of what the inputs hold.
LEMMA ResultStep ==
  ASSUME BoundsAreNat, IInv, NEW tried \in p.tests, NEW ok \in BOOLEAN, Result(tried, ok)
  PROVE  IInv'
<1>1. Wizard
  BY DEF Result
<1>2. /\ p \in Runs /\ p.at = "wizard"
      /\ p.tests \in SUBSET Texts /\ p.late \in SUBSET Texts /\ p.good \in Texts
  BY <1>1, AtWizard DEF Runs
<1> PICK tests \in SUBSET Texts : tests = p.tests \ {tried}
  BY <1>2
<1> PICK late \in SUBSET Texts : late = p.late \ {tried}
  BY <1>2
<1> PICK good \in Texts : good = IF ok THEN tried ELSE p.good
  BY <1>2
<1> PICK overtaken \in BOOLEAN : overtaken <=> tried \in p.late
  <2>1. CASE tried \in p.late
    <3> WITNESS TRUE \in BOOLEAN
    <3> QED
      BY <2>1
  <2>2. CASE tried \notin p.late
    <3> WITNESS FALSE \in BOOLEAN
    <3> QED
      BY <2>2
  <2> QED
    BY <2>1, <2>2
<1>3. p' = [p EXCEPT !.tests = tests, !.late = late, !.tested = ok, !.good = good,
                     !.overtaken = overtaken]
  <2>1. overtaken = (tried \in p.late)
    BY Zenon
  <2> QED
    BY <2>1 DEF Result
<1>4. /\ p' \in Runs /\ p'.at = "wizard" /\ p'.kind = p.kind /\ p'.effects = p.effects
      /\ p'.gated = p.gated /\ p'.tested = ok /\ p'.cfg = p.cfg /\ p'.good = good
      /\ p'.tests = tests /\ p'.late = late /\ p'.overtaken = overtaken
  <2>1. PICK q : q = [p EXCEPT !.tests = tests, !.late = late, !.good = good]
    OBVIOUS
  <2>2. /\ q \in Runs /\ q.at = "wizard" /\ q.kind = p.kind /\ q.effects = p.effects
        /\ q.gated = p.gated /\ q.cfg = p.cfg /\ q.good = good /\ q.tests = tests
        /\ q.late = late
    BY <1>2, <2>1 DEF Runs
  <2>3. p' = [q EXCEPT !.tested = ok, !.overtaken = overtaken]
    BY <1>2, <1>3, <2>1 DEF Runs
  <2> QED
    BY <2>2, <2>3 DEF Runs
<1>5. tests \subseteq late \cup {Server} /\ (ok => overtaken \/ Server = good)
  BY <1>1, AtWizard
<1> QED
  BY <1>1, <1>4, <1>5, WizardStep DEF Server

LEMMA ConfirmStep ==
  ASSUME BoundsAreNat, IInv, Confirm
  PROVE  IInv'
<1>1. /\ Wizard /\ p \in Runs /\ p.at = "wizard" /\ (p.overtaken \/ Server = p.good)
      /\ p' = [p EXCEPT !.at = "saveSetup", !.tests = {}, !.late = {}, !.kept = Empty]
  BY AtWizard DEF Confirm, Wizard
<1>2. /\ p' \in Runs /\ p'.at = "saveSetup" /\ p'.kind = p.kind /\ p'.effects = p.effects
      /\ p'.gated = p.gated /\ p'.cfg = p.cfg /\ p'.good = p.good
      /\ p'.overtaken = p.overtaken
  BY <1>1, RestingType DEF Runs, Places
<1> QED
  BY <1>1, <1>2, WizardStep DEF Server

LEMMA StopStep ==
  ASSUME BoundsAreNat, IInv, Cancel \/ Kill
  PROVE  IInv'
<1>1. /\ HostOK' /\ file' = file /\ bin' = bin /\ p.at # "none" /\ p \in Runs /\ p.effects = 0
  BY DEF Cancel, Kill, Wizard, At, IInv, TypeOK, HostOK, Counted
<1>2. CASE Cancel
  <2>1. p.kind \in {"setup", "ui"} /\ p' = Over(p, "config")
    BY <1>2 DEF Cancel, Wizard, At, IInv, Setting, End
  <2> QED
    BY <1>1, <2>1, EndStep DEF Outcomes
<1>3. CASE Kill
  BY <1>1, <1>3, EndStep DEF Kill, End, Outcomes
<1> QED
  BY <1>2, <1>3

LEMMA WorldStep ==
  ASSUME BoundsAreNat, IInv, Tick \/ \E s \in Addresses : Publish(s)
  PROVE  IInv'
<1>1. HostOK' /\ file' = file /\ bin' = bin /\ p' = p
  <2>1. CASE Tick
    BY <2>1 DEF Tick, IInv, TypeOK, HostOK
  <2>2. ASSUME NEW s \in Addresses, Publish(s) PROVE HostOK' /\ file' = file /\ bin' = bin /\ p' = p
    <3>1. PICK min \in offered[s].min .. offered[s].latest + 1 :
            offered' = [offered EXCEPT ![s] = [min |-> min, latest |-> @.latest + 1]]
      BY <2>2 DEF Publish
    <3>2. min \in Nat /\ offered[s].latest + 1 \in 1 .. MaxVersion
      BY <2>2 DEF Publish, IInv, TypeOK, HostOK, BoundsAreNat
    <3> QED
      BY <2>2, <3>1, <3>2 DEF Publish, IInv, TypeOK, HostOK
  <2> QED
    BY <2>1, <2>2
<1> QED
  BY <1>1 DEF IInv, TypeOK, Counted, ChangedOnce, Setting, Keeping, SavedKept, Gating,
     GateHolds, At, Ended, HostOK, Server, Usually, TooOld

LEMMA NextIInv ==
  ASSUME BoundsAreNat, IInv, [Next]_commandVars
  PROVE  IInv'
<1>1. CASE UNCHANGED commandVars
  BY <1>1 DEF commandVars, IInv, TypeOK, Counted, ChangedOnce, Setting, Keeping, SavedKept,
     Gating, GateHolds, At, Ended, HostOK, Server, Usually, TooOld
<1> QED
  BY <1>1, StartStep, TruncateStep, WriteStep, GateStep, DiscoverStep, DiscoverFailsStep,
     DownloadStep, StageStep, RenameStep, CallEndStep, RequestStep, EditStep, TestStep,
     ResultStep, ConfirmStep, StopStep, WorldStep DEF Next

-----------------------------------------------------------------------------
\* The configuration, the cached document and the run keep their types, for any
\* number of servers, tokens, retries and versions.
THEOREM CommandTyped ==
  ASSUME BoundsAreNat
  PROVE  Spec => []TypeOK
<1>1. Init => IInv
  BY InitIInv
<1>2. IInv /\ [Next]_commandVars => IInv'
  BY NextIInv
<1>3. IInv => TypeOK
  BY DEF IInv
<1> QED
  BY <1>1, <1>2, <1>3, PTL DEF Spec
=============================================================================
