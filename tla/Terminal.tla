------------------------------ MODULE Terminal ------------------------------
(***************************************************************************)
(* The terminal interface of shortner-cli (client/tui/app.go): a Bubble    *)
(* Tea model that handles one key or one answer at a time, while the       *)
(* requests it has sent run beside it and answer in any order.             *)
(***************************************************************************)
EXTENDS Naturals, Sequences, SequencesExt, FiniteSetsExt, Selection

CONSTANTS
  Slugs,        \* the short codes there can be
  Listed,      \* those there are at first
  Hits,         \* those that a search finds
  PageSize,     \* links on a page
  Wires,        \* bound: requests under way at once
  MaxSent       \* bound: requests that keys send

VARIABLES
  stored,       \* the links of the server, newest first
  ui,           \* the fields of the model
  wires,        \* requests under way
  sent,         \* how many requests keys have sent
  quiet         \* no request failed, nobody else changed links, and no list
                \* was asked for while a change was under way

terminalVars == <<stored, ui, wires, sent, quiet>>

None    == "none"
NoWire  == [kind |-> None, arg |-> None, state |-> "sent", answer |-> None]
Pages(s) == Max({1, (Len(s) + PageSize - 1) \div PageSize})
PageOf(s, p) == SubSeq(s, (p - 1) * PageSize + 1, Min({p * PageSize, Len(s)}))
Wire(kind, arg) == [NoWire EXCEPT !.kind = kind, !.arg = arg]

\* The screen at the start.  prev is kept while help is shown.
Blank ==
  [view |-> "list", prev |-> "list", links |-> <<>>, shown |-> <<>>, cursor |-> 0, page |-> 1,
   pages |-> 0, detail |-> None, owner |-> None, input |-> None, query |-> FALSE,
   loading |-> TRUE, confirm |-> None]

Init ==
  /\ stored = SetToSeq(Listed)
  /\ ui = Blank
  /\ wires = [i \in Wires |-> IF i = Min(Wires) THEN Wire("list", 1) ELSE NoWire]
  /\ sent = 0 /\ quiet = TRUE

-----------------------------------------------------------------------------
(***************************************************************************)
(* Requests                                                                *)
(***************************************************************************)
Changing == {"create", "delete"}
Free(i) == wires[i].kind = None
Under(kinds) == \E i \in Wires : wires[i].kind \in kinds

\* Whether a request of this kind crosses one that it may contradict.
Crosses(kind) ==
  \/ kind = "list" /\ Under(Changing)
  \/ kind \in Changing /\ Under(Changing \cup {"list"})

\* A key sends a request.
Sends(kind, arg) ==
  /\ sent < MaxSent /\ sent' = sent + 1
  /\ \E i \in Wires : /\ Free(i) /\ \A j \in Wires : j < i => ~Free(j)
                      /\ wires' = [wires EXCEPT ![i] = Wire(kind, arg)]
  /\ quiet' = (quiet /\ ~Crosses(kind))
  /\ UNCHANGED stored

\* The server answers, of what it has by then.
Serve(i) ==
  LET r == wires[i]
      Answers(a) == wires' = [wires EXCEPT ![i].state = "answered", ![i].answer = a]
  IN /\ r.kind # None /\ r.state = "sent"
     /\ \/ /\ r.kind = "list"
           /\ Answers([links |-> PageOf(stored, r.arg), page |-> r.arg, pages |-> Pages(stored)])
           /\ UNCHANGED stored
        \/ /\ r.kind \in {"detail", "stats"} /\ r.arg \in Range(stored)
           /\ Answers(r.arg) /\ UNCHANGED stored
        \/ r.kind = "health" /\ Answers("ok") /\ UNCHANGED stored
        \/ /\ r.kind = "create"
           /\ \E s \in Slugs \ Range(stored) : Answers(s) /\ stored' = <<s>> \o stored
        \/ /\ r.kind = "delete" /\ r.arg \in Range(stored)
           /\ Answers(r.arg) /\ stored' = Among(stored, Slugs \ {r.arg})
  /\ UNCHANGED <<ui, sent, quiet>>

\* A request fails, or its answer is lost.
Fail(i) ==
  /\ ~Free(i)
  /\ wires[i].state = "sent" \/ (wires[i].state = "answered" /\ wires[i].kind \in Changing)
  /\ wires' = [wires EXCEPT ![i].state = "failed"]
  /\ quiet' = FALSE
  /\ UNCHANGED <<stored, ui, sent>>

\* Another client deletes a link: once at most, and before anything fails.
Elsewhere ==
  /\ quiet
  /\ \E s \in Range(stored) : stored' = Among(stored, Slugs \ {s})
  /\ quiet' = FALSE
  /\ UNCHANGED <<ui, wires, sent>>

-----------------------------------------------------------------------------
(***************************************************************************)
(* Update: answers                                                         *)
(***************************************************************************)
LastRow(shown) == IF shown = <<>> THEN 0 ELSE Len(shown) - 1
Filtered(links, query) == IF query THEN Among(links, Hits) ELSE links

\* Fault: the cursor stays where it was.
CursorKept(cursor, shown) == cursor

\* The cursor after the rows have changed.
Clamped(cursor, shown) == IF cursor < Len(shown) THEN cursor ELSE LastRow(shown)

Loaded == [ui EXCEPT !.loading = FALSE]
To(view) == [Loaded EXCEPT !.view = view, !.prev = "list"]

\* Fault: an error leaves the screen loading.
Waiting == ui

\* The screen after an error.
Failed == Loaded

\* Fault: the list is not loaded again after a change.
NoReload == NoWire

\* A change is followed by a request for the page there is.
Reload == Wire("list", ui.page)

\* The screen that an answer leaves.
Answered(kind, a) ==
  CASE kind = "list"   -> LET shown == Filtered(a.links, ui.query) IN
         [Loaded EXCEPT !.links = a.links, !.page = a.page, !.pages = a.pages,
                        !.shown = shown, !.cursor = Clamped(ui.cursor, shown)]
    [] kind = "detail" -> [To("detail") EXCEPT !.detail = a]
    [] kind = "stats"  -> To("stats")
    [] kind = "health" -> To("health")
    [] kind = "create" -> [To("detail") EXCEPT !.owner = a, !.detail = a]
    [] kind = "delete" -> To("list")

Deliver(i) ==
  /\ wires[i].state # "sent" /\ ui.view # "gone"
  /\ ui' = IF wires[i].state = "failed" THEN Failed ELSE Answered(wires[i].kind, wires[i].answer)
  /\ LET again == wires[i].kind \in Changing /\ wires[i].state # "failed" IN
       /\ wires' = [wires EXCEPT ![i] = IF again THEN Reload ELSE NoWire]
       /\ quiet' = (quiet /\ (again => \A j \in Wires \ {i} : wires[j].kind \notin Changing))
  /\ UNCHANGED <<stored, sent>>

-----------------------------------------------------------------------------
(***************************************************************************)
(* handleKey                                                               *)
(***************************************************************************)
Key == ui.input = None /\ ui.confirm = None /\ ui.view # "gone"
Quietly == UNCHANGED <<stored, wires, sent, quiet>>

\* What is typed goes into the input.
LeaveInput ==
  /\ ui.input # None /\ ui' = [ui EXCEPT !.input = None] /\ Quietly

EnterSearch(query) ==
  /\ ui.input = "search"
  /\ ui' = [ui EXCEPT !.input = None, !.query = query, !.shown = Filtered(ui.links, query),
                      !.cursor = 0]
  /\ Quietly

EnterURL ==
  /\ ui.input = "create"
  /\ ui' = [ui EXCEPT !.input = None, !.loading = TRUE] /\ Sends("create", None)

\* Fault: what is deleted is what is on the screen by now.
Acting == IF ui.detail # None THEN ui.detail ELSE ui.confirm

\* The link that a "y" deletes.
Confirmed == ui.confirm

Yes ==
  /\ ui.input = None /\ ui.confirm # None
  /\ ui' = [ui EXCEPT !.confirm = None, !.loading = TRUE] /\ Sends("delete", Confirmed)

\* Any other key, "q" too.
No ==
  /\ ui.input = None /\ ui.confirm # None
  /\ ui' = [ui EXCEPT !.confirm = None] /\ Quietly

Help ==
  /\ Key
  /\ ui' = IF ui.view = "help" THEN [ui EXCEPT !.view = ui.prev, !.prev = "list"]
           ELSE [ui EXCEPT !.prev = ui.view, !.view = "help"]
  /\ Quietly

Back ==
  /\ Key /\ ui.view # "list"
  /\ ui' = [ui EXCEPT !.view = "list", !.prev = "list", !.owner = None] /\ Quietly

\* Down and up, then home and end, which move the cursor in every view.
Move ==
  /\ Key
  /\ \E c \in {d \in {ui.cursor + 1, ui.cursor - 1} :
                 ui.view = "list" /\ d \in 0 .. Len(ui.shown) - 1}
                \cup {0, LastRow(ui.shown)} :
       ui' = [ui EXCEPT !.cursor = c]
  /\ Quietly

Turn ==
  /\ Key
  /\ \E p \in {ui.page + 1, ui.page - 1} :
       /\ p > ui.page => p <= ui.pages
       /\ p >= 1
       /\ Sends("list", p)
  /\ ui' = [ui EXCEPT !.loading = TRUE]

Refresh == Key /\ Sends("list", ui.page) /\ ui' = [ui EXCEPT !.loading = TRUE]

Ask(input) ==
  /\ Key /\ ui' = [ui EXCEPT !.input = input] /\ Quietly

\* selected: the row under the cursor, in the list only.
Selected ==
  IF ui.view = "list" /\ ui.cursor < Len(ui.shown) THEN ui.shown[ui.cursor + 1] ELSE None

\* currentLink: that, or the link last opened.
CurrentLink == IF Selected # None THEN Selected ELSE ui.detail

Open ==
  /\ Key /\ Selected # None
  /\ Sends("detail", Selected) /\ ui' = [ui EXCEPT !.loading = TRUE]

OpenStats ==
  /\ Key /\ CurrentLink # None
  /\ Sends("stats", CurrentLink) /\ ui' = [ui EXCEPT !.loading = TRUE]

OpenHealth == Key /\ Sends("health", None) /\ ui' = [ui EXCEPT !.loading = TRUE]

AskDelete ==
  /\ Key /\ CurrentLink # None
  /\ ui' = [ui EXCEPT !.confirm = CurrentLink] /\ Quietly

\* The program ends, and its requests with it.
Quit ==
  /\ Key /\ ui' = [Blank EXCEPT !.view = "gone", !.loading = FALSE]
  /\ wires' = [i \in Wires |-> NoWire]
  /\ UNCHANGED <<stored, sent, quiet>>

Next ==
  \/ \E i \in Wires : Serve(i) \/ Fail(i) \/ Deliver(i)
  \/ Elsewhere
  \/ LeaveInput \/ EnterURL \/ \E q \in BOOLEAN : EnterSearch(q)
  \/ Yes \/ No \/ Help \/ Back \/ Move \/ Turn \/ Refresh
  \/ \E input \in {"search", "create"} : Ask(input)
  \/ Open \/ OpenStats \/ OpenHealth \/ AskDelete \/ Quit

Spec == Init /\ [][Next]_terminalVars

\* A request has a deadline, and the program comes to every message.
Progress(i) == Serve(i) \/ Fail(i) \/ Deliver(i)
Fairness == \A i \in Wires : WF_terminalVars(Progress(i))

FairSpec == Spec /\ Fairness

-----------------------------------------------------------------------------
\* Whatever pages come in whatever order, searched or not, the cursor is on a
\* row, and the rows are those of the page that the search finds; after any
\* sequence of changes and pages that did not cross each other, that page is the
\* server's once all has been answered.
ListCurrent ==
  /\ ui.shown = Filtered(ui.links, ui.query)
  /\ ui.cursor < Len(ui.shown) \/ (ui.cursor = 0 /\ ui.shown = <<>>)
  /\ quiet /\ ui.view # "gone" /\ ~Under({"list", "create", "delete"}) =>
       ui.links = PageOf(stored, ui.page) /\ ui.pages = Pages(stored)

DeletesAsked ==
  \A i \in Wires :
    Free(i) /\ wires'[i].kind = "delete" =>
      ui.confirm = wires'[i].arg /\ ui.input = None

\* Whatever answers come between the question and its confirmation, a request to
\* delete is one for the link that the question on the screen names.
DeletionsConfirmed == [][DeletesAsked]_terminalVars

\* What is loading is answered, or the user leaves.
LoadingPasses == ui.loading ~> (~ui.loading \/ ui.view = "gone")
=============================================================================
