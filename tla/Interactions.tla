----------------------------- MODULE Interactions -----------------------------
(***************************************************************************)
(* The questions an execution asks its user (gateway/interaction*.go) and  *)
(* the event stream through which views learn of them (gateway/event*.go). *)
(*                                                                         *)
(* A tool call stores a question, announces it and waits on the store.     *)
(* Views attach with a cursor and a list of what is pending, follow the    *)
(* stream and resolve questions at the revision they saw.  The call's      *)
(* context may be cancelled, by the user or by a shutdown, and the process *)
(* may die at any step; the execution then makes the same call again.      *)
(***************************************************************************)
EXTENDS Integers, Sequences, FiniteSets

CONSTANTS
    Questions,    \* bound: questions the execution asks, one after the other
    Views,        \* views of the session
    Answers,      \* what users answer
    MaxFaults,    \* bound: crashes, shutdowns and views that go away
    Cancels       \* whether the execution is cancelled

ASSUME InteractionsAssumption ==
    /\ Questions \in Nat /\ MaxFaults \in Nat /\ Cancels \in BOOLEAN
    /\ Answers \cap {"none", "error"} = {}

VARIABLES
    items,      \* interactionStream.Items, by sequence number
    events,     \* eventStream.Events; the sequence number is the position
    results,    \* what the trajectory records as the result of each call
    over,       \* the execution is cancelled
    mode,       \* what happens to the process, or to the execution in it
    call,       \* the call of Request and its context
    view,       \* the views and their connections
    accepted,   \* history: the answers views were told are accepted
    faults

durable == <<items, events, results, over>>
vars == <<durable, mode, call, view, accepted, faults>>

Asked == 1..Questions

Pending(q) == items[q].state = "pending"
Settled(q) == items[q].state \in {"resolved", "cancelled"}

NoItem == [state |-> "none", rev |-> 0, answer |-> "none"]
NoCall == [pc |-> "none", q |-> 0, rev |-> 0, woken |-> FALSE, cancelled |-> FALSE]
Unanswered == [pc |-> "none", q |-> 0, rev |-> 0, answer |-> "none"]
Detached == [pc |-> "detached", after |-> 0, waits |-> FALSE, pending |-> 0, rev |-> 0,
             shown |-> {}, reply |-> Unanswered]

Init ==
    /\ items = [q \in Asked |-> NoItem] /\ events = <<>>
    /\ results = [q \in Asked |-> "none"] /\ over = FALSE
    /\ mode = "open" /\ call = NoCall
    /\ view = [v \in Views |-> Detached]
    /\ accepted = {} /\ faults = 0

-----------------------------------------------------------------------------
(***************************************************************************)
(* The stores.                                                             *)
(***************************************************************************)

\* A question is stored once; its identifier is computed from the call.
Created(q) ==
    IF items[q] = NoItem
    THEN [items EXCEPT ![q] = [state |-> "pending", rev |-> 1, answer |-> "none"]]
    ELSE items

\* Variant: the revision and the state are not compared.
OpenAtAny(q, rev) == items[q] # NoItem

\* resolveInteraction and cancelInteraction take a pending question at the
\* revision the caller saw.
OpenAt(q, rev) == items[q].rev = rev /\ Pending(q)

Closed(q, state, answer) ==
    [items EXCEPT ![q] = [state |-> state, rev |-> @.rev + 1, answer |-> answer]]

\* Variant: nobody is told that the question has changed.
SignalNobody(c) == c

\* signalLocked: the channel the call waits on is closed.
Signal(c) == IF c.pc = "blocked" THEN [c EXCEPT !.woken = TRUE] ELSE c

Known(e) == \E n \in DOMAIN events : events[n] = e

\* appendAgentEvent: the identifier of an event is the digest of its content, so
\* an event that is appended again is the one that is stored.
Appended(e) == IF Known(e) THEN events ELSE Append(events, e)

\* The views that wait for events are woken by a new one.
Woken(e) ==
    IF Known(e) THEN view ELSE [v \in Views |-> [view[v] EXCEPT !.waits = FALSE]]

Event(name, q, rev) == [name |-> name, q |-> q, rev |-> rev]

-----------------------------------------------------------------------------
(***************************************************************************)
(* Request, called by ask_user and by the permission hook.                 *)
(***************************************************************************)

Goto(pc) == call' = [call EXCEPT !.pc = pc]

\* The execution makes its next call, or the one it was making when its host
\* went away.
Create ==
    /\ mode = "open" /\ ~ over /\ call = NoCall
    /\ \E q \in Asked :
          /\ results[q] = "none" /\ \A p \in 1..q - 1 : results[p] # "none"
          /\ items' = Created(q)
          /\ call' = [NoCall EXCEPT !.pc = IF items'[q].state = "pending" THEN "emit" ELSE "wait",
                                    !.q = q]
    /\ UNCHANGED <<events, results, view>>

\* The announcement; a cancelled context makes it fail, which is ignored.
EmitRequested ==
    /\ call.pc = "emit"
    /\ LET e == Event("requested", call.q, 1) IN
       IF call.cancelled THEN UNCHANGED <<events, view>>
       ELSE events' = Appended(e) /\ view' = Woken(e)
    /\ Goto("wait")
    /\ UNCHANGED <<items, results>>

\* Wait looks and takes the channel under the mutex of the store.
Wait ==
    /\ call.pc = "wait"
    /\ call' = [call EXCEPT !.pc = IF Settled(call.q) THEN "return" ELSE "blocked",
                            !.woken = FALSE]
    /\ UNCHANGED <<items, events, results, view>>

\* select: a closed channel or the context.
Select ==
    /\ call.pc = "blocked"
    /\ \/ call.woken /\ Goto("wait")
       \/ call.cancelled /\ Goto("get")
    /\ UNCHANGED <<items, events, results, view>>

\* cancelPending reads the question...
CancelGet ==
    /\ call.pc = "get"
    /\ call' = IF Pending(call.q) THEN [call EXCEPT !.pc = "cancel", !.rev = items[call.q].rev]
               ELSE NoCall
    /\ UNCHANGED <<items, events, results, view>>

\* ... cancels it at that revision...
CancelPending ==
    /\ call.pc = "cancel"
    /\ IF OpenAt(call.q, call.rev)
       THEN items' = Closed(call.q, "cancelled", "none") /\ Goto("cancelled")
       ELSE call' = NoCall /\ UNCHANGED items
    /\ UNCHANGED <<events, results, view>>

\* ... and announces that; Request returns the error of its context, which the
\* execution does not record.
EmitCancelled ==
    /\ call.pc = "cancelled"
    /\ LET e == Event("cancelled", call.q, items[call.q].rev) IN
       events' = Appended(e) /\ view' = Woken(e)
    /\ call' = NoCall
    /\ UNCHANGED <<items, results>>

\* The answer, or the error of a cancelled question, becomes the result of the
\* call, unless the execution ends before it is recorded.
Return ==
    /\ call.pc = "return"
    /\ \/ results' = [results EXCEPT ![call.q] =
                         IF items[call.q].state = "resolved" THEN items[call.q].answer
                         ELSE "error"]
       \/ call.cancelled /\ UNCHANGED results
    /\ call' = NoCall
    /\ UNCHANGED <<items, events, view>>

Request ==
    /\ mode # "down"
    /\ \/ Create \/ EmitRequested \/ Wait \/ Select \/ CancelGet \/ CancelPending
       \/ EmitCancelled \/ Return
    /\ UNCHANGED <<over, mode, accepted, faults>>

-----------------------------------------------------------------------------
(***************************************************************************)
(* Views.                                                                  *)
(***************************************************************************)

Latest == Len(events)

\* Variant: the cursor is the next sequence number.
AttachAfterNext(v) ==
    /\ view[v] = Detached
    /\ view' = [view EXCEPT ![v] = [Detached EXCEPT !.pc = "open", !.after = Latest + 1]]
    /\ UNCHANGED <<items, events, call, accepted>>

\* The cursor is read and the stream opened after it...
Attach(v) ==
    /\ view[v] = Detached
    /\ view' = [view EXCEPT ![v] = [Detached EXCEPT !.pc = "open", !.after = Latest]]
    /\ UNCHANGED <<items, events, call, accepted>>

\* The question of a view, and the prompt it puts before its user.
Show(r, q, rev) == [r EXCEPT !.pending = q, !.rev = rev, !.shown = @ \cup {q}]

\* The pending question with the largest sequence number, if there is one.
LatestPending == {q \in Asked : Pending(q) /\ \A p \in Asked : Pending(p) => p <= q}

\* ... before the pending questions are listed, the last of which is shown.
Hydrate(v) ==
    LET r == [view[v] EXCEPT !.pc = "live"] IN
    /\ view[v].pc = "open"
    /\ \/ LatestPending = {} /\ view' = [view EXCEPT ![v] = r]
       \/ \E q \in LatestPending : view' = [view EXCEPT ![v] = Show(r, q, items[q].rev)]
    /\ UNCHANGED <<items, events, call, accepted>>

\* translate: any question that is settled clears what the view has pending.
Translated(r, e) ==
    IF e.name = "requested" THEN Show(r, e.q, e.rev) ELSE [r EXCEPT !.pending = 0, !.rev = 0]

\* The next event is forwarded to the view.
Follow(v) ==
    LET r == view[v] IN
    /\ r.pc = "live" /\ ~ r.waits /\ r.after < Latest
    /\ view' = [view EXCEPT ![v] =
                   Translated([r EXCEPT !.after = @ + 1], events[r.after + 1])]
    /\ UNCHANGED <<items, events, call, accepted>>

\* Without a new event the stream takes the channel of the store and waits.
WaitEvents(v) ==
    /\ view[v].pc = "live" /\ ~ view[v].waits /\ view[v].after >= Latest
    /\ view' = [view EXCEPT ![v].waits = TRUE]
    /\ UNCHANGED <<items, events, call, accepted>>

\* The user answers what the view has pending.
Reply(v) ==
    /\ view[v].pc = "live" /\ view[v].pending # 0 /\ view[v].reply = Unanswered
    /\ \E a \in Answers :
          view' = [view EXCEPT ![v].reply = [pc |-> "sent", q |-> view[v].pending,
                                             rev |-> view[v].rev, answer |-> a]]
    /\ UNCHANGED <<items, events, call, accepted>>

\* ResolveInteraction stores the answer and wakes the call, or is refused.
Resolve(v) ==
    LET r == view[v].reply IN
    /\ r.pc = "sent"
    /\ IF OpenAt(r.q, r.rev)
       THEN /\ items' = Closed(r.q, "resolved", r.answer)
            /\ call' = Signal(call)
            /\ view' = [view EXCEPT ![v].reply.pc = "stored"]
       ELSE view' = [view EXCEPT ![v].reply = Unanswered] /\ UNCHANGED <<items, call>>
    /\ UNCHANGED <<events, accepted>>

\* The announcement, before the view is told.
EmitResolved(v) ==
    LET r == view[v].reply
        e == Event("resolved", r.q, r.rev + 1) IN
    /\ r.pc = "stored"
    /\ events' = Appended(e)
    /\ view' = [Woken(e) EXCEPT ![v].reply.pc = "answered"]
    /\ UNCHANGED <<items, call, accepted>>

\* The view is told, and has nothing pending any more, or has given up waiting
\* for the confirmation.
Told(v) ==
    LET r == view[v].reply IN
    /\ r.pc = "answered"
    /\ \/ /\ accepted' = accepted \cup {<<r.q, r.answer>>}
          /\ view' = [view EXCEPT ![v].reply = Unanswered, ![v].pending = 0, ![v].rev = 0]
       \/ view' = [view EXCEPT ![v].reply = Unanswered] /\ UNCHANGED accepted
    /\ UNCHANGED <<items, events, call>>

\* The user closes the view, or its connection breaks.
Detach(v) ==
    /\ view[v].pc = "live"
    /\ view' = [view EXCEPT ![v] = Detached]
    /\ UNCHANGED <<items, events, call, accepted>>

Connected(v) ==
    /\ mode # "down"
    /\ \/ Attach(v) \/ Hydrate(v) \/ Follow(v) \/ WaitEvents(v) \/ Reply(v)
       \/ Resolve(v) \/ EmitResolved(v) \/ Told(v)
    /\ UNCHANGED <<results, over, mode, faults>>

Disconnect(v) ==
    /\ faults < MaxFaults /\ faults' = faults + 1
    /\ Detach(v)
    /\ UNCHANGED <<results, over, mode>>

-----------------------------------------------------------------------------
(***************************************************************************)
(* Cancellation, shutdown, crash and restart.                              *)
(***************************************************************************)

\* A cancelled execution that is hosted here has its context cancelled...
CancelExecution ==
    /\ Cancels /\ ~ over /\ mode = "open"
    /\ mode' = "cancelling"
    /\ call' = [call EXCEPT !.cancelled = call # NoCall]
    /\ UNCHANGED <<over, view, faults>>

\* ... and stores the cancellation itself when its call has returned.
Unwind ==
    /\ mode = "cancelling" /\ call = NoCall
    /\ mode' = "open" /\ over' = TRUE
    /\ UNCHANGED <<call, view, faults>>

\* No host is found: the cancellation is stored, then the context of a host that
\* has started since is cancelled.
CancelUnhosted ==
    /\ Cancels /\ ~ over /\ mode \in {"open", "closing"}
    /\ over' = TRUE
    /\ call' = [call EXCEPT !.cancelled = call # NoCall]
    /\ UNCHANGED <<mode, view, faults>>

\* The shutdown deadline passed: the contexts of tool calls are cancelled.
Close ==
    /\ mode \in {"open", "cancelling"} /\ faults < MaxFaults
    /\ mode' = "closing" /\ faults' = faults + 1
    /\ call' = [call EXCEPT !.cancelled = call # NoCall]
    /\ UNCHANGED <<over, view>>

\* The process ends, after a shutdown or by a crash.
Exit ==
    /\ mode = "closing" \/ (mode # "down" /\ faults < MaxFaults)
    /\ mode' = "down" /\ call' = NoCall
    /\ faults' = IF mode = "closing" THEN faults ELSE faults + 1
    /\ view' = [v \in Views |-> Detached]
    /\ UNCHANGED over

Restart ==
    /\ mode = "down" /\ mode' = "open"
    /\ UNCHANGED <<over, call, view, faults>>

Process ==
    /\ CancelExecution \/ Unwind \/ CancelUnhosted \/ Close \/ Exit \/ Restart
    /\ UNCHANGED <<items, events, results, accepted>>

Next ==
    \/ Request \/ Process
    \/ \E v \in Views : Connected(v) \/ Disconnect(v)

Spec == Init /\ [][Next]_vars

\* The process takes its steps, ends the shutdown or the cancellation it began
\* and is started again; a view is opened, follows its stream and answers what
\* it has pending.
Fairness ==
    /\ WF_vars(Request)
    /\ WF_vars(Process /\ mode # "open" /\ (over' # over <=> mode = "cancelling"))
    /\ \A v \in Views : WF_vars(Connected(v))

FairSpec == Spec /\ Fairness

-----------------------------------------------------------------------------
(***************************************************************************)
(* Properties.                                                             *)
(***************************************************************************)

ItemSet == [state : {"none", "pending", "resolved", "cancelled"}, rev : Nat,
            answer : Answers \cup {"none"}]
EventSet == [name : {"requested", "resolved", "cancelled"}, q : Asked, rev : Nat]
CallSet == [pc : {"none", "emit", "wait", "blocked", "get", "cancel", "cancelled", "return"},
            q : 0..Questions, rev : Nat, woken : BOOLEAN, cancelled : BOOLEAN]
ReplySet == [pc : {"none", "sent", "stored", "answered"}, q : 0..Questions, rev : Nat,
             answer : Answers \cup {"none"}]
ViewSet == [pc : {"detached", "open", "live"}, after : Nat, waits : BOOLEAN,
            pending : 0..Questions, rev : Nat, shown : SUBSET Asked, reply : ReplySet]

\* Every variable has its type, and a call or a reply under way names a question.
TypeOK ==
    /\ items \in [Asked -> ItemSet] /\ events \in Seq(EventSet)
    /\ results \in [Asked -> Answers \cup {"none", "error"}] /\ over \in BOOLEAN
    /\ mode \in {"open", "cancelling", "closing", "down"} /\ faults \in Nat
    /\ call \in CallSet /\ (call.pc # "none" => call.q \in Asked)
    /\ view \in [Views -> ViewSet] /\ accepted \subseteq Asked \X Answers
    /\ \A v \in Views : view[v].reply.pc # "none" =>
          view[v].reply.q \in Asked /\ view[v].reply.answer \in Answers

\* An answer a view was told is accepted is the one that is stored and the one
\* the execution gets, although two views answer, the call's context is
\* cancelled or the call is made again; only a cancelled question fails a call.
AnswerKept ==
    /\ \A x \in accepted :
          /\ items[x[1]].state = "resolved" /\ items[x[1]].answer = x[2]
          /\ results[x[1]] \in {"none", x[2]}
    /\ \A q \in Asked : results[q] = "error" => items[q].state = "cancelled"

\* "Open the reconnectable stream before hydrating": a view that has read every
\* event has put before its user the question a call is waiting for, also when
\* it attached while the question was being stored and announced.
QuestionShown ==
    \A v \in Views :
        /\ view[v].pc = "live" /\ view[v].after = Latest
        /\ call.pc \in {"wait", "blocked"} /\ ~ call.cancelled /\ Pending(call.q)
        => call.q \in view[v].shown

\* "Execution resumes after the user answers": a pending question gets a result,
\* through crashes and shutdowns, unless the execution is cancelled.
QuestionsReturn ==
    \A q \in Asked : Pending(q) ~> (results[q] # "none" \/ over)

=============================================================================
