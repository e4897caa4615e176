-------------------------- MODULE InteractionsProofs --------------------------
(***************************************************************************)
(* The answers and the announcements of Interactions, for any number of    *)
(* questions, views, answers and faults: first what its steps do to the    *)
(* questions, then the invariants and the theorems.                        *)
(***************************************************************************)
EXTENDS Interactions, TLAPS

-----------------------------------------------------------------------------
(***************************************************************************)
(* Types.                                                                  *)
(***************************************************************************)

\* A question or none.
LEMMA AskedTypes == 0 \in 0..Questions /\ \A q \in Asked : q \in 0..Questions
BY InteractionsAssumption DEF InteractionsAssumption, Asked

\* The constants are of their types.
LEMMA Blanks ==
    /\ NoItem \in ItemSet /\ NoCall \in CallSet /\ Unanswered \in ReplySet
    /\ Detached \in ViewSet
BY InteractionsAssumption
   DEF InteractionsAssumption, NoItem, NoCall, Unanswered, Detached,
       ItemSet, CallSet, ReplySet, ViewSet

\* The store keeps its type when a question is created or closed.
LEMMA ItemTypes ==
    ASSUME TypeOK, NEW q \in Asked
    PROVE  /\ Created(q) \in [Asked -> ItemSet]
           /\ \A a \in Answers \cup {"none"}, st \in {"resolved", "cancelled"} :
                 Closed(q, st, a) \in [Asked -> ItemSet]
<1>1. Created(q) \in [Asked -> ItemSet]
  BY DEF TypeOK, Created, ItemSet
<1>2. ASSUME NEW a \in Answers \cup {"none"}, NEW st \in {"resolved", "cancelled"}
      PROVE  Closed(q, st, a) \in [Asked -> ItemSet]
  <2>1. [state |-> st, rev |-> items[q].rev + 1, answer |-> a] \in ItemSet
    BY DEF TypeOK, ItemSet
  <2> QED BY <2>1 DEF TypeOK, Closed
<1> QED BY <1>1, <1>2

\* The stream keeps its type when an event is appended.
LEMMA EventTypes ==
    ASSUME TypeOK, NEW q \in Asked, NEW n \in Nat,
           NEW name \in {"requested", "resolved", "cancelled"}
    PROVE  Event(name, q, n) \in EventSet /\ Appended(Event(name, q, n)) \in Seq(EventSet)
<1>1. Event(name, q, n) \in EventSet
  BY DEF Event, EventSet
<1> QED BY <1>1 DEF Appended, TypeOK

\* Waking the views changes only whether they wait.
LEMMA WokenTypes ==
    ASSUME TypeOK, NEW e
    PROVE  /\ Woken(e) \in [Views -> ViewSet]
           /\ \A v \in Views : /\ Woken(e)[v].reply = view[v].reply
                               /\ Woken(e)[v].pc = view[v].pc
                               /\ Woken(e)[v].after = view[v].after
                               /\ Woken(e)[v].shown = view[v].shown
<1>1. \A v \in Views : [view[v] EXCEPT !.waits = FALSE] \in ViewSet
  BY Zenon DEF TypeOK, ViewSet
<1>2. CASE Known(e)
  BY <1>2 DEF Woken, TypeOK
<1>3. CASE ~ Known(e)
  <2>1. Woken(e) = [v \in Views |-> [view[v] EXCEPT !.waits = FALSE]]
    BY <1>3 DEF Woken
  <2>2. \A v \in Views : view[v] \in ViewSet
    BY DEF TypeOK
  <2> QED BY <1>1, <2>1, <2>2 DEF ViewSet
<1> QED BY <1>2, <1>3

\* What a view shows is a question.
LEMMA ShowTypes ==
    ASSUME NEW r \in ViewSet, NEW q \in Asked, NEW n \in Nat
    PROVE  /\ Show(r, q, n) \in ViewSet /\ Show(r, q, n).reply = r.reply
           /\ Show(r, q, n).shown = r.shown \cup {q}
           /\ Show(r, q, n).pc = r.pc /\ Show(r, q, n).after = r.after
<1>1. q \in 0..Questions
  BY AskedTypes
<1>2. r.shown \cup {q} \in SUBSET Asked
  BY DEF ViewSet
<1>3. Show(r, q, n) = [r EXCEPT !.pending = q, !.rev = n, !.shown = r.shown \cup {q}]
  BY DEF Show, ViewSet
<1> QED BY Zenon, <1>1, <1>2, <1>3 DEF ViewSet

\* Initially the types hold.
LEMMA InitTypes == Init => TypeOK
<1> SUFFICES ASSUME Init PROVE TypeOK
  OBVIOUS
<1>1. /\ items \in [Asked -> ItemSet] /\ events \in Seq(EventSet)
      /\ results \in [Asked -> Answers \cup {"none", "error"}]
      /\ view \in [Views -> ViewSet] /\ call \in CallSet
  BY Blanks DEF Init
<1>2. call.pc = "none" /\ \A v \in Views : view[v].reply.pc = "none"
  BY DEF Init, NoCall, Detached, Unanswered
<1> QED BY Zenon, <1>1, <1>2 DEF Init, TypeOK

\* The steps of a call keep them.
LEMMA RequestTypes == TypeOK /\ Request => TypeOK'
<1> SUFFICES ASSUME TypeOK, Request PROVE TypeOK'
  OBVIOUS
<1>0. over' = over /\ mode' = mode /\ accepted' = accepted /\ faults' = faults
  BY DEF Request
<1> DEFINE CallOK(c) == c \in CallSet /\ (c.pc # "none" => c.q \in Asked)
<1>c. ASSUME NEW pc \in {"wait", "get", "cancelled"}, call.pc # "none", Goto(pc)
      PROVE  CallOK(call')
  BY <1>c DEF Goto, TypeOK, CallSet
<1>n. CallOK(NoCall)
  BY Blanks DEF NoCall
<1>1. CASE Create
  <2>1. PICK q \in Asked :
          /\ items' = Created(q)
          /\ call' = [NoCall EXCEPT !.pc = IF items'[q].state = "pending" THEN "emit" ELSE "wait",
                                    !.q = q]
    BY Zenon, <1>1 DEF Create
  <2>2. items' \in [Asked -> ItemSet]
    BY <2>1, ItemTypes
  <2>3. CallOK(call')
    BY Zenon, <2>1, AskedTypes DEF NoCall, CallSet
  <2> HIDE DEF CallOK
  <2>4. events' = events /\ results' = results /\ view' = view
    BY <1>1 DEF Create
  <2> QED BY <1>0, <2>2, <2>3, <2>4 DEF TypeOK, CallOK
<1>2. CASE EmitRequested
  <2>1. call.q \in Asked /\ call.pc # "none"
    BY <1>2 DEF EmitRequested, TypeOK
  <2>2. CallOK(call')
    BY <1>2, <1>c, <2>1 DEF EmitRequested
  <2>3. /\ events' \in Seq(EventSet) /\ view' \in [Views -> ViewSet]
        /\ \A v \in Views : view'[v].reply = view[v].reply
    <3>1. CASE call.cancelled
      BY <1>2, <3>1 DEF EmitRequested, TypeOK
    <3>2. CASE ~ call.cancelled
      BY ZenonT(30), <1>2, <2>1, <3>2, EventTypes, WokenTypes DEF EmitRequested
    <3> QED BY <3>1, <3>2
  <2>4. items' = items /\ results' = results
    BY <1>2 DEF EmitRequested
  <2> HIDE DEF CallOK
  <2> QED BY <1>0, <2>2, <2>3, <2>4 DEF TypeOK, CallOK
<1>3. CASE Wait \/ Select
  <2>1. items' = items /\ events' = events /\ results' = results /\ view' = view
    BY <1>3 DEF Wait, Select
  <2>2. CallOK(call')
    <3>1. CASE Wait
      BY Zenon, <3>1 DEF Wait, TypeOK, CallSet
    <3>2. CASE Select
      BY <3>2, <1>c DEF Select
    <3> QED BY <1>3, <3>1, <3>2
  <2> HIDE DEF CallOK
  <2> QED BY <1>0, <2>1, <2>2 DEF TypeOK, CallOK
<1>4. CASE CancelGet
  <2>1. items' = items /\ events' = events /\ results' = results /\ view' = view
    BY <1>4 DEF CancelGet
  <2>2. call.q \in Asked /\ items[call.q].rev \in Nat
    BY <1>4 DEF CancelGet, TypeOK, ItemSet
  <2>3. CallOK(call')
    BY Zenon, <1>4, <1>n, <2>2 DEF CancelGet, TypeOK, CallSet
  <2> HIDE DEF CallOK
  <2> QED BY <1>0, <2>1, <2>3 DEF TypeOK, CallOK
<1>5. CASE CancelPending
  <2>1. events' = events /\ results' = results /\ view' = view /\ call.q \in Asked
    BY <1>5 DEF CancelPending, TypeOK
  <2>2. items' \in [Asked -> ItemSet]
    BY <1>5, <2>1, ItemTypes DEF CancelPending, TypeOK
  <2>3. CallOK(call')
    BY <1>5, <1>n, <1>c DEF CancelPending
  <2> HIDE DEF CallOK
  <2> QED BY <1>0, <2>1, <2>2, <2>3 DEF TypeOK, CallOK
<1>6. CASE EmitCancelled
  <2>1. call.q \in Asked /\ items[call.q].rev \in Nat
    BY <1>6 DEF EmitCancelled, TypeOK, ItemSet
  <2>3. /\ events' \in Seq(EventSet) /\ view' \in [Views -> ViewSet]
        /\ \A v \in Views : view'[v].reply = view[v].reply
    BY Zenon, <1>6, <2>1, EventTypes, WokenTypes DEF EmitCancelled
  <2>4. items' = items /\ results' = results /\ CallOK(call')
    BY <1>6, <1>n DEF EmitCancelled
  <2> HIDE DEF CallOK
  <2> QED BY <1>0, <2>3, <2>4 DEF TypeOK, CallOK
<1>7. CASE Return
  <2>1. items' = items /\ events' = events /\ view' = view /\ CallOK(call')
    BY <1>7, <1>n DEF Return
  <2>2. call.q \in Asked /\ items[call.q].answer \in Answers \cup {"none"}
    BY <1>7 DEF Return, TypeOK, ItemSet
  <2>3. results' \in [Asked -> Answers \cup {"none", "error"}]
    BY <1>7, <2>2 DEF Return, TypeOK
  <2> HIDE DEF CallOK
  <2> QED BY <1>0, <2>1, <2>3 DEF TypeOK, CallOK
<1> QED BY <1>1, <1>2, <1>3, <1>4, <1>5, <1>6, <1>7 DEF Request

\* A view may be replaced by another one.
LEMMA ViewUpdate ==
    ASSUME TypeOK, NEW v \in Views, NEW r \in ViewSet,
           r.reply.pc # "none" => r.reply.q \in Asked /\ r.reply.answer \in Answers,
           view' = [view EXCEPT ![v] = r]
    PROVE  /\ view' \in [Views -> ViewSet]
           /\ \A w \in Views : view'[w].reply.pc # "none" =>
                 view'[w].reply.q \in Asked /\ view'[w].reply.answer \in Answers
BY DEF TypeOK

\* The steps of a view keep the types.
LEMMA ConnectedTypes ==
    ASSUME TypeOK, NEW v \in Views, Connected(v) \/ Disconnect(v)
    PROVE  TypeOK'
<1> DEFINE r == view[v]
<1> DEFINE ReplyOK(x) == x.pc # "none" => x.q \in Asked /\ x.answer \in Answers
<1>r. r \in ViewSet /\ ReplyOK(r.reply) /\ r.reply \in ReplySet
  BY DEF TypeOK, ViewSet
<1>0. results' = results /\ over' = over /\ mode' = mode /\ faults' \in Nat
  BY DEF Connected, Disconnect, TypeOK
<1>v. ASSUME NEW s \in ViewSet, ReplyOK(s.reply), view' = [view EXCEPT ![v] = s],
             UNCHANGED <<items, events, call>>, accepted' \subseteq Asked \X Answers
      PROVE  TypeOK'
  <2>1. /\ view' \in [Views -> ViewSet]
        /\ \A w \in Views : view'[w].reply.pc # "none" =>
              view'[w].reply.q \in Asked /\ view'[w].reply.answer \in Answers
    BY Zenon, <1>v, ViewUpdate
  <2> QED BY <1>v, <1>0, <2>1 DEF TypeOK
<1>a. accepted \subseteq Asked \X Answers
  BY DEF TypeOK
<1>u. ReplyOK(Unanswered)
  BY DEF Unanswered
<1>1. CASE Attach(v) \/ Detach(v)
  <2> DEFINE s == [Detached EXCEPT !.pc = "open", !.after = Latest]
  <2>1. Len(events) \in Nat
    BY DEF TypeOK
  <2>2. s \in ViewSet /\ ReplyOK(s.reply) /\ Detached \in ViewSet /\ ReplyOK(Detached.reply)
    BY Zenon, <2>1, Blanks DEF Detached, ViewSet, Latest, Unanswered
  <2>3. view' = [view EXCEPT ![v] = s] \/ view' = [view EXCEPT ![v] = Detached]
    BY <1>1 DEF Attach, Detach
  <2>4. UNCHANGED <<items, events, call, accepted>>
    BY <1>1 DEF Attach, Detach
  <2> HIDE DEF s, ReplyOK
  <2> QED BY <2>2, <2>3, <2>4, <1>v, <1>a
<1>2. CASE Hydrate(v)
  <2> DEFINE s == [r EXCEPT !.pc = "live"]
  <2>1. s \in ViewSet /\ s.reply = r.reply
    BY <1>r DEF ViewSet
  <2>2. \A q \in LatestPending : q \in Asked /\ items[q].rev \in Nat
    BY DEF LatestPending, TypeOK, ItemSet
  <2>3. \A q \in LatestPending :
           Show(s, q, items[q].rev) \in ViewSet /\ Show(s, q, items[q].rev).reply = r.reply
    BY ZenonT(30), <2>1, <2>2, ShowTypes
  <2>4. \/ view' = [view EXCEPT ![v] = s]
        \/ \E q \in LatestPending : view' = [view EXCEPT ![v] = Show(s, q, items[q].rev)]
    BY <1>2 DEF Hydrate
  <2>5. UNCHANGED <<items, events, call, accepted>>
    BY <1>2 DEF Hydrate
  <2> HIDE DEF s, ReplyOK
  <2>6. CASE view' = [view EXCEPT ![v] = s]
    BY Zenon, <2>6, <2>1, <2>5, <1>r, <1>v, <1>a
  <2>7. CASE \E q \in LatestPending : view' = [view EXCEPT ![v] = Show(s, q, items[q].rev)]
    <3>1. PICK q \in LatestPending : view' = [view EXCEPT ![v] = Show(s, q, items[q].rev)]
      BY Zenon, <2>7
    <3> DEFINE t == Show(s, q, items[q].rev)
    <3>2. t \in ViewSet /\ ReplyOK(t.reply)
      BY <2>3, <1>r
    <3>3. view' = [view EXCEPT ![v] = t]
      BY <3>1
    <3> HIDE DEF t
    <3> QED BY Zenon, <3>2, <3>3, <2>5, <1>v, <1>a
  <2> QED BY <2>4, <2>6, <2>7
<1>3. CASE Follow(v)
  <2> DEFINE s == [r EXCEPT !.after = @ + 1]
             e == events[r.after + 1]
             t == Translated(s, e)
  <2>1. r.after + 1 \in 1..Len(events)
    BY <1>3, <1>r DEF Follow, Latest, ViewSet, TypeOK
  <2>2. e \in EventSet
    BY <2>1 DEF TypeOK
  <2>3. s \in ViewSet /\ s.reply = r.reply
    BY <1>r DEF ViewSet
  <2>4. view' = [view EXCEPT ![v] = t] /\ UNCHANGED <<items, events, call, accepted>>
    BY <1>3 DEF Follow
  <2>5. e.q \in Asked /\ e.rev \in Nat
    BY <2>2 DEF EventSet
  <2> HIDE DEF s, e
  <2>6. Show(s, e.q, e.rev) \in ViewSet /\ Show(s, e.q, e.rev).reply = s.reply
    BY <2>3, <2>5, ShowTypes
  <2>7. /\ [s EXCEPT !.pending = 0, !.rev = 0] \in ViewSet
        /\ [s EXCEPT !.pending = 0, !.rev = 0].reply = s.reply
    BY Zenon, <2>3, AskedTypes DEF ViewSet
  <2>8. t \in ViewSet /\ t.reply = s.reply
    BY <2>6, <2>7 DEF Translated
  <2> HIDE DEF t, ReplyOK
  <2> QED BY Zenon, <2>3, <2>4, <2>8, <1>r, <1>v, <1>a
<1>4. CASE WaitEvents(v)
  <2> DEFINE s == [r EXCEPT !.waits = TRUE]
  <2>1. s \in ViewSet /\ s.reply = r.reply
    BY Zenon, <1>r DEF ViewSet
  <2>2. view' = [view EXCEPT ![v] = s] /\ UNCHANGED <<items, events, call, accepted>>
    BY <1>4 DEF WaitEvents
  <2> HIDE DEF s, ReplyOK
  <2> QED BY Zenon, <2>1, <2>2, <1>r, <1>v, <1>a
<1>5. CASE Reply(v)
  <2>1. PICK a \in Answers :
          view' = [view EXCEPT ![v].reply = [pc |-> "sent", q |-> view[v].pending,
                                             rev |-> view[v].rev, answer |-> a]]
    BY Zenon, <1>5 DEF Reply
  <2> DEFINE x == [pc |-> "sent", q |-> view[v].pending, rev |-> view[v].rev, answer |-> a]
             s == [r EXCEPT !.reply = x]
  <2>2. r.pending \in Asked /\ r.rev \in Nat
    BY <1>5, <1>r, InteractionsAssumption DEF Reply, ViewSet, Asked, InteractionsAssumption
  <2>3. x \in ReplySet /\ ReplyOK(x)
    BY <2>2, InteractionsAssumption DEF ReplySet, Asked, InteractionsAssumption
  <2>4. view' = [view EXCEPT ![v] = s]
    BY <2>1
  <2> HIDE DEF x
  <2>5. s \in ViewSet /\ s.reply = x
    BY <2>3, <1>r DEF ViewSet
  <2>6. UNCHANGED <<items, events, call, accepted>>
    BY <1>5 DEF Reply
  <2> HIDE DEF s, ReplyOK
  <2> QED BY Zenon, <2>3, <2>4, <2>5, <2>6, <1>v, <1>a
<1>6. CASE Told(v)
  <2> DEFINE s == [r EXCEPT !.reply = Unanswered, !.pending = 0, !.rev = 0]
             t == [r EXCEPT !.reply = Unanswered]
  <2>1. /\ s \in ViewSet /\ s.reply = Unanswered
        /\ t \in ViewSet /\ t.reply = Unanswered
    BY ZenonT(30), <1>r, Blanks, AskedTypes DEF ViewSet
  <2>2. view' = [view EXCEPT ![v] = s] \/ view' = [view EXCEPT ![v] = t]
    BY <1>6 DEF Told
  <2>3. r.reply.q \in Asked /\ r.reply.answer \in Answers
    BY <1>6, <1>r DEF Told
  <2>4. accepted' \subseteq Asked \X Answers /\ UNCHANGED <<items, events, call>>
    BY <1>6, <1>a, <2>3 DEF Told
  <2> HIDE DEF s, t, ReplyOK
  <2> QED BY <2>1, <2>2, <2>4, <1>u, <1>v
<1>7. CASE EmitResolved(v)
  <2> DEFINE e == Event("resolved", r.reply.q, r.reply.rev + 1)
  <2>1. r.reply.q \in Asked /\ r.reply.rev + 1 \in Nat /\ r.reply.answer \in Answers
    BY SMT, SMTT(30), <1>7, <1>r DEF EmitResolved, ReplySet
  <2>2. /\ events' = Appended(e) /\ view' = [Woken(e) EXCEPT ![v].reply.pc = "answered"]
        /\ items' = items /\ call' = call /\ accepted' = accepted
    BY Zenon, <1>7 DEF EmitResolved
  <2>3. events' \in Seq(EventSet)
    BY Zenon, <2>1, <2>2, EventTypes
  <2> HIDE DEF e
  <2>4. /\ Woken(e) \in [Views -> ViewSet]
        /\ \A w \in Views : Woken(e)[w].reply = view[w].reply
    BY WokenTypes
  <2> DEFINE s == [Woken(e)[v] EXCEPT !.reply.pc = "answered"]
  <2>5. Woken(e)[v] \in ViewSet /\ Woken(e)[v].reply = r.reply
    BY <2>4
  <2>6. [r.reply EXCEPT !.pc = "answered"] \in ReplySet
    BY <1>r DEF ReplySet
  <2>7. s = [Woken(e)[v] EXCEPT !.reply = [r.reply EXCEPT !.pc = "answered"]]
    BY <2>5
  <2>8. /\ s \in ViewSet /\ s.reply = [r.reply EXCEPT !.pc = "answered"]
    BY <2>5, <2>6, <2>7 DEF ViewSet
  <2>9. s.reply.q \in Asked /\ s.reply.answer \in Answers
    BY <2>8, <2>1, <1>r DEF ReplySet
  <2>10. view' = [Woken(e) EXCEPT ![v] = s]
    BY <2>2
  <2> HIDE DEF s, ReplyOK
  <2>11. /\ view' \in [Views -> ViewSet]
         /\ \A w \in Views : view'[w].reply.pc # "none" =>
               view'[w].reply.q \in Asked /\ view'[w].reply.answer \in Answers
    BY Zenon, <2>4, <2>8, <2>9, <2>10 DEF TypeOK
  <2> QED BY <2>2, <2>3, <2>11, <1>0 DEF TypeOK
<1>8. CASE Resolve(v)
  <2> DEFINE s == [r EXCEPT !.reply.pc = "stored"]
             t == [r EXCEPT !.reply = Unanswered]
  <2>1. r.reply.q \in Asked /\ r.reply.answer \in Answers
    BY <1>8, <1>r DEF Resolve
  <2>2. [r.reply EXCEPT !.pc = "stored"] \in ReplySet
    BY <1>r DEF ReplySet
  <2>3. s \in ViewSet /\ s.reply = [r.reply EXCEPT !.pc = "stored"]
    BY <1>r, <2>2 DEF ViewSet
  <2>4. ReplyOK(s.reply)
    BY <2>1, <2>3, <1>r DEF ReplySet
  <2>5. t \in ViewSet /\ t.reply = Unanswered
    BY <1>r, Blanks DEF ViewSet
  <2>6. CASE OpenAt(r.reply.q, r.reply.rev)
    <3>1. /\ items' = Closed(r.reply.q, "resolved", r.reply.answer) /\ call' = Signal(call)
          /\ view' = [view EXCEPT ![v] = s] /\ events' = events /\ accepted' = accepted
      BY <1>8, <2>6 DEF Resolve
    <3>2. items' \in [Asked -> ItemSet]
      BY <3>1, <2>1, ItemTypes
    <3>3. call' \in CallSet /\ call'.pc = call.pc /\ call'.q = call.q
      BY Zenon, <3>1 DEF Signal, TypeOK, CallSet
    <3> HIDE DEF s
    <3>4. /\ view' \in [Views -> ViewSet]
          /\ \A w \in Views : view'[w].reply.pc # "none" =>
                view'[w].reply.q \in Asked /\ view'[w].reply.answer \in Answers
      BY Zenon, <3>1, <2>3, <2>4, ViewUpdate
    <3> QED BY <3>1, <3>2, <3>3, <3>4, <1>0 DEF TypeOK
  <2>7. CASE ~ OpenAt(r.reply.q, r.reply.rev)
    <3>1. view' = [view EXCEPT ![v] = t] /\ UNCHANGED <<items, events, call, accepted>>
      BY <1>8, <2>7 DEF Resolve
    <3> HIDE DEF t, ReplyOK
    <3> QED BY Zenon, <3>1, <2>5, <1>u, <1>v, <1>a
  <2> QED BY <2>6, <2>7
<1> QED BY <1>1, <1>2, <1>3, <1>4, <1>5, <1>6, <1>7, <1>8 DEF Connected, Disconnect

\* So do the steps of the process.
LEMMA ProcessTypes == TypeOK /\ Process => TypeOK'
<1> SUFFICES ASSUME TypeOK, Process PROVE TypeOK'
  OBVIOUS
<1>1. items' = items /\ events' = events /\ results' = results /\ accepted' = accepted
  BY DEF Process
<1>2. over' \in BOOLEAN /\ mode' \in {"open", "cancelling", "closing", "down"} /\ faults' \in Nat
  <2>1. faults' = faults \/ faults' = faults + 1
    BY DEF Process, CancelExecution, Unwind, CancelUnhosted, Close, Exit, Restart
  <2>2. over' \in BOOLEAN /\ mode' \in {"open", "cancelling", "closing", "down"}
    BY Zenon DEF Process, CancelExecution, Unwind, CancelUnhosted, Close, Exit, Restart, TypeOK
  <2> QED BY <2>1, <2>2 DEF TypeOK
<1>3. call' \in CallSet /\ (call'.pc # "none" => call'.q \in Asked)
  <2>1. CASE call' = NoCall
    BY <2>1, Blanks DEF NoCall
  <2>2. CASE call' = [call EXCEPT !.cancelled = call # NoCall]
    BY Zenon, <2>2 DEF TypeOK, CallSet
  <2>3. CASE call' = call
    BY <2>3 DEF TypeOK
  <2> QED BY <2>1, <2>2, <2>3 DEF Process, CancelExecution, Unwind, CancelUnhosted, Close, Exit, Restart
<1>4. view' = view \/ view' = [v \in Views |-> Detached]
  BY DEF Process, CancelExecution, Unwind, CancelUnhosted, Close, Exit, Restart
<1>5. /\ view' \in [Views -> ViewSet]
      /\ \A v \in Views : view'[v].reply.pc # "none" =>
            view'[v].reply.q \in Asked /\ view'[v].reply.answer \in Answers
  <2>1. Detached.reply.pc = "none"
    BY DEF Detached, Unanswered
  <2>2. CASE view' = view
    BY <2>2 DEF TypeOK
  <2>3. CASE view' = [v \in Views |-> Detached]
    BY <2>1, <2>3, Blanks
  <2> QED BY <1>4, <2>2, <2>3
<1> QED BY <1>1, <1>2, <1>3, <1>5 DEF TypeOK

\* Every step keeps the types.
LEMMA TypesKept == TypeOK /\ [Next]_vars => TypeOK'
<1> SUFFICES ASSUME TypeOK, [Next]_vars PROVE TypeOK'
  OBVIOUS
<1>1. CASE UNCHANGED vars
  BY <1>1 DEF vars, durable, TypeOK
<1>2. CASE Next
  BY <1>2, RequestTypes, ConnectedTypes, ProcessTypes DEF Next
<1> QED BY <1>1, <1>2

\* Every record of Interactions is well typed in every reachable state.
THEOREM InteractionTypes == Spec => []TypeOK
BY InitTypes, TypesKept, PTL DEF Spec

-----------------------------------------------------------------------------
(***************************************************************************)
(* The questions.                                                          *)
(***************************************************************************)

\* A step leaves a question alone, stores a new one or closes a pending one.
ItemStep(q) ==
    \/ items'[q] = items[q]
    \/ items[q] = NoItem /\ items'[q].state = "pending"
    \/ /\ Pending(q) /\ items'[q].state \in {"resolved", "cancelled"}
       /\ items'[q].state = "resolved" => items'[q].answer \in Answers

\* Closing a question that is open.
LEMMA ClosedStep ==
    ASSUME TypeOK, NEW q \in Asked, NEW n, NEW a, NEW st \in {"resolved", "cancelled"},
           st = "resolved" => a \in Answers, OpenAt(q, n), items' = Closed(q, st, a)
    PROVE  /\ \A p \in Asked : ItemStep(p)
           /\ items'[q].state = st /\ items'[q].answer = a
BY DEF TypeOK, OpenAt, Closed, ItemStep, Pending

\* The steps that change a question.
LEMMA ItemsChange ==
    ASSUME [Next]_vars
    PROVE  items' = items \/ Create \/ CancelPending \/ \E v \in Views : Resolve(v)
<1>1. CASE UNCHANGED vars
  BY <1>1 DEF vars, durable
<1>2. CASE Request
  BY <1>2 DEF Request, EmitRequested, Wait, Select, CancelGet, EmitCancelled, Return
<1>3. CASE Process
  BY ZenonT(30), <1>3 DEF Process
<1>4. ASSUME NEW v \in Views, Connected(v) \/ Disconnect(v)
      PROVE  items' = items \/ Resolve(v)
  BY Zenon, <1>4 DEF Connected, Disconnect, Attach, Hydrate, Follow, WaitEvents, Reply,
              EmitResolved, Told, Detach
<1> QED BY <1>1, <1>2, <1>3, <1>4 DEF Next

\* Every step is of this kind.
LEMMA ItemsStep ==
    ASSUME TypeOK, [Next]_vars
    PROVE  \A q \in Asked : ItemStep(q)
<1>0. CASE items' = items
  BY <1>0 DEF ItemStep
<1>1. CASE Create
  <2>1. PICK q \in Asked : items' = Created(q)
    BY <1>1 DEF Create
  <2> QED BY <2>1 DEF Created, ItemStep, TypeOK
<1>2. CASE CancelPending
  <2>1. call.q \in Asked
    BY <1>2 DEF CancelPending, TypeOK
  <2>2. CASE OpenAt(call.q, call.rev)
    BY Zenon, <1>2, <2>1, <2>2, ClosedStep DEF CancelPending
  <2>3. CASE ~ OpenAt(call.q, call.rev)
    BY <1>0, <1>2, <2>3 DEF CancelPending
  <2> QED BY <2>2, <2>3
<1>3. ASSUME NEW v \in Views, Resolve(v)
      PROVE  \A q \in Asked : ItemStep(q)
  <2> DEFINE r == view[v].reply
  <2>1. r.q \in Asked /\ r.answer \in Answers
    BY <1>3 DEF Resolve, TypeOK
  <2>2. CASE OpenAt(r.q, r.rev)
    BY <1>3, <2>1, <2>2, ClosedStep DEF Resolve
  <2>3. CASE ~ OpenAt(r.q, r.rev)
    BY <1>0, <1>3, <2>3 DEF Resolve
  <2> QED BY <2>2, <2>3
<1> QED BY <1>0, <1>1, <1>2, <1>3, ItemsChange

\* A question that is settled stays as it is, one that is stored stays stored,
\* and one that is pending was pending before or is new.
LEMMA ItemsKept ==
    ASSUME TypeOK, [Next]_vars, NEW q \in Asked
    PROVE  /\ Settled(q) => items'[q] = items[q]
           /\ items[q] # NoItem => items'[q] # NoItem
           /\ Pending(q)' => Pending(q) \/ items[q] = NoItem
BY ItemsStep DEF ItemStep, Settled, Pending, NoItem

-----------------------------------------------------------------------------
(***************************************************************************)
(* Answers.                                                                *)
(***************************************************************************)

\* Question q was answered with a.
Has(q, a) == items[q].state = "resolved" /\ items[q].answer = a

\* What the execution recorded, what a view was told and what is on its way to
\* a view is what the store has; a call returns from a settled question.
Agreement ==
    /\ \A q \in Asked : /\ results[q] \in Answers => Has(q, results[q])
                        /\ results[q] = "error" => items[q].state = "cancelled"
    /\ \A x \in accepted : Has(x[1], x[2])
    /\ \A v \in Views : view[v].reply.pc \in {"stored", "answered"} =>
          Has(view[v].reply.q, view[v].reply.answer)
    /\ call.pc = "return" => Settled(call.q)
    /\ \A q \in Asked : items[q].state = "resolved" => items[q].answer \in Answers

\* It holds initially.
LEMMA InitAgreement == Init => Agreement
BY InteractionsAssumption
   DEF Init, Agreement, NoItem, NoCall, Detached, Unanswered, InteractionsAssumption

\* It implies the property.
LEMMA AgreementKeeps == TypeOK /\ Agreement => AnswerKept
<1> SUFFICES ASSUME TypeOK, Agreement PROVE AnswerKept
  OBVIOUS
<1>1. ASSUME NEW x \in accepted
      PROVE  /\ items[x[1]].state = "resolved" /\ items[x[1]].answer = x[2]
             /\ results[x[1]] \in {"none", x[2]}
  <2>1. x[1] \in Asked /\ Has(x[1], x[2])
    BY DEF TypeOK, Agreement
  <2>2. results[x[1]] \in Answers \cup {"none", "error"}
    BY <2>1 DEF TypeOK
  <2> QED BY <2>1, <2>2 DEF Agreement, Has
<1> QED BY <1>1 DEF AnswerKept, Agreement

\* What is answered stays so.
LEMMA HasKept ==
    ASSUME TypeOK, [Next]_vars, NEW q \in Asked, NEW a, Has(q, a)
    PROVE  Has(q, a)'
BY ItemsKept DEF Has, Settled

\* The recorded results follow the store.
LEMMA ResultsAgree ==
    ASSUME TypeOK, [Next]_vars, Agreement, NEW q \in Asked
    PROVE  /\ results'[q] \in Answers => Has(q, results[q])'
           /\ results'[q] = "error" => items'[q].state = "cancelled"
<1>1. CASE results'[q] = results[q]
  BY <1>1, ItemsKept DEF Agreement, Settled, Has
<1>2. CASE Return /\ results'[q] # results[q]
  <2>1. call.q = q /\ call.pc = "return" /\ items' = items
    BY <1>2 DEF Return, TypeOK
  <2>2. results'[q] = IF items[q].state = "resolved" THEN items[q].answer ELSE "error"
    BY <1>2, <2>1 DEF Return, TypeOK
  <2>3. Settled(q)
    BY <2>1 DEF Agreement
  <2>4. "error" \notin Answers /\ (items[q].state = "resolved" => items[q].answer \in Answers)
    BY InteractionsAssumption DEF InteractionsAssumption, Agreement
  <2>5. CASE items[q].state = "resolved"
    BY <2>1, <2>2, <2>4, <2>5 DEF Has
  <2>6. CASE items[q].state = "cancelled"
    BY ZenonT(30), <2>1, <2>2, <2>4, <2>6
  <2> QED BY <2>3, <2>5, <2>6 DEF Settled
<1>3. results' = results \/ Return
  BY Zenon DEF vars, durable, Next, Request, Create, EmitRequested, Wait, Select, CancelGet,
         CancelPending, EmitCancelled, Process, Connected, Disconnect
<1> QED BY <1>1, <1>2, <1>3

\* A call that returns does so from a settled question.
LEMMA ReturnSettled ==
    ASSUME TypeOK, [Next]_vars, Agreement
    PROVE  call'.pc = "return" => Settled(call.q)'
<1>1. SUFFICES ASSUME call'.pc = "return" PROVE Settled(call.q)'
  OBVIOUS
<1>2. CASE Wait
  <2>1. Settled(call.q) /\ call'.q = call.q /\ items' = items
    BY <1>1, <1>2 DEF Wait, TypeOK, CallSet
  <2> QED BY <2>1 DEF Settled
<1>3. CASE call.pc = "return" /\ call'.q = call.q
  <2>1. call.q \in Asked /\ Settled(call.q)
    BY <1>3 DEF Agreement, TypeOK
  <2> QED BY <1>3, <2>1, ItemsKept DEF Settled
<1>4. Wait \/ (call.pc = "return" /\ call'.q = call.q)
  <2>1. CASE call' = call
    BY <1>1, <2>1
  <2>2. CASE Request
    <3>0. call \in CallSet /\ NoCall.pc = "none"
      BY DEF TypeOK, NoCall
    <3>1. CASE Create
      BY <1>1, <3>1 DEF Create, NoCall
    <3>2. CASE EmitRequested \/ Select
      BY <1>1, <3>0, <3>2 DEF EmitRequested, Select, Goto, CallSet
    <3>3. CASE CancelGet
      BY <1>1, <3>0, <3>3 DEF CancelGet, CallSet
    <3>4. CASE CancelPending
      BY <1>1, <3>0, <3>4 DEF CancelPending, Goto, CallSet
    <3>5. CASE EmitCancelled \/ Return
      BY <1>1, <3>0, <3>5 DEF EmitCancelled, Return
    <3> QED BY <2>2, <3>1, <3>2, <3>3, <3>4, <3>5 DEF Request
  <2>3. CASE Process
    BY <1>1, <2>3 DEF Process, CancelExecution, Unwind, CancelUnhosted, Close, Exit, Restart, NoCall, TypeOK, CallSet
  <2>4. CASE \E v \in Views : Resolve(v)
    <3>1. call' = call \/ call' = Signal(call)
      BY ZenonT(30), <2>4 DEF Resolve
    <3> QED BY <1>1, <3>1 DEF Signal, TypeOK, CallSet
  <2>5. CASE \E v \in Views : (Connected(v) \/ Disconnect(v)) /\ ~ Resolve(v)
    BY Zenon, <2>1, <2>5 DEF Connected, Disconnect, Attach, Hydrate, Follow, WaitEvents, Reply,
                      EmitResolved, Told, Detach
  <2> QED BY <2>1, <2>2, <2>3, <2>4, <2>5 DEF Next, vars
<1> QED BY <1>2, <1>3, <1>4

\* A step leaves the reply of a view alone, or it is one of the view's own that
\* ends, sends, stores or announces a reply.
ReplyStep(w) ==
    \/ view'[w].reply = view[w].reply
    \/ view'[w].reply.pc \in {"none", "sent"}
    \/ Resolve(w) /\ OpenAt(view[w].reply.q, view[w].reply.rev)
    \/ EmitResolved(w)

\* Every step is of this kind.
LEMMA RepliesStep ==
    ASSUME TypeOK, [Next]_vars, NEW w \in Views
    PROVE  ReplyStep(w)
<1>0. view[w] \in ViewSet /\ view[w].reply \in ReplySet
  BY DEF TypeOK, ViewSet
<1>1. CASE view' = view
  BY <1>1 DEF ReplyStep
<1>2. CASE Request
  <2>1. view' = view \/ \E e \in {Event("requested", call.q, 1),
                                  Event("cancelled", call.q, items[call.q].rev)} :
                           view' = Woken(e)
    BY Zenon, <1>2 DEF Request, Create, EmitRequested, Wait, Select, CancelGet, CancelPending,
                EmitCancelled, Return
  <2> QED BY ZenonT(30), <1>1, <2>1, WokenTypes DEF ReplyStep
<1>3. CASE Process
  <2>1. view' = view \/ view' = [v \in Views |-> Detached]
    BY <1>3 DEF Process, CancelExecution, Unwind, CancelUnhosted, Close, Exit, Restart
  <2> QED BY <1>1, <2>1 DEF ReplyStep, Detached, Unanswered
<1>4. ASSUME NEW v \in Views, Connected(v) \/ Disconnect(v), v # w
      PROVE  ReplyStep(w)
  <2>1. CASE EmitResolved(v)
    <3> DEFINE e == Event("resolved", view[v].reply.q, view[v].reply.rev + 1)
    <3>1. view' = [Woken(e) EXCEPT ![v].reply.pc = "answered"]
      BY Zenon, <2>1 DEF EmitResolved
    <3> HIDE DEF e
    <3>2. view'[w] = Woken(e)[w]
      BY <3>1, <1>4, WokenTypes
    <3> QED BY ZenonT(30), <3>2, WokenTypes DEF ReplyStep
  <2>2. CASE ~ EmitResolved(v)
    <3>1. view'[w] = view[w]
      BY Zenon, <1>4, <2>2 DEF Connected, Disconnect, Attach, Hydrate, Follow, WaitEvents, Reply,
                        Resolve, Told, Detach, TypeOK
    <3> QED BY <3>1 DEF ReplyStep
  <2> QED BY <2>1, <2>2
<1>5. CASE Attach(w) \/ Detach(w)
  <2> DEFINE s == [Detached EXCEPT !.pc = "open", !.after = Latest]
  <2>1. view'[w] = s \/ view'[w] = Detached
    BY <1>5 DEF Attach, Detach, TypeOK
  <2>2. s.reply = Detached.reply
    BY DEF Detached
  <2>3. Detached.reply.pc = "none"
    BY DEF Detached, Unanswered
  <2> HIDE DEF s
  <2> QED BY <2>1, <2>2, <2>3 DEF ReplyStep
<1>6. CASE Hydrate(w)
  <2> DEFINE r == [view[w] EXCEPT !.pc = "live"]
  <2>1. r.reply = view[w].reply
    BY <1>0 DEF ViewSet
  <2>2. \A q, n : Show(r, q, n).reply = r.reply
    BY <1>0 DEF Show, ViewSet
  <2>3. view'[w] = r \/ \E q \in LatestPending : view'[w] = Show(r, q, items[q].rev)
    BY <1>6 DEF Hydrate, TypeOK
  <2> HIDE DEF r
  <2> QED BY <2>1, <2>2, <2>3 DEF ReplyStep
<1>7. CASE Follow(w)
  <2> DEFINE r == [view[w] EXCEPT !.after = @ + 1]
             e == events[view[w].after + 1]
  <2>1. r.reply = view[w].reply
    BY <1>0 DEF ViewSet
  <2>2. Show(r, e.q, e.rev).reply = r.reply /\ [r EXCEPT !.pending = 0, !.rev = 0].reply = r.reply
    BY <1>0 DEF Show, ViewSet
  <2>3. view'[w] = Translated(r, e)
    BY <1>7 DEF Follow, TypeOK
  <2> HIDE DEF r, e
  <2> QED BY <2>1, <2>2, <2>3 DEF ReplyStep, Translated
<1>8. CASE WaitEvents(w) \/ Reply(w) \/ Told(w)
  BY <1>8, <1>0 DEF WaitEvents, Reply, Told, ReplyStep, Unanswered, TypeOK, ViewSet
<1>9. CASE Resolve(w) \/ EmitResolved(w)
  <2>1. CASE Resolve(w) /\ ~ OpenAt(view[w].reply.q, view[w].reply.rev)
    BY <2>1, <1>0 DEF Resolve, ReplyStep, Unanswered, TypeOK, ViewSet
  <2> QED BY <1>9, <2>1 DEF ReplyStep
<1>10. CASE Connected(w) \/ Disconnect(w)
  BY <1>5, <1>6, <1>7, <1>8, <1>9, <1>10 DEF Connected, Disconnect
<1> QED BY <1>1, <1>2, <1>3, <1>4, <1>10 DEF Next, vars

\* What is on its way to a view is what the store has.
LEMMA RepliesAgree ==
    ASSUME TypeOK, [Next]_vars, Agreement, NEW w \in Views,
           view'[w].reply.pc \in {"stored", "answered"}
    PROVE  Has(view[w].reply.q, view[w].reply.answer)'
<1> DEFINE r == view[w].reply
<1>0. view[w] \in ViewSet /\ r \in ReplySet /\ (r.pc # "none" => r.q \in Asked /\ r.answer \in Answers)
  BY DEF TypeOK, ViewSet
<1>1. CASE view'[w].reply = r
  BY <1>0, <1>1, HasKept DEF Agreement, Has
<1>2. CASE Resolve(w) /\ OpenAt(r.q, r.rev)
  <2>1. /\ items' = Closed(r.q, "resolved", r.answer) /\ r.q \in Asked /\ r.answer \in Answers
        /\ view' = [view EXCEPT ![w].reply.pc = "stored"]
    BY ZenonT(30), <1>0, <1>2 DEF Resolve
  <2>2. items'[r.q].state = "resolved" /\ items'[r.q].answer = r.answer
    BY Zenon, <2>1, <1>2, ClosedStep
  <2>3. view'[w].reply.q = r.q /\ view'[w].reply.answer = r.answer
    BY <2>1, <1>0 DEF TypeOK, ViewSet, ReplySet
  <2> QED BY <2>2, <2>3 DEF Has
<1>3. CASE EmitResolved(w)
  <2> DEFINE e == Event("resolved", r.q, r.rev + 1)
  <2>1. /\ r.pc = "stored" /\ items' = items
        /\ view' = [Woken(e) EXCEPT ![w].reply.pc = "answered"]
    BY Zenon, <1>3 DEF EmitResolved
  <2> HIDE DEF e
  <2>2. Woken(e) \in [Views -> ViewSet] /\ Woken(e)[w].reply = r
    BY WokenTypes
  <2>3. view'[w].reply.q = r.q /\ view'[w].reply.answer = r.answer
    BY <2>1, <2>2, <1>0 DEF ViewSet, ReplySet
  <2> QED BY ZenonT(30), <2>1, <2>3 DEF Agreement, Has
<1> QED BY <1>1, <1>2, <1>3, RepliesStep DEF ReplyStep

\* So is what a view was told.
LEMMA AcceptedAgree ==
    ASSUME TypeOK, [Next]_vars, Agreement, NEW x \in accepted'
    PROVE  Has(x[1], x[2])'
<1>1. CASE x \in accepted
  BY Zenon, <1>1, HasKept DEF Agreement, TypeOK
<1>2. CASE x \notin accepted
  <2>1. PICK v \in Views : Told(v)
    BY Zenon, <1>2 DEF vars, Next, Request, Process, Connected, Disconnect, Attach, Hydrate, Follow,
                WaitEvents, Reply, Resolve, EmitResolved, Detach
  <2>2. /\ view[v].reply.pc = "answered" /\ items' = items
        /\ x = <<view[v].reply.q, view[v].reply.answer>>
    BY <1>2, <2>1 DEF Told
  <2> QED BY ZenonT(30), <2>2 DEF Agreement, Has
<1> QED BY <1>1, <1>2

\* Every step keeps the agreement.
LEMMA AgreementKept == TypeOK /\ Agreement /\ [Next]_vars => Agreement'
<1> SUFFICES ASSUME TypeOK, Agreement, [Next]_vars PROVE Agreement'
  OBVIOUS
<1>1. \A q \in Asked : /\ results'[q] \in Answers => Has(q, results[q])'
                       /\ results'[q] = "error" => items'[q].state = "cancelled"
  BY ResultsAgree
<1>2. \A x \in accepted' : Has(x[1], x[2])'
  BY AcceptedAgree
<1>3. \A w \in Views : view'[w].reply.pc \in {"stored", "answered"} =>
         Has(view[w].reply.q, view[w].reply.answer)'
  BY RepliesAgree
<1>4. call'.pc = "return" => Settled(call.q)'
  BY ReturnSettled
<1>5. \A q \in Asked : items'[q].state = "resolved" => items'[q].answer \in Answers
  BY ItemsStep DEF ItemStep, Agreement
<1> QED BY <1>1, <1>2, <1>3, <1>4, <1>5 DEF Agreement, Has, Settled

\* An answer a view was told is accepted is the one that is stored and the one
\* the execution gets (InteractionManager.Resolve and Request), for any number
\* of views, questions, crashes and cancellations.
THEOREM AnswersKept == Spec => []AnswerKept
<1>1. Init => TypeOK /\ Agreement
  BY InitTypes, InitAgreement
<1>2. TypeOK /\ Agreement /\ [Next]_vars => (TypeOK /\ Agreement)'
  BY TypesKept, AgreementKept
<1>3. TypeOK /\ Agreement => AnswerKept
  BY AgreementKeeps
<1> QED BY <1>1, <1>2, <1>3, PTL DEF Spec

-----------------------------------------------------------------------------
(***************************************************************************)
(* Announcements.                                                          *)
(***************************************************************************)

\* Questions are stored one after the other and before they are announced, a
\* call waits for a question it has announced, and a view has shown what is
\* pending of the questions announced up to its cursor.
Announced ==
    /\ \A q \in Asked : items[q] # NoItem => \A p \in 1..q - 1 : results[p] # "none"
    /\ \A n \in DOMAIN events : items[events[n].q] # NoItem
    /\ call.pc # "none" => items[call.q] # NoItem
    /\ call.pc \in {"wait", "blocked"} /\ ~ call.cancelled /\ Pending(call.q)
          => Known(Event("requested", call.q, 1))
    /\ \A v \in Views : view[v].pc # "detached" => view[v].after <= Latest
    /\ \A v \in Views : view[v].pc = "live" =>
          \A n \in 1..view[v].after :
             events[n].name = "requested" /\ Pending(events[n].q) => events[n].q \in view[v].shown

\* It holds initially.
LEMMA InitAnnounced == Init => Announced
BY SMT, SMTT(30) DEF Init, Announced, NoItem, NoCall, Detached

\* It implies the property.
LEMMA AnnouncedShows == TypeOK /\ Announced => QuestionShown
<1> SUFFICES ASSUME TypeOK, Announced, NEW v \in Views,
                    view[v].pc = "live", view[v].after = Latest,
                    call.pc \in {"wait", "blocked"}, ~ call.cancelled, Pending(call.q)
             PROVE  call.q \in view[v].shown
  BY DEF QuestionShown
<1>1. PICK n \in DOMAIN events : events[n] = Event("requested", call.q, 1)
  BY DEF Announced, Known
<1>2. n \in 1..view[v].after
  BY DEF Latest, TypeOK
<1> QED BY <1>1, <1>2 DEF Announced, Event

\* The stream only grows, by events about questions that are stored.
LEMMA EventsStep ==
    ASSUME TypeOK, Agreement, Announced, [Next]_vars
    PROVE  \/ events' = events
           \/ \E e \in EventSet : events' = Append(events, e) /\ items[e.q] # NoItem
<1>1. CASE EmitRequested
  <2>1. call.q \in Asked /\ items[call.q] # NoItem
    BY Zenon, <1>1 DEF EmitRequested, TypeOK, Announced
  <2> DEFINE e == Event("requested", call.q, 1)
  <2>2. e \in EventSet /\ e.q = call.q
    BY <2>1 DEF Event, EventSet
  <2>3. events' = events \/ events' = Append(events, e)
    BY <1>1 DEF EmitRequested, Appended
  <2> QED BY <2>1, <2>2, <2>3
<1>2. CASE EmitCancelled
  <2>1. call.q \in Asked /\ items[call.q] # NoItem /\ items[call.q].rev \in Nat
    BY Zenon, <1>2 DEF EmitCancelled, TypeOK, Announced, ItemSet
  <2> DEFINE e == Event("cancelled", call.q, items[call.q].rev)
  <2>2. e \in EventSet /\ e.q = call.q
    BY <2>1 DEF Event, EventSet
  <2>3. events' = events \/ events' = Append(events, e)
    BY <1>2 DEF EmitCancelled, Appended
  <2> QED BY <2>1, <2>2, <2>3
<1>3. ASSUME NEW v \in Views, EmitResolved(v)
      PROVE  \/ events' = events
             \/ \E e \in EventSet : events' = Append(events, e) /\ items[e.q] # NoItem
  <2> DEFINE r == view[v].reply
             e == Event("resolved", r.q, r.rev + 1)
  <2>1. r.q \in Asked /\ r.rev \in Nat /\ items[r.q].state = "resolved"
    BY Zenon, <1>3 DEF EmitResolved, TypeOK, ViewSet, ReplySet, Agreement, Has
  <2>2. e \in EventSet /\ e.q = r.q /\ items[r.q] # NoItem
    BY SMTT(30), <2>1 DEF Event, EventSet, NoItem
  <2>3. events' = events \/ events' = Append(events, e)
    BY ZenonT(30), <1>3 DEF EmitResolved, Appended
  <2> QED BY ZenonT(30), <2>2, <2>3
<1>4. \/ events' = events \/ EmitRequested \/ EmitCancelled
      \/ \E v \in Views : EmitResolved(v)
  BY Zenon DEF vars, durable, Next, Request, Create, Wait, Select, CancelGet, CancelPending, Return,
         Process, Connected, Disconnect, Attach, Hydrate, Follow, WaitEvents, Reply, Resolve,
         Told, Detach
<1> QED BY <1>1, <1>2, <1>3, <1>4

\* What the stream has it keeps.
LEMMA EventsKept ==
    ASSUME TypeOK, Agreement, Announced, [Next]_vars
    PROVE  /\ Latest' \in Nat /\ Latest <= Latest'
           /\ \A n \in 1..Latest : events'[n] = events[n]
           /\ \A n \in 1..Latest' : n \notin 1..Latest => items[events'[n].q] # NoItem
           /\ \A e : Known(e) => Known(e)'
<1>0. events \in Seq(EventSet)
  BY DEF TypeOK
<1>1. CASE events' = events
  BY <1>0, <1>1 DEF Latest, Known
<1>2. CASE \E e \in EventSet : events' = Append(events, e) /\ items[e.q] # NoItem
  <2>1. PICK e \in EventSet : events' = Append(events, e) /\ items[e.q] # NoItem
    BY <1>2
  <2>2. /\ Len(events') = Len(events) + 1 /\ events'[Len(events) + 1] = e
        /\ \A n \in 1..Len(events) : events'[n] = events[n]
        /\ Len(events) \in Nat
        /\ DOMAIN events = 1..Len(events) /\ DOMAIN events' = 1..Len(events')
    BY <1>0, <2>1
  <2> QED BY <2>1, <2>2 DEF Latest, Known
<1> QED BY <1>1, <1>2, EventsStep

\* A result that is recorded stays recorded.
LEMMA ResultsStay ==
    ASSUME TypeOK, Agreement, [Next]_vars, NEW p \in Asked, results[p] # "none"
    PROVE  results'[p] # "none"
<1>1. CASE results' = results
  BY <1>1
<1>2. CASE Return
  <2>1. call.q \in Asked /\ (items[call.q].state = "resolved" => items[call.q].answer \in Answers)
    BY ZenonT(30), <1>2 DEF Return, TypeOK, Agreement
  <2> QED BY <1>2, <2>1, InteractionsAssumption DEF Return, TypeOK, InteractionsAssumption
<1>3. results' = results \/ Return
  BY Zenon DEF vars, durable, Next, Request, Create, EmitRequested, Wait, Select, CancelGet,
         CancelPending, EmitCancelled, Process, Connected, Disconnect
<1> QED BY <1>1, <1>2, <1>3

\* At most one question is pending.
LEMMA OnePending ==
    ASSUME TypeOK, Agreement, Announced, NEW p \in Asked, NEW q \in Asked, Pending(p), Pending(q)
    PROVE  p = q
<1>1. results[p] = "none" /\ results[q] = "none"
  BY DEF TypeOK, Agreement, Has, Pending
<1>2. items[p] # NoItem /\ items[q] # NoItem
  BY DEF Pending, NoItem
<1>3. p \notin 1..q - 1 /\ q \notin 1..p - 1
  BY <1>1, <1>2 DEF Announced
<1> QED BY <1>3, InteractionsAssumption DEF Asked, InteractionsAssumption

\* A new question is stored when those before it have their results.
LEMMA NewItem ==
    ASSUME TypeOK, [Next]_vars, NEW q \in Asked, items[q] = NoItem, items'[q] # NoItem,
           NEW p \in 1..q - 1
    PROVE  results'[p] # "none"
<1>1. CASE Create
  BY <1>1 DEF Create, Created, TypeOK
<1>2. ASSUME NEW r \in Asked, NEW st, NEW a, Pending(r), items' = Closed(r, st, a)
      PROVE  FALSE
  BY <1>2 DEF Pending, NoItem, Closed, TypeOK
<1>3. CASE CancelPending
  BY <1>2, <1>3 DEF CancelPending, OpenAt, TypeOK
<1>4. CASE \E v \in Views : Resolve(v)
  BY <1>2, <1>4 DEF Resolve, OpenAt, TypeOK
<1> QED BY <1>1, <1>3, <1>4, ItemsChange

\* A step ends the call, starts it, announces its question or moves it on.
CallStep ==
    \/ call'.pc = "none" \/ Create \/ EmitRequested
    \/ /\ call.pc # "none" /\ call'.q = call.q
       /\ call'.pc \in {"wait", "blocked"} => call.pc \in {"wait", "blocked"}
       /\ ~ call'.cancelled => ~ call.cancelled

\* Every step is of this kind.
LEMMA CallSteps ==
    ASSUME TypeOK, [Next]_vars
    PROVE  CallStep
<1>0. call \in CallSet
  BY DEF TypeOK
<1>1. CASE call' = call
  BY <1>1 DEF CallStep
<1>2. CASE Wait \/ Select
  BY Zenon, <1>0, <1>2 DEF Wait, Select, Goto, CallSet, CallStep
<1>3. CASE CancelGet \/ CancelPending
  <2>1. CASE call' = NoCall
    BY <2>1 DEF NoCall, CallStep
  <2>2. CASE call' = [call EXCEPT !.pc = "cancel", !.rev = items[call.q].rev]
    BY <1>0, <1>3, <2>2 DEF CancelGet, CancelPending, CallSet, CallStep
  <2>3. CASE call' = [call EXCEPT !.pc = "cancelled"]
    BY <1>0, <1>3, <2>3 DEF CancelGet, CancelPending, CallSet, CallStep
  <2> QED BY <1>3, <2>1, <2>2, <2>3 DEF CancelGet, CancelPending, Goto
<1>4. CASE EmitCancelled \/ Return \/ Exit
  BY SMT, SMTT(30), <1>4 DEF EmitCancelled, Return, Exit, NoCall, CallStep
<1>5. CASE CancelExecution \/ CancelUnhosted \/ Close
  <2>1. call' = [call EXCEPT !.cancelled = call # NoCall]
    BY <1>5 DEF CancelExecution, CancelUnhosted, Close
  <2> QED BY <1>0, <2>1 DEF CallSet, CallStep, NoCall
<1>6. CASE \E v \in Views : Resolve(v)
  <2>1. call' = call \/ call' = Signal(call)
    BY <1>6 DEF Resolve
  <2> QED BY <1>0, <1>1, <2>1 DEF Signal, CallSet, CallStep
<1>7. CASE \E v \in Views : (Connected(v) \/ Disconnect(v)) /\ ~ Resolve(v)
  BY Zenon, <1>1, <1>7 DEF Connected, Disconnect, Attach, Hydrate, Follow, WaitEvents, Reply,
                    EmitResolved, Told, Detach
<1>8. CASE Request
  BY <1>2, <1>3, <1>4, <1>8 DEF Request, CallStep
<1>9. CASE Process
  BY <1>1, <1>4, <1>5, <1>9 DEF Process, Unwind, Restart
<1> QED BY <1>1, <1>6, <1>7, <1>8, <1>9 DEF Next, vars

\* The call announces the question it waits for.
LEMMA CallAnnounced ==
    ASSUME TypeOK, Agreement, Announced, [Next]_vars
    PROVE  /\ call'.pc # "none" => items'[call'.q] # NoItem
           /\ call'.pc \in {"wait", "blocked"} /\ ~ call'.cancelled /\ Pending(call.q)'
                 => Known(Event("requested", call.q, 1))'
<1>1. CASE Create
  <2>1. PICK q \in Asked :
          /\ items' = Created(q)
          /\ call' = [NoCall EXCEPT !.pc = IF items'[q].state = "pending" THEN "emit" ELSE "wait",
                                    !.q = q]
    BY Zenon, <1>1 DEF Create
  <2>2. call'.q = q /\ call'.pc = IF items'[q].state = "pending" THEN "emit" ELSE "wait"
    BY <2>1 DEF NoCall
  <2>3. items'[q] # NoItem
    BY <2>1 DEF Created, NoItem, TypeOK
  <2> QED BY ZenonT(30), <2>2, <2>3 DEF Pending
<1>2. CASE EmitRequested
  <2>1. call'.q = call.q /\ call'.cancelled = call.cancelled /\ items' = items
    BY <1>2 DEF EmitRequested, Goto, TypeOK, CallSet
  <2>2. items[call.q] # NoItem
    BY <1>2 DEF EmitRequested, Announced
  <2> DEFINE e == Event("requested", call.q, 1)
  <2>3. ASSUME ~ call.cancelled PROVE Known(e)'
    <3>1. events' = Appended(e) /\ events \in Seq(EventSet) /\ e' = e
      BY Zenon, <1>2, <2>1, <2>3 DEF EmitRequested, TypeOK, Event
    <3> HIDE DEF e
    <3>2. CASE Known(e)
      BY <3>1, <3>2 DEF Appended, Known
    <3>3. CASE ~ Known(e)
      <4>1. events' = Append(events, e)
        BY <3>1, <3>3 DEF Appended
      <4>2. Len(events) + 1 \in DOMAIN events' /\ events'[Len(events) + 1] = e
        BY <3>1, <4>1
      <4> QED BY <3>1, <4>2 DEF Known
    <3> QED BY <3>2, <3>3
  <2> QED BY <2>1, <2>2, <2>3
<1>3. CASE /\ call.pc # "none" /\ call'.q = call.q
           /\ call'.pc \in {"wait", "blocked"} => call.pc \in {"wait", "blocked"}
           /\ ~ call'.cancelled => ~ call.cancelled
  <2>1. call.q \in Asked /\ items[call.q] # NoItem
    BY Zenon, <1>3 DEF TypeOK, Announced
  <2>2. /\ items'[call.q] # NoItem
        /\ items'[call.q].state = "pending" => Pending(call.q)
    BY <2>1, ItemsKept DEF Pending
  <2>3. ASSUME call'.pc \in {"wait", "blocked"}, ~ call'.cancelled, Pending(call.q)'
        PROVE  Known(Event("requested", call.q, 1))'
    <3>1. Known(Event("requested", call.q, 1))
      BY Zenon, <1>3, <2>2, <2>3 DEF Announced, Pending
    <3> DEFINE e == Event("requested", call.q, 1)
    <3>2. e' = e
      BY <1>3 DEF Event
    <3> HIDE DEF e
    <3>3. \E n \in DOMAIN events' : events'[n] = e
      BY <3>1, EventsKept DEF e, Known
    <3> QED BY <3>2, <3>3 DEF e, Known
  <2> QED BY Zenon, <1>3, <2>2, <2>3
<1> QED BY <1>1, <1>2, <1>3, CallSteps DEF CallStep

\* A step leaves a view's cursor and prompts alone, or ends, opens, fills or
\* moves it.
ViewStep(w) ==
    \/ /\ view'[w].pc = view[w].pc /\ view'[w].after = view[w].after
       /\ view'[w].shown = view[w].shown
    \/ view'[w] = Detached
    \/ Attach(w) \/ Hydrate(w) \/ Follow(w)

\* Every step is of this kind.
LEMMA ViewSteps ==
    ASSUME TypeOK, [Next]_vars, NEW w \in Views
    PROVE  ViewStep(w)
<1>0. view[w] \in ViewSet /\ view[w].reply \in ReplySet /\ view \in [Views -> ViewSet]
  BY DEF TypeOK, ViewSet
<1>1. CASE view' = view
  BY <1>1 DEF ViewStep
<1>2. CASE Request
  <2>1. view' = view \/ \E e \in {Event("requested", call.q, 1),
                                  Event("cancelled", call.q, items[call.q].rev)} :
                           view' = Woken(e)
    BY Zenon, <1>2 DEF Request, Create, EmitRequested, Wait, Select, CancelGet, CancelPending,
                EmitCancelled, Return
  <2> QED BY ZenonT(30), <1>1, <2>1, WokenTypes DEF ViewStep
<1>3. CASE Process
  <2>1. view' = view \/ view' = [v \in Views |-> Detached]
    BY <1>3 DEF Process, CancelExecution, Unwind, CancelUnhosted, Close, Exit, Restart
  <2> QED BY <1>1, <2>1 DEF ViewStep
<1>4. ASSUME NEW v \in Views, EmitResolved(v) PROVE ViewStep(w)
  <2> DEFINE e == Event("resolved", view[v].reply.q, view[v].reply.rev + 1)
  <2>1. view' = [Woken(e) EXCEPT ![v].reply.pc = "answered"]
    BY <1>4 DEF EmitResolved
  <2> HIDE DEF e
  <2>2. Woken(e) \in [Views -> ViewSet]
    BY WokenTypes
  <2>3. /\ view'[w].pc = Woken(e)[w].pc /\ view'[w].after = Woken(e)[w].after
        /\ view'[w].shown = Woken(e)[w].shown
    BY <2>1, <2>2 DEF ViewSet
  <2> QED BY <2>3, WokenTypes DEF ViewStep
<1>5. ASSUME NEW v \in Views, Connected(v) \/ Disconnect(v), ~ EmitResolved(v), v # w
      PROVE  ViewStep(w)
  <2>1. view'[w] = view[w]
    BY Zenon, <1>5 DEF Connected, Disconnect, Attach, Hydrate, Follow, WaitEvents, Reply,
                Resolve, Told, Detach, TypeOK
  <2> QED BY <2>1 DEF ViewStep
<1>6. CASE WaitEvents(w) \/ Reply(w)
  BY <1>0, <1>6 DEF WaitEvents, Reply, ViewStep, ViewSet
<1>7. CASE Resolve(w) \/ Told(w)
  BY <1>0, <1>7 DEF Resolve, Told, ViewStep, ViewSet
<1>8. CASE Detach(w)
  BY <1>0, <1>8 DEF Detach, ViewStep
<1>9. CASE Connected(w) \/ Disconnect(w)
  BY Zenon, <1>4, <1>6, <1>7, <1>8, <1>9 DEF Connected, Disconnect, ViewStep
<1> QED BY <1>1, <1>2, <1>3, <1>4, <1>5, <1>9 DEF Next, vars

\* What is pending of the announced questions up to the cursor of a view.
ShownTo(w) ==
    \A n \in 1..view[w].after :
       events[n].name = "requested" /\ Pending(events[n].q) => events[n].q \in view[w].shown

\* A view has shown what is pending of what it has read.
LEMMA ViewsShow ==
    ASSUME TypeOK, Agreement, Announced, [Next]_vars, NEW w \in Views
    PROVE  /\ view'[w].pc # "detached" => view'[w].after <= Latest'
           /\ view'[w].pc = "live" => ShownTo(w)'
<1>0. /\ view[w] \in ViewSet /\ view[w].after \in Nat /\ Latest \in Nat
      /\ view[w].pc # "detached" => view[w].after <= Latest
      /\ view[w].pc = "live" => ShownTo(w)
      /\ \A n \in 1..Latest : events[n] \in EventSet /\ events[n].q \in Asked
                              /\ items[events[n].q] # NoItem
  <2>1. view[w] \in ViewSet /\ view[w].after \in Nat
    BY DEF TypeOK, ViewSet
  <2>2. Latest \in Nat /\ DOMAIN events = 1..Latest /\ \A n \in 1..Latest : events[n] \in EventSet
    BY DEF TypeOK, Latest
  <2>3. \A n \in 1..Latest : events[n].q \in Asked
    BY <2>2 DEF EventSet
  <2> QED BY <2>1, <2>2, <2>3 DEF Announced, ShownTo
<1>1. CASE /\ view'[w].pc = view[w].pc /\ view'[w].after = view[w].after
           /\ view'[w].shown = view[w].shown
  <2>1. view'[w].pc # "detached" => view'[w].after <= Latest'
    BY <1>0, <1>1, EventsKept
  <2>2. ASSUME view'[w].pc = "live", NEW n \in 1..view'[w].after,
               events'[n].name = "requested", Pending(events[n].q)'
        PROVE  events'[n].q \in view'[w].shown
    <3>1. n \in 1..Latest /\ events'[n] = events[n] /\ n \in 1..view[w].after
      BY SMT, SMTT(30), <1>0, <1>1, <2>2, EventsKept
    <3>2. events[n].q \in Asked /\ items[events[n].q] # NoItem
      BY Zenon, <1>0, <3>1
    <3>3. items'[events[n].q].state = "pending"
      BY Zenon, <2>2, <3>1 DEF Pending
    <3>4. Pending(events[n].q)
      BY <3>2, <3>3, ItemsKept DEF Pending
    <3> QED BY Zenon, <1>0, <1>1, <2>2, <3>1, <3>4 DEF ShownTo
  <2> QED BY <2>1, <2>2 DEF ShownTo, Pending
<1>2. CASE view'[w] = Detached
  BY <1>2 DEF Detached
<1>3. CASE Attach(w)
  <2>1. view'[w].pc = "open" /\ view'[w].after = Latest /\ events' = events
    BY <1>3 DEF Attach, Detached, TypeOK
  <2> QED BY <1>0, <2>1 DEF Latest
<1>4. CASE Hydrate(w)
  <2> DEFINE r == [view[w] EXCEPT !.pc = "live"]
  <2>1. r \in ViewSet /\ r.after = view[w].after
    BY <1>0 DEF ViewSet
  <2>2. items' = items /\ events' = events /\ view[w].pc = "open"
    BY <1>4 DEF Hydrate
  <2>3. \/ LatestPending = {} /\ view'[w] = r
        \/ \E q \in LatestPending : view'[w] = Show(r, q, items[q].rev)
    BY <1>4 DEF Hydrate, TypeOK
  <2> HIDE DEF r
  <2>4. \A q \in LatestPending : q \in Asked /\ items[q].rev \in Nat
    BY Zenon DEF LatestPending, TypeOK, ItemSet
  <2>5. view'[w].after = view[w].after /\ (LatestPending # {} => \E q \in LatestPending : q \in view'[w].shown)
    BY <2>1, <2>3, <2>4, ShowTypes
  <2>6. ASSUME NEW q \in Asked, Pending(q) PROVE q \in view'[w].shown
    <3>1. \A p \in Asked : Pending(p) => p = q
      BY <2>6, OnePending
    <3>2. q \in LatestPending
      BY <2>6, <3>1, InteractionsAssumption DEF LatestPending, Asked, InteractionsAssumption
    <3>3. PICK p \in LatestPending : p \in view'[w].shown
      BY <2>5, <3>2
    <3>4. p = q
      BY <3>1, <3>3 DEF LatestPending
    <3> QED BY <3>3, <3>4
  <2>7. view'[w].after <= Latest'
    BY Zenon, <1>0, <2>2, <2>5 DEF Latest
  <2>8. ASSUME NEW n \in 1..view'[w].after, Pending(events[n].q)'
        PROVE  events'[n].q \in view'[w].shown
    <3>1. n \in 1..Latest
      BY <1>0, <2>2, <2>5, <2>8
    <3>2. events[n].q \in Asked /\ Pending(events[n].q)
      BY <1>0, <2>2, <2>8, <3>1 DEF Pending
    <3> QED BY Zenon, <2>2, <2>6, <3>2
  <2> QED BY <2>7, <2>8 DEF ShownTo, Pending
<1>5. CASE Follow(w)
  <2> DEFINE r == [view[w] EXCEPT !.after = @ + 1]
             e == events[view[w].after + 1]
  <2>1. /\ items' = items /\ events' = events /\ view[w].pc = "live"
        /\ view[w].after < Latest /\ view'[w] = Translated(r, e)
    BY <1>5 DEF Follow, TypeOK
  <2>2. view[w].after + 1 \in 1..Latest
    BY <1>0, <2>1
  <2>3. e \in EventSet /\ e.q \in Asked /\ e.rev \in Nat
    BY <1>0, <2>2 DEF EventSet
  <2>4. r \in ViewSet /\ r.after = view[w].after + 1 /\ r.shown = view[w].shown
    BY <1>0 DEF ViewSet
  <2> HIDE DEF r
  <2>5. /\ view'[w].after = view[w].after + 1 /\ view[w].shown \subseteq view'[w].shown
        /\ e.name = "requested" => e.q \in view'[w].shown
    <3>1. CASE e.name = "requested"
      BY SMT, SMTT(30), <2>1, <2>3, <2>4, <3>1, ShowTypes DEF Translated
    <3>2. CASE e.name # "requested"
      BY <2>1, <2>4, <3>2 DEF Translated, ViewSet
    <3> QED BY Zenon, <3>1, <3>2
  <2>6. view'[w].after <= Latest'
    BY SMT, SMTT(30), <1>0, <2>1, <2>5 DEF Latest
  <2>7. ASSUME NEW n \in 1..view'[w].after, events'[n].name = "requested", Pending(events[n].q)'
        PROVE  events'[n].q \in view'[w].shown
    <3>1. Pending(events[n].q) /\ events[n].name = "requested"
      BY Zenon, <2>1, <2>7 DEF Pending
    <3>2. CASE n \in 1..view[w].after
      BY Zenon, <1>0, <2>1, <2>5, <3>1, <3>2 DEF ShownTo
    <3>3. CASE n \notin 1..view[w].after
      <4>1. n = view[w].after + 1
        BY SMT, SMTT(30), <1>0, <2>5, <2>7, <3>3
      <4> QED BY Zenon, <2>1, <2>5, <3>1, <4>1
    <3> QED BY <3>2, <3>3
  <2> QED BY <2>6, <2>7 DEF ShownTo, Pending
<1> QED BY Zenon, <1>1, <1>2, <1>3, <1>4, <1>5, ViewSteps DEF ViewStep

\* Every step keeps the announcements.
LEMMA AnnouncedKept == TypeOK /\ Agreement /\ Announced /\ [Next]_vars => Announced'
<1> SUFFICES ASSUME TypeOK, Agreement, Announced, [Next]_vars PROVE Announced'
  OBVIOUS
<1>1. ASSUME NEW q \in Asked, items'[q] # NoItem, NEW p \in 1..q - 1
      PROVE  results'[p] # "none"
  <2>1. p \in Asked
    BY InteractionsAssumption DEF Asked, InteractionsAssumption
  <2>2. CASE items[q] = NoItem
    BY <1>1, <2>2, NewItem
  <2>3. CASE items[q] # NoItem
    BY <2>1, <2>3, ResultsStay DEF Announced
  <2> QED BY <2>2, <2>3
<1>2. ASSUME NEW n \in DOMAIN events' PROVE items'[events'[n].q] # NoItem
  <2>1. events' \in Seq(EventSet) /\ events \in Seq(EventSet)
    BY Zenon, TypesKept DEF TypeOK
  <2>2. n \in 1..Latest' /\ events'[n].q \in Asked
    <3>1. n \in 1..Latest' /\ events'[n] \in EventSet
      BY <1>2, <2>1 DEF Latest
    <3> QED BY <3>1 DEF EventSet
  <2>3. items[events'[n].q] # NoItem
    <3>1. CASE n \in 1..Latest
      BY SMT, SMTT(30), <2>1, <3>1, EventsKept DEF Announced, Latest
    <3>2. CASE n \notin 1..Latest
      BY <2>2, <3>2, EventsKept
    <3> QED BY <3>1, <3>2
  <2> QED BY <2>2, <2>3, ItemsKept
<1>3. /\ call'.pc # "none" => items'[call'.q] # NoItem
      /\ call'.pc \in {"wait", "blocked"} /\ ~ call'.cancelled /\ Pending(call.q)'
            => Known(Event("requested", call.q, 1))'
  BY CallAnnounced
<1>4. \A w \in Views : /\ view'[w].pc # "detached" => view'[w].after <= Latest'
                       /\ view'[w].pc = "live" => ShownTo(w)'
  BY ViewsShow
<1> QED BY Zenon, <1>1, <1>2, <1>3, <1>4 DEF Announced, ShownTo, NoItem

\* A view that has read every event has shown the question a call waits for
\* (newGatewayTUIBinding, forwardViewEvents), for any number of views,
\* questions, crashes and cancellations.
THEOREM QuestionsShown == Spec => []QuestionShown
<1> DEFINE Inv == TypeOK /\ Agreement /\ Announced
<1>1. Init => Inv
  BY InitTypes, InitAgreement, InitAnnounced
<1>2. Inv /\ [Next]_vars => Inv'
  BY TypesKept, AgreementKept, AnnouncedKept
<1>3. Inv => QuestionShown
  BY AnnouncedShows
<1> QED BY <1>1, <1>2, <1>3, PTL DEF Spec

=============================================================================
