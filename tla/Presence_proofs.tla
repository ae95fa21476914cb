--------------------------- MODULE Presence_proofs ---------------------------
(***************************************************************************)
(* Proofs about Presence, for every number of requests and servers: a      *)
(* client that the log calls present is always watched by something.       *)
(***************************************************************************)
EXTENDS Presence, TLAPS

\* Labels from which a request or handler sets a key or writes INACTIVE, or
\* finds that there is an active key.
Watching == {"activity_get", "activity_write", "activity_set", "passivity_del",
             "passivity_write", "passivity_set", "inactivity_write",
             "active_write", "active_del", "active_set",
             "passive_exists", "passive_write", "maybe_write"}

\* A notification that will start a handler, or find one that watches.
Heard ==
    \E s \in Servers, k \in {"active", "passive"} :
        /\ <<s, k>> \in pending
        /\ \A t \in Servers : pc[<<t, k>>] # "passive_del"

\* An active or passive key is there to expire, or has expired and a server is
\* about to hear of it, or a request or handler is at work.  A countdown alone
\* is not enough: its handler does nothing without the passive key.
Watched ==
    \/ keys \cap {"active", "passive"} # {}
    \/ Heard
    \/ \E p \in Procs : pc[p] \in Watching

PresentIsWatched == Present /\ excused = {} => Watched

\* What the handler of each key may be doing.
HandlersFit ==
    \A s \in Servers :
        /\ pc[<<s, "active">>] \in {"idle", "active_write", "active_del", "active_set"}
        /\ pc[<<s, "passive">>] \in {"idle", "passive_exists", "passive_write",
                                     "passive_del"}
        /\ pc[<<s, "maybe">>] \in {"idle", "maybe_exists", "maybe_write", "maybe_del"}

IInv == TypeOK /\ HandlersFit /\ PresentIsWatched

-----------------------------------------------------------------------------
\* Typing.

LEMMA LabelFacts ==
    /\ "idle" \in Labels /\ "activity_get" \in Labels
    /\ "activity_write" \in Labels /\ "activity_set" \in Labels
    /\ "passivity_del" \in Labels /\ "passivity_write" \in Labels
    /\ "passivity_set" \in Labels /\ "countdown_passive" \in Labels
    /\ "countdown_set" \in Labels /\ "inactivity_write" \in Labels
    /\ "active_write" \in Labels /\ "active_del" \in Labels
    /\ "active_set" \in Labels /\ "passive_exists" \in Labels
    /\ "passive_write" \in Labels /\ "passive_del" \in Labels
    /\ "maybe_exists" \in Labels /\ "maybe_write" \in Labels
    /\ "maybe_del" \in Labels
BY DEF Labels

LEMMA GotoTyped ==
    ASSUME TypeOK, NEW p \in Procs, NEW label \in Labels, Goto(p, label)
    PROVE  pc' \in [Procs -> Labels] /\ pc'[p] = label
           /\ \A q \in Procs : q # p => pc'[q] = pc[q]
BY DEF TypeOK, Goto

\* A request that starts.
Begins(p) == Activity(p) \/ Passivity(p) \/ Countdown(p) \/ Inactivity(p)

LEMMA TypeStep == TypeOK /\ [Next]_vars => TypeOK'
<1> SUFFICES ASSUME TypeOK, [Next]_vars PROVE TypeOK'
  OBVIOUS
<1> USE LabelFacts, ConstantsOK DEF history
<1>1. ASSUME NEW p \in Requests, Begins(p) PROVE TypeOK'
  <2>1. p \in Procs
    BY DEF Procs
  <2>2. raced' \in BOOLEAN /\ keys' \subseteq Keys
    BY <1>1 DEF Begins, Activity, Passivity, Countdown, Inactivity, Arrive, TypeOK,
                Keys, Overlaps
  <2>3. pc' \in [Procs -> Labels]
    BY <1>1, <2>1, GotoTyped DEF Begins, Activity, Passivity, Countdown, Inactivity,
                                 Arrive
  <2>4. QED
    BY <1>1, <2>2, <2>3 DEF Begins, Activity, Passivity, Countdown, Inactivity, TypeOK
<1>2. ASSUME NEW p \in Requests, RequestStep(p) PROVE TypeOK'
  <2>1. p \in Procs
    BY DEF Procs
  <2>2. pc' \in [Procs -> Labels]
    BY <1>2, <2>1, GotoTyped DEF RequestStep, ActivityGet, ActivityWrite, ActivitySet,
       PassivityDel, PassivityWrite, PassivitySet, CountdownPassive, CountdownSet,
       InactivityWrite
  <2>3. QED
    BY <1>2, <2>2 DEF RequestStep, ActivityGet, ActivityWrite, ActivitySet,
       PassivityDel, PassivityWrite, PassivitySet, CountdownPassive, CountdownSet,
       InactivityWrite, TypeOK, Write, Actions, Keys
<1>3. ASSUME NEW h \in Handlers, Receive(h) PROVE TypeOK'
  <2>1. h \in Procs /\ h[2] \in Keys
    BY DEF Procs, Handlers
  <2>2. pc' \in [Procs -> Labels]
    BY <1>3, <2>1, GotoTyped DEF Receive, Keys, TypeOK
  <2>3. QED
    BY <1>3, <2>2 DEF Receive, TypeOK, Overlaps
<1>4. ASSUME NEW h \in Handlers, HandlerStep(h), ~Receive(h) PROVE TypeOK'
  <2>1. h \in Procs
    BY DEF Procs
  <2>2. pc' \in [Procs -> Labels]
    BY <1>4, <2>1, GotoTyped DEF HandlerStep, ActiveWrite, ActiveDel, ActiveSet,
       PassiveExists, PassiveWrite, PassiveDel, MaybeExists, MaybeWrite, MaybeDel
  <2>3. QED
    BY <1>4, <2>2 DEF HandlerStep, ActiveWrite, ActiveDel, ActiveSet,
       PassiveExists, PassiveWrite, PassiveDel, MaybeExists, MaybeWrite, MaybeDel,
       TypeOK, Write, Actions, Keys, Removes
<1>5. ASSUME NEW h \in Handlers, Lose(h) PROVE TypeOK'
  BY <1>5 DEF Lose, Fault, TypeOK
<1>6. ASSUME NEW p \in Procs, Fail(p) PROVE TypeOK'
  <2>1. pc' \in [Procs -> Labels]
    BY <1>6, GotoTyped DEF Fail
  <2>2. QED
    BY <1>6, <2>1 DEF Fail, Fault, TypeOK
<1>7. ASSUME NEW k \in Keys, Expire(k) PROVE TypeOK'
  BY <1>7 DEF Expire, TypeOK, Handlers
<1>8. CASE Leave
  BY <1>8 DEF Leave, TypeOK
<1>9. CASE UNCHANGED vars
  BY <1>9 DEF vars, TypeOK
<1>10. QED
  BY <1>1, <1>2, <1>3, <1>4, <1>5, <1>6, <1>7, <1>8, <1>9 DEF Next, Begins

-----------------------------------------------------------------------------
\* Handlers.

LEMMA HandlerOf ==
    ASSUME NEW h \in Handlers
    PROVE  /\ h \in Procs /\ h[1] \in Servers /\ h[2] \in Keys /\ h = <<h[1], h[2]>>
BY DEF Procs, Handlers

LEMMA ServerHandlers ==
    ASSUME NEW s \in Servers, NEW k \in Keys
    PROVE  <<s, k>> \in Handlers /\ <<s, k>> \in Procs /\ <<s, k>> \notin Requests
BY ConstantsOK DEF Procs, Handlers, ConstantsOK

\* The key of a handler that is not idle, by its label.
LEMMA KeyAt ==
    ASSUME HandlersFit, NEW h \in Handlers
    PROVE  /\ pc[h] \in {"active_write", "active_del", "active_set"} => h[2] = "active"
           /\ pc[h] \in {"passive_exists", "passive_write", "passive_del"}
                => h[2] = "passive"
           /\ pc[h] \in {"maybe_exists", "maybe_write", "maybe_del"} => h[2] = "maybe"
<1>1. h[1] \in Servers /\ h = <<h[1], h[2]>> /\ h[2] \in {"active", "passive", "maybe"}
  BY HandlerOf DEF Keys
<1>2. QED
  BY <1>1 DEF HandlersFit

LEMMA FitUnlessMoved ==
    ASSUME TypeOK, HandlersFit, NEW p \in Procs, NEW label, Goto(p, label),
           p \in Requests
    PROVE  HandlersFit'
BY ServerHandlers DEF Goto, TypeOK, HandlersFit, Keys

LEMMA FitMoved ==
    ASSUME TypeOK, HandlersFit, NEW h \in Handlers, NEW label, Goto(h, label),
           \/ label = "idle"
           \/ h[2] = "active" /\ label \in {"active_write", "active_del", "active_set"}
           \/ /\ h[2] = "passive"
              /\ label \in {"passive_exists", "passive_write", "passive_del"}
           \/ /\ h[2] = "maybe"
              /\ label \in {"maybe_exists", "maybe_write", "maybe_del"}
    PROVE  HandlersFit'
<1>1. h \in Procs /\ h = <<h[1], h[2]>>
  BY HandlerOf
<1>2. ASSUME NEW s \in Servers, NEW k \in Keys
      PROVE  pc'[<<s, k>>] = IF <<s, k>> = h THEN label ELSE pc[<<s, k>>]
  BY <1>1, <1>2, ServerHandlers DEF Goto, TypeOK
<1>3. ASSUME NEW s \in Servers, NEW k \in Keys, <<s, k>> = h PROVE k = h[2]
  BY <1>1, <1>3
<1>4. ASSUME NEW s \in Servers
      PROVE  pc'[<<s, "active">>] \in {"idle", "active_write", "active_del",
                                      "active_set"}
  BY <1>2, <1>3, "active" \in Keys DEF HandlersFit, Keys
<1>5. ASSUME NEW s \in Servers
      PROVE  pc'[<<s, "passive">>] \in {"idle", "passive_exists", "passive_write",
                                       "passive_del"}
  BY <1>2, <1>3, "passive" \in Keys DEF HandlersFit, Keys
<1>6. ASSUME NEW s \in Servers
      PROVE  pc'[<<s, "maybe">>] \in {"idle", "maybe_exists", "maybe_write",
                                     "maybe_del"}
  BY <1>2, <1>3, "maybe" \in Keys DEF HandlersFit, Keys
<1>7. QED
  BY <1>4, <1>5, <1>6 DEF HandlersFit

LEMMA FitStep == TypeOK /\ HandlersFit /\ [Next]_vars => HandlersFit'
<1> SUFFICES ASSUME TypeOK, HandlersFit, [Next]_vars PROVE HandlersFit'
  OBVIOUS
<1>1. ASSUME NEW p \in Requests, Begins(p) \/ RequestStep(p) PROVE HandlersFit'
  <2>1. p \in Procs
    BY DEF Procs
  <2>2. \E label : Goto(p, label)
    BY <1>1 DEF Begins, Activity, Passivity, Countdown, Inactivity, Arrive,
       RequestStep, ActivityGet, ActivityWrite, ActivitySet, PassivityDel,
       PassivityWrite, PassivitySet, CountdownPassive, CountdownSet,
       InactivityWrite
  <2>3. QED
    BY <2>1, <2>2, FitUnlessMoved
<1>2. ASSUME NEW h \in Handlers, Receive(h) PROVE HandlersFit'
  BY <1>2, HandlerOf, FitMoved DEF Receive, Keys, HandlersFit
<1>3. ASSUME NEW h \in Handlers, HandlerStep(h), ~Receive(h) PROVE HandlersFit'
  BY <1>3, KeyAt, FitMoved DEF HandlerStep, ActiveWrite, ActiveDel, ActiveSet,
     PassiveExists, PassiveWrite, PassiveDel, MaybeExists, MaybeWrite, MaybeDel, At
<1>4. ASSUME NEW p \in Procs, Fail(p) PROVE HandlersFit'
  BY <1>4, FitUnlessMoved, FitMoved DEF Fail, Procs
<1>5. CASE UNCHANGED pc
  BY <1>5 DEF HandlersFit
<1>6. QED
  BY <1>1, <1>2, <1>3, <1>4, <1>5
     DEF Next, Begins, Lose, Expire, Leave, vars

-----------------------------------------------------------------------------
\* Who watches.

\* A process that comes to a watching label watches.
LEMMA OwnWatch ==
    ASSUME NEW p \in Procs, NEW label \in Watching, TypeOK, Goto(p, label)
    PROVE  Watched'
BY DEF TypeOK, Goto, Watched

\* A step that removes neither the key nor the notification, nor moves the
\* process that watches, leaves it watched.
LEMMA StaysWatched ==
    ASSUME Watched, TypeOK, NEW p \in Procs, NEW label,
           keys \cap {"active", "passive"} \subseteq keys', pending \subseteq pending',
           Goto(p, label), label # "passive_del", pc[p] \notin Watching
    PROVE  Watched'
<1>1. \A q \in Procs : q # p => pc'[q] = pc[q]
  BY DEF TypeOK, Goto
<1>2. pc'[p] = label
  BY DEF TypeOK, Goto
<1>3. CASE keys \cap {"active", "passive"} # {}
  BY <1>3 DEF Watched
<1>4. CASE Heard
  <2>1. PICK s \in Servers, k \in {"active", "passive"} :
            /\ <<s, k>> \in pending
            /\ \A t \in Servers : pc[<<t, k>>] # "passive_del"
    BY <1>4 DEF Heard
  <2>2. \A t \in Servers : pc'[<<t, k>>] # "passive_del"
    BY <1>1, <1>2, <2>1, ServerHandlers DEF Keys
  <2>3. QED
    BY <2>1, <2>2 DEF Heard, Watched
<1>5. CASE \E q \in Procs : pc[q] \in Watching
  BY <1>1, <1>5 DEF Watched
<1>6. QED
  BY <1>3, <1>4, <1>5 DEF Watched

LEMMA StartWatched ==
    ASSUME IInv, NEW p \in Requests, Begins(p) PROVE PresentIsWatched'
<1> USE DEF IInv
<1>1. p \in Procs
  BY DEF Procs
<1>2. CASE Activity(p)
  BY <1>1, <1>2, OwnWatch DEF Activity, Arrive, Watching, PresentIsWatched
<1>3. CASE Passivity(p)
  BY <1>1, <1>3, OwnWatch DEF Passivity, Arrive, Watching, PresentIsWatched
<1>4. CASE Inactivity(p)
  BY <1>1, <1>4, OwnWatch DEF Inactivity, Arrive, Watching, PresentIsWatched
<1>5. CASE Countdown(p)
  <2>1. pc[p] \notin Watching
    BY <1>5 DEF Countdown, Arrive, At, Watching
  <2>2. Watched => Watched'
    BY <1>1, <1>5, <2>1, StaysWatched DEF Countdown, Arrive
  <2>3. QED
    BY <1>5, <2>2 DEF Countdown, PresentIsWatched, Present
<1>6. QED
  BY <1>2, <1>3, <1>4, <1>5 DEF Begins

LEMMA RequestWatched ==
    ASSUME IInv, NEW p \in Requests, RequestStep(p) PROVE PresentIsWatched'
<1> USE DEF IInv, history
<1>1. p \in Procs
  BY DEF Procs
<1>2. CASE ActivityGet(p) \/ ActivityWrite(p) \/ PassivityDel(p) \/ PassivityWrite(p)
  BY <1>1, <1>2, OwnWatch DEF ActivityGet, ActivityWrite, PassivityDel,
     PassivityWrite, Watching, PresentIsWatched
<1>3. CASE ActivitySet(p) \/ PassivitySet(p)
  BY <1>3 DEF ActivitySet, PassivitySet, PresentIsWatched, Watched
<1>4. CASE InactivityWrite(p)
  BY <1>4 DEF InactivityWrite, Write, PresentIsWatched, Present
<1>5. CASE CountdownPassive(p) \/ CountdownSet(p)
  <2>1. pc[p] \notin Watching
    BY <1>5 DEF CountdownPassive, CountdownSet, At, Watching
  <2>2. Watched => Watched'
    BY <1>1, <1>5, <2>1, StaysWatched DEF CountdownPassive, CountdownSet
  <2>3. QED
    BY <1>5, <2>2 DEF CountdownPassive, CountdownSet, PresentIsWatched, Present
<1>6. QED
  BY <1>2, <1>3, <1>4, <1>5 DEF RequestStep

\* The handler that a notification starts watches in its place; one that is
\* ignored has another server's handler of the same key beside it.
LEMMA ReceiveWatched ==
    ASSUME IInv, NEW h \in Handlers, Receive(h) PROVE PresentIsWatched'
<1> USE DEF IInv
<1>1. /\ h \in Procs /\ h[2] \in Keys /\ h = <<h[1], h[2]>> /\ h[1] \in Servers
      /\ pc[h] \notin Watching
  BY HandlerOf DEF Receive, At, Watching
<1>2. keys' = keys /\ pending' = pending \ {h} /\ UNCHANGED <<last, excused>>
  BY DEF Receive
<1>3. CASE UNCHANGED pc /\ \E s \in Servers : ~At(<<s, h[2]>>, "idle")
  <2>1. SUFFICES ASSUME Watched PROVE Watched'
    BY <1>2 DEF PresentIsWatched, Present
  <2>2. CASE keys \cap {"active", "passive"} # {} \/ \E p \in Procs : pc[p] \in Watching
    BY <1>2, <1>3, <2>2 DEF Watched
  <2>3. CASE Heard
    <3>1. PICK s \in Servers, k \in {"active", "passive"} :
              /\ <<s, k>> \in pending
              /\ \A t \in Servers : pc[<<t, k>>] # "passive_del"
      BY <2>3 DEF Heard
    <3>2. CASE <<s, k>> # h
      BY <1>2, <1>3, <3>1, <3>2 DEF Heard, Watched
    <3>3. CASE <<s, k>> = h
      <4>1. PICK t \in Servers : pc[<<t, k>>] # "idle"
        BY <1>1, <1>3, <3>3 DEF At
      <4>2. pc[<<t, k>>] \in Watching
        BY <3>1, <4>1 DEF HandlersFit, Watching
      <4>3. QED
        BY <1>3, <4>2, ServerHandlers DEF Watched, Keys
    <3>4. QED
      BY <3>2, <3>3
  <2>4. QED
    BY <2>1, <2>2, <2>3 DEF Watched
<1>4. CASE Goto(h, "active_write") \/ Goto(h, "passive_exists")
  BY <1>1, <1>4, OwnWatch DEF Watching, PresentIsWatched
<1>5. CASE Goto(h, "maybe_exists") /\ h[2] = "maybe"
  <2>1. SUFFICES ASSUME Watched PROVE Watched'
    BY <1>2 DEF PresentIsWatched, Present
  <2>2. \A q \in Procs : q # h => pc'[q] = pc[q]
    BY <1>5 DEF Goto, TypeOK
  <2>3. CASE keys \cap {"active", "passive"} # {} \/ \E p \in Procs : pc[p] \in Watching
    BY <1>1, <1>2, <2>2, <2>3 DEF Watched
  <2>4. CASE Heard
    <3>1. PICK s \in Servers, k \in {"active", "passive"} :
              /\ <<s, k>> \in pending
              /\ \A t \in Servers : pc[<<t, k>>] # "passive_del"
      BY <2>4 DEF Heard
    <3>2. \A t \in Servers : <<t, k>> # h /\ <<t, k>> \in Procs
      <4>1. k # h[2] /\ k \in Keys
        BY <1>5, <3>1 DEF Keys
      <4>2. \A t \in Servers : <<t, k>> # <<h[1], h[2]>>
        BY <4>1
      <4>3. QED
        BY <1>1, <4>1, <4>2, ServerHandlers
    <3>3. \A t \in Servers : pc'[<<t, k>>] # "passive_del"
      BY <2>2, <3>1, <3>2
    <3>4. QED
      BY <1>2, <3>1, <3>2, <3>3 DEF Heard, Watched
  <2>5. QED
    BY <2>1, <2>3, <2>4 DEF Watched
<1>6. QED
  BY <1>1, <1>3, <1>4, <1>5 DEF Receive, Keys

\* INACTIVE is written before a handler deletes keys, so it deletes a key of a
\* client that is present only if the key was set in between.
LEMMA HandlerWatched ==
    ASSUME IInv, NEW h \in Handlers, HandlerStep(h), ~Receive(h)
    PROVE  PresentIsWatched'
<1> USE DEF IInv, history
<1>1. h \in Procs
  BY HandlerOf
<1>2. CASE ActiveWrite(h) \/ ActiveDel(h)
  BY <1>1, <1>2, OwnWatch DEF ActiveWrite, ActiveDel, Watching, PresentIsWatched
<1>3. CASE ActiveSet(h)
  BY <1>3 DEF ActiveSet, PresentIsWatched, Watched
<1>4. CASE PassiveExists(h)
  <2>1. CASE "active" \in keys
    BY <1>4, <2>1 DEF PassiveExists, PresentIsWatched, Watched
  <2>2. CASE "active" \notin keys
    BY <1>1, <1>4, <2>2, OwnWatch DEF PassiveExists, Watching, PresentIsWatched
  <2>3. QED
    BY <2>1, <2>2
<1>5. CASE PassiveWrite(h) \/ MaybeWrite(h)
  BY <1>5 DEF PassiveWrite, MaybeWrite, Write, PresentIsWatched, Present
<1>6. CASE PassiveDel(h) \/ MaybeDel(h)
  <2>1. pc[h] \notin Watching /\ Goto(h, "idle") /\ UNCHANGED <<pending, last>>
    BY <1>6 DEF PassiveDel, MaybeDel, At, Watching
  <2>2. ASSUME Present', excused' = {} PROVE keys' = keys /\ excused = {}
    BY <1>6, <2>1, <2>2 DEF PassiveDel, MaybeDel, Removes, Present
  <2>3. ASSUME Present', excused' = {} PROVE Watched'
    BY <1>1, <2>1, <2>2, <2>3, StaysWatched DEF PresentIsWatched, Present
  <2>4. QED
    BY <2>3 DEF PresentIsWatched
<1>7. CASE MaybeExists(h)
  <2>1. CASE "passive" \in keys
    BY <1>1, <1>7, <2>1, OwnWatch DEF MaybeExists, Watching, PresentIsWatched
  <2>2. CASE "passive" \notin keys
    <3>1. pc[h] \notin Watching /\ Goto(h, "idle")
          /\ UNCHANGED <<keys, pending, last, excused>>
      BY <1>7, <2>2 DEF MaybeExists, At, Watching
    <3>2. Watched => Watched'
      BY <1>1, <3>1, StaysWatched
    <3>3. QED
      BY <3>1, <3>2 DEF PresentIsWatched, Present
  <2>3. QED
    BY <2>1, <2>2
<1>8. QED
  BY <1>2, <1>3, <1>4, <1>5, <1>6, <1>7 DEF HandlerStep

\* The servers are told of an expiration while no handler of the key is at work.
LEMMA ExpireWatched ==
    ASSUME IInv, NEW k \in Keys, Expire(k) PROVE PresentIsWatched'
<1> USE DEF IInv
<1>1. CASE k \in {"active", "passive"}
  <2>1. PICK s \in Servers : TRUE
    BY ConstantsOK DEF ConstantsOK
  <2>2. <<s, k>> \in pending' /\ \A t \in Servers : pc'[<<t, k>>] # "passive_del"
    BY <2>1 DEF Expire, At
  <2>3. QED
    BY <1>1, <2>2 DEF Heard, Watched, PresentIsWatched
<1>2. CASE k = "maybe"
  <2>1. /\ keys' = keys \ {"maybe"} /\ pending \subseteq pending'
        /\ UNCHANGED <<pc, last, excused>>
    BY <1>2 DEF Expire
  <2>2. Watched => Watched'
    BY <2>1 DEF Watched, Heard
  <2>3. QED
    BY <2>1, <2>2 DEF PresentIsWatched, Present
<1>3. QED
  BY <1>1, <1>2 DEF Keys

-----------------------------------------------------------------------------
\* One request or expiration after the other.

\* What the log and the keys say of each other while nothing is at work.
Agree ==
    /\ "active" \in keys => keys = {"active"} /\ last = "ACTIVE"
    /\ "passive" \in keys => last = "PASSIVE"
    /\ "maybe" \in keys => "passive" \in keys
    /\ keys = {} => ~Present

\* The same in the middle of the only request or handler at work.
Fits(label) ==
    /\ label = "idle" => Agree
    /\ label = "activity_get" =>
          keys \subseteq {"active"} /\ ("active" \in keys => last = "ACTIVE")
    /\ label = "activity_set" => keys \subseteq {"active"} /\ last = "ACTIVE"
    /\ label \in {"activity_write", "passivity_write", "inactivity_write",
                  "active_write"} => keys = {}
    /\ label = "passivity_del" => keys = {"active"}
    /\ label \in {"passivity_set", "active_del", "active_set"} =>
          keys = {} /\ last = "PASSIVE"
    /\ label = "countdown_passive" => Agree /\ "maybe" \notin keys
    /\ label = "countdown_set" => keys = {"passive"} /\ last = "PASSIVE"
    /\ label \in {"passive_exists", "passive_write"} => keys \subseteq {"maybe"}
    /\ label = "passive_del" => keys \subseteq {"maybe"} /\ last = "INACTIVE"
    /\ label \in {"maybe_exists", "maybe_write"} => keys = {"passive"} /\ last = "PASSIVE"
    /\ label = "maybe_del" => keys = {"passive"} /\ last = "INACTIVE"

\* Only p is at work, or nothing is.
OnlyAt(p) == pending = {} /\ (\A q \in Procs : q # p => pc[q] = "idle") /\ Fits(pc[p])

\* The servers have not heard yet that k has expired.
Expired(k) ==
    /\ pending \subseteq Servers \X {k} /\ \A q \in Procs : pc[q] = "idle"
    /\ k = "active" => keys = {}
    /\ k = "passive" => keys \subseteq {"maybe"}
    /\ k = "maybe" => keys = {"passive"} /\ last = "PASSIVE"

InOrder ==
    ~raced => (\E p \in Procs : OnlyAt(p)) \/ (\E k \in Keys : Expired(k) /\ pending # {})

\* What is at work is the only one at work.
LEMMA AtWork ==
    ASSUME InOrder, ~raced, NEW p \in Procs, pc[p] # "idle"
    PROVE  OnlyAt(p)
<1>1. PICK q \in Procs : OnlyAt(q)
  BY DEF InOrder, Expired
<1>2. q = p
  BY <1>1 DEF OnlyAt
<1>3. QED
  BY <1>1, <1>2

\* It goes on with a step that fits.
LEMMA GoesOn ==
    ASSUME TypeOK, NEW p \in Procs, NEW label, Goto(p, label), Fits(label)',
           pending' = {}, \A q \in Procs : q # p => pc[q] = "idle"
    PROVE  InOrder'
<1>1. pc'[p] = label /\ \A q \in Procs : q # p => pc'[q] = "idle"
  BY DEF TypeOK, Goto
<1>2. OnlyAt(p)'
  <2>1. Fits(pc[p])'
    BY <1>1 DEF Fits, Agree, Present
  <2>2. QED
    BY <1>1, <2>1 DEF OnlyAt
<1>3. QED
  BY <1>2 DEF InOrder

\* A request starts in order only when nothing else is going on.
LEMMA StartInOrder ==
    ASSUME TypeOK, InOrder, NEW p \in Requests, Begins(p) PROVE InOrder'
<1> SUFFICES ASSUME ~raced' PROVE InOrder'
  BY DEF InOrder
<1>1. p \in Procs /\ p \notin Handlers
  BY ConstantsOK DEF Procs, ConstantsOK
<1>2. /\ ~raced /\ pending = {} /\ pending' = {} /\ UNCHANGED last
      /\ \A q \in Procs : pc[q] = "idle"
  BY <1>1 DEF Begins, Activity, Passivity, Countdown, Inactivity, Arrive, Overlaps,
              At, TypeOK
<1>3. Agree
  BY <1>2 DEF InOrder, OnlyAt, Fits
<1>4. CASE Activity(p)
  BY <1>1, <1>2, <1>3, <1>4, GoesOn
     DEF Activity, Arrive, Fits, Agree, Present, TypeOK, Keys
<1>5. CASE Passivity(p)
  BY <1>1, <1>2, <1>3, <1>5, GoesOn DEF Passivity, Arrive, Fits, Agree, Present
<1>6. CASE Countdown(p)
  BY <1>1, <1>2, <1>3, <1>6, GoesOn DEF Countdown, Arrive, Fits, Agree, Present
<1>7. CASE Inactivity(p)
  BY <1>1, <1>2, <1>3, <1>7, GoesOn DEF Inactivity, Arrive, Fits, Agree, Present
<1>8. QED
  BY <1>4, <1>5, <1>6, <1>7 DEF Begins

LEMMA RequestInOrder ==
    ASSUME TypeOK, InOrder, NEW p \in Requests, RequestStep(p) PROVE InOrder'
<1> SUFFICES ASSUME ~raced' PROVE InOrder'
  BY DEF InOrder
<1> USE DEF history, At
<1>1. p \in Procs /\ ~raced /\ pc[p] # "idle" /\ pending' = pending
  BY DEF Procs, RequestStep, ActivityGet, ActivityWrite, ActivitySet,
     PassivityDel, PassivityWrite, PassivitySet, CountdownPassive, CountdownSet,
     InactivityWrite
<1>2. OnlyAt(p)
  BY <1>1, AtWork
<1>3. /\ pending' = {} /\ Fits(pc[p]) /\ keys \subseteq Keys
      /\ \A q \in Procs : q # p => pc[q] = "idle"
  BY <1>1, <1>2 DEF OnlyAt, TypeOK
<1> USE DEF Fits, Agree, Present, Write, Keys
<1>4. CASE ActivityGet(p)
  BY <1>1, <1>3, <1>4, GoesOn DEF ActivityGet
<1>5. CASE ActivityWrite(p)
  BY <1>1, <1>3, <1>5, GoesOn DEF ActivityWrite
<1>6. CASE ActivitySet(p)
  BY <1>1, <1>3, <1>6, GoesOn DEF ActivitySet
<1>7. CASE PassivityDel(p)
  BY <1>1, <1>3, <1>7, GoesOn DEF PassivityDel
<1>8. CASE PassivityWrite(p)
  BY <1>1, <1>3, <1>8, GoesOn DEF PassivityWrite
<1>9. CASE PassivitySet(p)
  BY <1>1, <1>3, <1>9, GoesOn DEF PassivitySet
<1>10. CASE CountdownPassive(p)
  BY <1>1, <1>3, <1>10, GoesOn DEF CountdownPassive
<1>11. CASE CountdownSet(p)
  BY <1>1, <1>3, <1>11, GoesOn DEF CountdownSet
<1>12. CASE InactivityWrite(p)
  BY <1>1, <1>3, <1>12, GoesOn DEF InactivityWrite
<1>13. QED
  BY <1>4, <1>5, <1>6, <1>7, <1>8, <1>9, <1>10, <1>11, <1>12 DEF RequestStep

\* A notification starts its handler when it is the only one.
LEMMA ReceiveInOrder ==
    ASSUME TypeOK, InOrder, NEW h \in Handlers, Receive(h) PROVE InOrder'
<1> SUFFICES ASSUME ~raced' PROVE InOrder'
  BY DEF InOrder
<1>1. /\ h \in Procs /\ h = <<h[1], h[2]>> /\ h[1] \in Servers /\ h[2] \in Keys
      /\ ~raced /\ pending = {h} /\ pending' = {} /\ UNCHANGED <<keys, last>>
  BY HandlerOf DEF Receive, Overlaps
<1>2. \A q \in Procs : q # h => pc[q] = "idle"
  BY DEF Receive, Overlaps
<1>3. PICK k \in Keys : Expired(k)
  BY <1>1 DEF InOrder, OnlyAt
<1>4. k = h[2]
  <2>1. h \in Servers \X {k}
    BY <1>1, <1>3 DEF Expired
  <2>2. QED
    BY <2>1
<1>5. \A s \in Servers : At(<<s, h[2]>>, "idle")
  BY <1>1, <1>3, ServerHandlers DEF Expired, At
<1>6. Goto(h, CASE h[2] = "active"  -> "active_write"
                [] h[2] = "passive" -> "passive_exists"
                [] h[2] = "maybe"   -> "maybe_exists")
  BY <1>5 DEF Receive
<1>7. CASE h[2] = "active"
  BY <1>1, <1>2, <1>3, <1>4, <1>6, <1>7, GoesOn DEF Expired, Fits
<1>8. CASE h[2] = "passive"
  BY <1>1, <1>2, <1>3, <1>4, <1>6, <1>8, GoesOn DEF Expired, Fits
<1>9. CASE h[2] = "maybe"
  BY <1>1, <1>2, <1>3, <1>4, <1>6, <1>9, GoesOn DEF Expired, Fits
<1>10. QED
  BY <1>1, <1>7, <1>8, <1>9 DEF Keys

LEMMA HandlerInOrder ==
    ASSUME TypeOK, InOrder, NEW h \in Handlers, HandlerStep(h), ~Receive(h)
    PROVE  InOrder'
<1> SUFFICES ASSUME ~raced' PROVE InOrder'
  BY DEF InOrder
<1> USE DEF history, At
<1>1. h \in Procs /\ ~raced /\ pc[h] # "idle" /\ pending' = pending
  BY HandlerOf DEF HandlerStep, ActiveWrite, ActiveDel, ActiveSet, PassiveExists,
     PassiveWrite, PassiveDel, MaybeExists, MaybeWrite, MaybeDel
<1>2. OnlyAt(h)
  BY <1>1, AtWork
<1>3. /\ pending' = {} /\ Fits(pc[h]) /\ keys \subseteq Keys
      /\ \A q \in Procs : q # h => pc[q] = "idle"
  BY <1>1, <1>2 DEF OnlyAt, TypeOK
<1> USE DEF Fits, Agree, Present, Write, Removes, Keys
<1>4. CASE ActiveWrite(h)
  BY <1>1, <1>3, <1>4, GoesOn DEF ActiveWrite
<1>5. CASE ActiveDel(h)
  BY <1>1, <1>3, <1>5, GoesOn DEF ActiveDel
<1>6. CASE ActiveSet(h)
  BY <1>1, <1>3, <1>6, GoesOn DEF ActiveSet
<1>7. CASE PassiveExists(h)
  BY <1>1, <1>3, <1>7, GoesOn DEF PassiveExists
<1>8. CASE PassiveWrite(h)
  BY <1>1, <1>3, <1>8, GoesOn DEF PassiveWrite
<1>9. CASE PassiveDel(h)
  BY <1>1, <1>3, <1>9, GoesOn DEF PassiveDel
<1>10. CASE MaybeExists(h)
  BY <1>1, <1>3, <1>10, GoesOn DEF MaybeExists
<1>11. CASE MaybeWrite(h)
  BY <1>1, <1>3, <1>11, GoesOn DEF MaybeWrite
<1>12. CASE MaybeDel(h)
  BY <1>1, <1>3, <1>12, GoesOn DEF MaybeDel
<1>13. QED
  BY <1>4, <1>5, <1>6, <1>7, <1>8, <1>9, <1>10, <1>11, <1>12 DEF HandlerStep

LEMMA ExpireInOrder ==
    ASSUME TypeOK, InOrder, NEW k \in Keys, Expire(k) PROVE InOrder'
<1> SUFFICES ASSUME ~raced' PROVE InOrder'
  BY DEF InOrder
<1>1. /\ ~raced /\ pending = {} /\ pending' = Servers \X {k} /\ UNCHANGED <<pc, last>>
      /\ \A q \in Procs : pc[q] = "idle"
  BY DEF Expire, At
<1>2. pending' # {}
  <2>1. PICK s \in Servers : TRUE
    BY ConstantsOK DEF ConstantsOK
  <2>2. <<s, k>> \in Servers \X {k}
    OBVIOUS
  <2>3. QED
    BY <1>1, <2>2
<1>3. Agree
  BY <1>1 DEF InOrder, OnlyAt, Fits
<1>4. Expired(k)'
  BY <1>1, <1>3 DEF Expire, Expired, Agree, TypeOK, Keys
<1>5. QED
  BY <1>2, <1>4 DEF InOrder

LEMMA OrderStep == TypeOK /\ InOrder /\ [Next]_vars => InOrder'
<1> SUFFICES ASSUME TypeOK, InOrder, [Next]_vars PROVE InOrder'
  OBVIOUS
<1>1. CASE \E p \in Requests : Begins(p) \/ RequestStep(p)
  BY <1>1, StartInOrder, RequestInOrder
<1>2. CASE \E h \in Handlers : HandlerStep(h)
  BY <1>2, ReceiveInOrder, HandlerInOrder
<1>3. CASE (\E h \in Handlers : Lose(h)) \/ (\E p \in Procs : Fail(p))
  BY <1>3 DEF Lose, Fail, Fault, InOrder
<1>4. CASE \E k \in Keys : Expire(k)
  BY <1>4, ExpireInOrder
<1>5. CASE Leave \/ UNCHANGED vars
  BY <1>5 DEF Leave, vars, history, InOrder, OnlyAt, Expired, Fits, Agree, Present
<1>6. QED
  BY <1>1, <1>2, <1>3, <1>4, <1>5 DEF Next, Begins

LEMMA InitInOrder == Init => InOrder
<1> SUFFICES ASSUME Init PROVE InOrder
  OBVIOUS
<1>1. PICK s \in Servers : TRUE
  BY ConstantsOK DEF ConstantsOK
<1>2. <<s, "active">> \in Procs
  BY ServerHandlers DEF Keys
<1>3. OnlyAt(<<s, "active">>)
  BY <1>2 DEF Init, OnlyAt, Fits, Agree, Present
<1>4. QED
  BY <1>2, <1>3 DEF InOrder

-----------------------------------------------------------------------------
\* The theorems.

LEMMA InitIInv == Init => IInv
<1> SUFFICES ASSUME Init PROVE IInv
  OBVIOUS
<1>1. TypeOK
  <2>1. 0 \in 0..MaxFaults
    BY ConstantsOK DEF ConstantsOK
  <2>2. pc \in [Procs -> Labels]
    BY LabelFacts DEF Init
  <2>3. QED
    BY <2>1, <2>2 DEF Init, TypeOK
<1>2. HandlersFit
  BY ServerHandlers DEF Init, HandlersFit, Keys
<1>3. PresentIsWatched
  BY DEF Init, PresentIsWatched, Present
<1>4. QED
  BY <1>1, <1>2, <1>3 DEF IInv

LEMMA Induction == IInv /\ [Next]_vars => IInv'
<1> SUFFICES ASSUME IInv, [Next]_vars PROVE IInv'
  OBVIOUS
<1>1. TypeOK' /\ HandlersFit'
  BY TypeStep, FitStep DEF IInv
<1>2. PresentIsWatched'
  <2>1. CASE \E p \in Requests : Begins(p) \/ RequestStep(p)
    BY <2>1, StartWatched, RequestWatched
  <2>2. CASE \E h \in Handlers : HandlerStep(h)
    BY <2>2, ReceiveWatched, HandlerWatched
  <2>3. CASE (\E h \in Handlers : Lose(h)) \/ (\E p \in Procs : Fail(p))
    BY <2>3 DEF Lose, Fail, Fault, PresentIsWatched
  <2>4. CASE \E k \in Keys : Expire(k)
    BY <2>4, ExpireWatched
  <2>5. CASE Leave \/ UNCHANGED vars
    BY <2>5 DEF Leave, vars, history, IInv, PresentIsWatched, Present, Watched, Heard
  <2>6. QED
    BY <2>1, <2>2, <2>3, <2>4, <2>5 DEF Next, Begins
<1>3. QED
  BY <1>1, <1>2 DEF IInv

\* The inductive invariant holds in every behaviour.
THEOREM Invariance == Spec => []IInv
BY InitIInv, Induction, PTL DEF Spec

\* Every variable keeps its type.
THEOREM TypeCorrect == Spec => []TypeOK
<1>1. IInv => TypeOK
  BY DEF IInv
<1>2. QED
  BY Invariance, <1>1, PTL

\* A client that the log calls present is left with a key that will time out,
\* on any number of servers, unless the excuse is recorded.
THEOREM SomethingTimesOut == Spec => []NobodyIsForgotten
<1>1. IInv => NobodyIsForgotten
  <2> SUFFICES ASSUME IInv, Quiet, Present, excused = {} PROVE keys # {}
    BY DEF NobodyIsForgotten
  <2>1. ~Heard
    BY DEF Quiet, Heard
  <2>2. \A p \in Procs : pc[p] \notin Watching
    BY DEF Quiet, At, Watching
  <2>3. QED
    BY <2>1, <2>2 DEF IInv, PresentIsWatched, Watched
<1>2. QED
  BY Invariance, <1>1, PTL

\* While requests and expirations come one after the other, the keys tell what the
\* log says: trackActivity, trackPassivity, setInactivityCountdown, trackInactivity
\* and the three expiry handlers leave exactly the keys of the state they wrote.
THEOREM KeysTellTheLog == Spec => []LogAgrees
<1>1. Init => TypeOK /\ InOrder
  BY InitIInv, InitInOrder DEF IInv
<1>2. TypeOK /\ InOrder /\ [Next]_vars => (TypeOK /\ InOrder)'
  BY TypeStep, OrderStep
<1>3. InOrder => LogAgrees
  <2> SUFFICES ASSUME InOrder, Quiet, ~raced PROVE Agree
    BY DEF LogAgrees, Agree
  <2>1. PICK p \in Procs : OnlyAt(p)
    BY DEF InOrder, Quiet
  <2>2. QED
    BY <2>1 DEF OnlyAt, Fits, Quiet, At
<1>4. QED
  BY <1>1, <1>2, <1>3, PTL DEF Spec
=============================================================================
