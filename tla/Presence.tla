------------------------------ MODULE Presence ------------------------------
(***************************************************************************)
(* Presence of one client (a user and a clientUUID): three Redis keys with *)
(* a time to live, the notifications Redis publishes when one expires, and *)
(* the ACTIVE / PASSIVE / INACTIVE_ON_SITE actions written to PostgreSQL.  *)
(*                                                                         *)
(* Code: src/server/services/PresenceService.ts, called by the routes      *)
(* /user/track-presence/... and by the socket's disconnecting handler.     *)
(*                                                                         *)
(* Each call to Redis or PostgreSQL is one step.  A request that arrives   *)
(* makes its first call in the same step.                                  *)
(***************************************************************************)
EXTENDS Integers

CONSTANTS
    Requests,   \* requests of the client that may be in flight at once
    Servers,    \* server processes, each subscribed to the expirations
    MaxFaults   \* bound on failed calls, crashes and lost notifications

Keys    == {"active", "passive", "maybe"}
Actions == {"ACTIVE", "PASSIVE", "INACTIVE"}

\* A server runs at most one handler per key.  Bound: a key does not expire
\* again while a server has yet to handle its last expiration.
Handlers == Servers \X Keys
Procs    == Requests \cup Handlers

ASSUME ConstantsOK ==
    /\ Requests \cap Handlers = {} /\ Servers # {} /\ MaxFaults \in Nat

VARIABLES
    keys,       \* the keys that exist
    pending,    \* notifications a server has not received yet
    pc,         \* the next call of every request and handler
    gone,       \* the client sends no more requests
    faults,     \* failed calls, crashes and lost notifications so far
    last,       \* history: the last action written
    raced,      \* history: two requests or handlers have overlapped
    excused     \* history: why the client may be left present for good

history == <<last, raced, excused>>
vars    == <<keys, pending, pc, gone, faults, history>>

Labels == {"idle", "activity_get", "activity_write", "activity_set",
           "passivity_del", "passivity_write", "passivity_set",
           "countdown_passive", "countdown_set", "inactivity_write",
           "active_write", "active_del", "active_set",
           "passive_exists", "passive_write", "passive_del",
           "maybe_exists", "maybe_write", "maybe_del"}

Init ==
    /\ keys = {} /\ pending = {}
    /\ pc = [p \in Procs |-> "idle"]
    /\ gone = FALSE /\ faults = 0
    /\ last = "none"
    /\ raced = FALSE /\ excused = {}

At(p, label)   == pc[p] = label
Goto(p, label) == pc' = [pc EXCEPT ![p] = label]

\* createAccountAction.
Write(action) == last' = action

\* Something else is going on when p starts.
Overlaps(p) == \/ \E q \in Procs \ {p} : pc[q] # "idle"
               \/ pending \ {p} # {}

\* A request arrives and makes its first call.
Arrive(p, label) ==
    /\ ~gone /\ At(p, "idle")
    /\ Goto(p, label)
    /\ raced' = (raced \/ Overlaps(p))

-----------------------------------------------------------------------------
\* trackActivity.

\* Mutant of Activity: the keys of a passive client are not deleted.
ActivityKeeps(p) ==
    /\ Arrive(p, "activity_get")
    /\ UNCHANGED <<keys, pending, gone, faults, last, excused>>

Activity(p) ==
    /\ Arrive(p, "activity_get")
    /\ keys' = keys \ {"passive", "maybe"}
    /\ UNCHANGED <<pending, gone, faults, last, excused>>

ActivityGet(p) ==
    /\ At(p, "activity_get")
    /\ Goto(p, IF "active" \in keys THEN "activity_set" ELSE "activity_write")
    /\ UNCHANGED <<keys, pending, gone, faults, history>>

ActivityWrite(p) ==
    /\ At(p, "activity_write")
    /\ Write("ACTIVE")
    /\ Goto(p, "activity_set")
    /\ UNCHANGED <<keys, pending, gone, faults, raced, excused>>

ActivitySet(p) ==
    /\ At(p, "activity_set")
    /\ keys' = keys \cup {"active"}
    /\ Goto(p, "idle")
    /\ UNCHANGED <<pending, gone, faults, history>>

-----------------------------------------------------------------------------
\* trackPassivity: nothing to do when the client is not active.

Passivity(p) ==
    /\ "active" \in keys
    /\ Arrive(p, "passivity_del")
    /\ UNCHANGED <<keys, pending, gone, faults, last, excused>>

PassivityDel(p) ==
    /\ At(p, "passivity_del")
    /\ keys' = keys \ {"active", "maybe"}
    /\ Goto(p, "passivity_write")
    /\ UNCHANGED <<pending, gone, faults, history>>

PassivityWrite(p) ==
    /\ At(p, "passivity_write")
    /\ Write("PASSIVE")
    /\ Goto(p, "passivity_set")
    /\ UNCHANGED <<keys, pending, gone, faults, raced, excused>>

PassivitySet(p) ==
    /\ At(p, "passivity_set")
    /\ keys' = keys \cup {"passive"}
    /\ Goto(p, "idle")
    /\ UNCHANGED <<pending, gone, faults, history>>

-----------------------------------------------------------------------------
\* setInactivityCountdown: nothing to do in a countdown.

Countdown(p) ==
    /\ "maybe" \notin keys
    /\ Arrive(p, "countdown_passive")
    /\ UNCHANGED <<keys, pending, gone, faults, last, excused>>

CountdownPassive(p) ==
    /\ At(p, "countdown_passive")
    /\ Goto(p, IF "passive" \in keys THEN "countdown_set" ELSE "idle")
    /\ UNCHANGED <<keys, pending, gone, faults, history>>

CountdownSet(p) ==
    /\ At(p, "countdown_set")
    /\ keys' = keys \cup {"maybe"}
    /\ Goto(p, "idle")
    /\ UNCHANGED <<pending, gone, faults, history>>

-----------------------------------------------------------------------------
\* trackInactivity: one DEL of the three keys.  It writes only when the DEL
\* has removed one; otherwise there is nothing to do.

Inactivity(p) ==
    /\ keys # {}
    /\ Arrive(p, "inactivity_write")
    /\ keys' = {}
    /\ UNCHANGED <<pending, gone, faults, last, excused>>

InactivityWrite(p) ==
    /\ At(p, "inactivity_write")
    /\ Write("INACTIVE")
    /\ Goto(p, "idle")
    /\ UNCHANGED <<keys, pending, gone, faults, raced, excused>>

-----------------------------------------------------------------------------
\* Expiration, and expiredKeyListener.

\* Redis removes the key and notifies every subscriber.
Expire(k) ==
    /\ k \in keys
    /\ \A s \in Servers : <<s, k>> \notin pending /\ At(<<s, k>>, "idle")
    /\ keys' = keys \ {k}
    /\ pending' = pending \cup (Servers \X {k})
    /\ raced' = (raced \/ pending # {} \/ \E p \in Procs : ~At(p, "idle"))
    /\ UNCHANGED <<pc, gone, faults, last, excused>>

\* A handler does nothing while another server holds the lock of the key.
Receive(h) ==
    /\ h \in pending /\ At(h, "idle")
    /\ pending' = pending \ {h}
    /\ LET k == h[2] IN
       \/ /\ \E s \in Servers : ~At(<<s, k>>, "idle")
          /\ UNCHANGED pc
       \/ /\ \A s \in Servers : At(<<s, k>>, "idle")
          /\ Goto(h, CASE k = "active"  -> "active_write"
                       [] k = "passive" -> "passive_exists"
                       [] k = "maybe"   -> "maybe_exists")
    /\ raced' = (raced \/ Overlaps(h))
    /\ UNCHANGED <<keys, gone, faults, last, excused>>

ActiveWrite(h) ==
    /\ At(h, "active_write")
    /\ Write("PASSIVE")
    /\ Goto(h, "active_del")
    /\ UNCHANGED <<keys, pending, gone, faults, raced, excused>>

ActiveDel(h) ==
    /\ At(h, "active_del")
    /\ keys' = keys \ {"maybe"}
    /\ Goto(h, "active_set")
    /\ UNCHANGED <<pending, gone, faults, history>>

\* Mutant of ActiveSet: no timeout is set for the passive client.
ActiveSetNothing(h) ==
    /\ At(h, "active_set")
    /\ Goto(h, "idle")
    /\ UNCHANGED <<keys, pending, gone, faults, history>>

ActiveSet(h) ==
    /\ At(h, "active_set")
    /\ keys' = keys \cup {"passive"}
    /\ Goto(h, "idle")
    /\ UNCHANGED <<pending, gone, faults, history>>

\* The client became active: ignore this expiry.
PassiveExists(h) ==
    /\ At(h, "passive_exists")
    /\ Goto(h, IF "active" \in keys THEN "idle" ELSE "passive_write")
    /\ UNCHANGED <<keys, pending, gone, faults, history>>

PassiveWrite(h) ==
    /\ At(h, "passive_write")
    /\ Write("INACTIVE")
    /\ Goto(h, "passive_del")
    /\ UNCHANGED <<keys, pending, gone, faults, raced, excused>>

\* The DEL at the end of a handler may remove a key that was set after the
\* handler had written INACTIVE.
Removes(ks) ==
    /\ keys' = keys \ ks
    /\ excused' = IF keys \cap ks # {} /\ last # "INACTIVE"
                  THEN excused \cup {"deleted"} ELSE excused

PassiveDel(h) ==
    /\ At(h, "passive_del")
    /\ Removes({"active", "maybe"})
    /\ Goto(h, "idle")
    /\ UNCHANGED <<pending, gone, faults, last, raced>>

MaybeExists(h) ==
    /\ At(h, "maybe_exists")
    /\ Goto(h, IF "passive" \in keys THEN "maybe_write" ELSE "idle")
    /\ UNCHANGED <<keys, pending, gone, faults, history>>

MaybeWrite(h) ==
    /\ At(h, "maybe_write")
    /\ Write("INACTIVE")
    /\ Goto(h, "maybe_del")
    /\ UNCHANGED <<keys, pending, gone, faults, raced, excused>>

MaybeDel(h) ==
    /\ At(h, "maybe_del")
    /\ Removes({"passive"})
    /\ Goto(h, "idle")
    /\ UNCHANGED <<pending, gone, faults, last, raced>>

-----------------------------------------------------------------------------
\* The environment.

Fault(why) ==
    /\ faults < MaxFaults /\ faults' = faults + 1
    /\ excused' = excused \cup {why}
    /\ raced' = TRUE

\* A call throws or the process dies; errors are logged and nothing is retried.
Fail(p) ==
    /\ ~At(p, "idle")
    /\ Goto(p, "idle")
    /\ Fault("failed")
    /\ UNCHANGED <<keys, pending, gone, last>>

\* Redis notifies whoever is connected, and nobody else.
Lose(h) ==
    /\ h \in pending
    /\ pending' = pending \ {h}
    /\ Fault("lost")
    /\ UNCHANGED <<keys, pc, gone, last>>

Leave ==
    /\ ~gone /\ gone' = TRUE
    /\ UNCHANGED <<keys, pending, pc, faults, history>>

RequestStep(p) ==
    \/ ActivityGet(p) \/ ActivityWrite(p) \/ ActivitySet(p)
    \/ PassivityDel(p) \/ PassivityWrite(p) \/ PassivitySet(p)
    \/ CountdownPassive(p) \/ CountdownSet(p) \/ InactivityWrite(p)

HandlerStep(h) ==
    \/ Receive(h)
    \/ ActiveWrite(h) \/ ActiveDel(h) \/ ActiveSet(h)
    \/ PassiveExists(h) \/ PassiveWrite(h) \/ PassiveDel(h)
    \/ MaybeExists(h) \/ MaybeWrite(h) \/ MaybeDel(h)

Next ==
    \/ \E p \in Requests : \/ Activity(p) \/ Passivity(p) \/ Countdown(p)
                           \/ Inactivity(p) \/ RequestStep(p)
    \/ \E h \in Handlers : HandlerStep(h) \/ Lose(h)
    \/ \E p \in Procs : Fail(p)
    \/ \E k \in Keys : Expire(k)
    \/ Leave

Spec == Init /\ [][Next]_vars

\* Started requests and handlers go on, keys expire, connected servers are
\* notified.  The client need not send anything.
FairSpec ==
    /\ Spec
    /\ \A p \in Requests : WF_vars(RequestStep(p))
    /\ \A h \in Handlers : WF_vars(HandlerStep(h))
    /\ \A k \in Keys : WF_vars(Expire(k))

-----------------------------------------------------------------------------
\* Properties.

\* Every variable has its type.
TypeOK ==
    /\ keys \subseteq Keys /\ pending \subseteq Handlers
    /\ pc \in [Procs -> Labels] /\ gone \in BOOLEAN
    /\ faults \in 0..MaxFaults
    /\ last \in Actions \cup {"none"}
    /\ raced \in BOOLEAN
    /\ excused \subseteq {"deleted", "failed", "lost"}

Quiet   == pending = {} /\ \A p \in Procs : At(p, "idle")
Present == last \in {"ACTIVE", "PASSIVE"}

\* While requests and expirations come one after the other, the keys tell what
\* the log says, in every order of activity, passivity, countdowns, timeouts
\* and disconnects.
LogAgrees ==
    Quiet /\ ~raced =>
        /\ "active" \in keys => keys = {"active"} /\ last = "ACTIVE"
        /\ "passive" \in keys => last = "PASSIVE"
        /\ "maybe" \in keys => "passive" \in keys
        /\ keys = {} => ~Present

\* However requests, expirations and servers overlap, a client the log calls
\* present has a key left to time out, unless the DEL of an expiry handler has
\* removed a newer key, or a fault is on record.
NobodyIsForgotten == Quiet /\ Present /\ excused = {} => keys # {}

\* A client that has left is INACTIVE in the log in the end.
GoneEventuallyInactive == gone ~> (~Present \/ excused # {})

=============================================================================
