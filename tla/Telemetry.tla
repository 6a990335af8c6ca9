----------------------------- MODULE Telemetry -----------------------------
(***************************************************************************)
(* The scheduler of the periodic logs (src/logging.cpp): the table of      *)
(* subscriptions the ground station edits, the schedule last_sent, and the *)
(* pass of logging::loop over the table, in the order of the ids.  The     *)
(* clock is read once per subscription and may run between any two steps,  *)
(* which stands for the time that flushes and other work take.             *)
(***************************************************************************)
EXTENDS Integers, Functions

CONSTANTS Ids,      \* the log ids the ground station may ask for
          Recipes,  \* the ids with a recipe: the keys of recipe_book
          Periods,  \* the periods it may ask for
          MaxTime   \* bound on the clock

ASSUME TelemetryAssumption ==
  /\ Ids \subseteq Nat /\ Recipes \subseteq Nat /\ Periods \subseteq Nat
  /\ MaxTime \in Nat

VARIABLES now,        \* std::chrono::steady_clock
          logs,       \* logging::logs, id -> period
          last_sent,  \* logging::last_sent, id -> scheduled time
          todo,       \* the ids this pass has still to visit
          passing,    \* logging::loop is running
          sent_at,    \* history: id -> time of its last packet
          base,       \* history: id -> last_sent when its period was set
          count       \* history: id -> packets since then

schedule == <<logs, last_sent, sent_at, base, count>>
vars == <<now, logs, last_sent, todo, passing, sent_at, base, count>>

\* The map f with x mapped to y, whether it was or not.
Put(f, x, y) == [z \in DOMAIN f \union {x} |-> IF z = x THEN y ELSE f[z]]
Erase(f, x) == Restrict(f, DOMAIN f \ {x})
Empty == [x \in {} |-> 0]
-----------------------------------------------------------------------------
Init ==
  /\ now = 0 /\ todo = {} /\ passing = FALSE
  /\ logs = Empty /\ last_sent = Empty
  /\ sent_at = Empty /\ base = Empty /\ count = Empty

\* /ground/begin-log calls addLog: the period is replaced, the schedule kept.
AddLog(id, period) ==
  /\ ~passing
  /\ logs' = Put(logs, id, period)
  /\ IF id \in DOMAIN last_sent
       THEN /\ base' = [base EXCEPT ![id] = last_sent[id]]
            /\ count' = [count EXCEPT ![id] = 0]
       ELSE UNCHANGED <<base, count>>
  /\ UNCHANGED <<now, last_sent, todo, passing, sent_at>>

\* Fault variant: the schedule of a removed log is kept.
RemoveLogOnly(id) ==
  /\ ~passing
  /\ logs' = Erase(logs, id)
  /\ UNCHANGED <<now, last_sent, todo, passing, sent_at, base, count>>

\* /ground/unlog-all with an id calls removeLog.
RemoveLog(id) ==
  /\ ~passing
  /\ logs' = Erase(logs, id) /\ last_sent' = Erase(last_sent, id)
  /\ sent_at' = Erase(sent_at, id)
  /\ base' = Erase(base, id) /\ count' = Erase(count, id)
  /\ UNCHANGED <<now, todo, passing>>

\* /ground/unlog-all without payload, and logging::exit in a reset, call
\* clearLogs.
ClearLogs ==
  /\ ~passing
  /\ logs' = Empty /\ last_sent' = Empty
  /\ sent_at' = Empty /\ base' = Empty /\ count' = Empty
  /\ UNCHANGED <<now, todo, passing>>
-----------------------------------------------------------------------------
\* Fault variant: the pass is over the recipes.
BeginPassRecipes ==
  /\ ~passing /\ passing' = TRUE
  /\ todo' = Recipes
  /\ UNCHANGED now /\ UNCHANGED schedule

\* logging::loop starts a pass over the table.
BeginPass ==
  /\ ~passing /\ passing' = TRUE
  /\ todo' = DOMAIN logs
  /\ UNCHANGED now /\ UNCHANGED schedule

\* The next id in the order of the map.
Visit(id) == /\ passing /\ id \in todo /\ \A other \in todo : id <= other
             /\ todo' = todo \ {id}

\* Fault variant of Due: the packet is sent one tick early.
DueEarly(id) ==
  /\ id \in Recipes
  /\ id \in DOMAIN last_sent => now - last_sent[id] >= logs[id] - 1

\* Never sent, or a period has passed since the scheduled time.
Due(id) ==
  /\ id \in Recipes
  /\ id \in DOMAIN last_sent => now - last_sent[id] >= logs[id]

\* The first packet of a log starts its schedule at the present.
SendFirst(id) ==
  /\ Visit(id) /\ Due(id) /\ id \notin DOMAIN last_sent
  /\ last_sent' = Put(last_sent, id, now)
  /\ sent_at' = Put(sent_at, id, now)
  /\ base' = Put(base, id, now) /\ count' = Put(count, id, 0)
  /\ UNCHANGED <<now, logs, passing>>

\* Fault variant: the schedule is not advanced by the period.
SendNextUnscheduled(id) ==
  /\ Visit(id) /\ Due(id) /\ id \in DOMAIN last_sent
  /\ sent_at' = [sent_at EXCEPT ![id] = now]
  /\ count' = [count EXCEPT ![id] = IF logs[id] = 0 THEN @ ELSE @ + 1]
  /\ UNCHANGED <<now, logs, last_sent, passing, base>>

\* Every later packet moves the schedule by one period, not to the present.
\* With a period of 0 the schedule stands still and count is not kept.
SendNext(id) ==
  /\ Visit(id) /\ Due(id) /\ id \in DOMAIN last_sent
  /\ last_sent' = [last_sent EXCEPT ![id] = @ + logs[id]]
  /\ sent_at' = [sent_at EXCEPT ![id] = now]
  /\ count' = [count EXCEPT ![id] = IF logs[id] = 0 THEN @ ELSE @ + 1]
  /\ UNCHANGED <<now, logs, passing, base>>

\* A log that is not due, or has no recipe, is passed over.
Skip(id) ==
  /\ Visit(id) /\ ~Due(id)
  /\ UNCHANGED <<now, passing>> /\ UNCHANGED schedule

\* Fault variant: a pass may end before the table does.
EndPassEarly ==
  /\ passing /\ (todo = {} \/ todo # DOMAIN logs) /\ passing' = FALSE
  /\ todo' = {} /\ UNCHANGED now /\ UNCHANGED schedule

\* The flushes that end logging::loop.
EndPass ==
  /\ passing /\ todo = {} /\ passing' = FALSE
  /\ UNCHANGED <<now, todo>> /\ UNCHANGED schedule

\* Any time may pass, as between two readings of the clock it may.
Tick ==
  /\ now' \in now + 1 .. MaxTime
  /\ UNCHANGED <<todo, passing>> /\ UNCHANGED schedule

Loop == \/ BeginPass \/ EndPass
        \/ \E id \in Ids : SendFirst(id) \/ SendNext(id) \/ Skip(id)

Command == \/ ClearLogs
           \/ \E id \in Ids : \/ RemoveLog(id)
                              \/ \E period \in Periods : AddLog(id, period)

Next == Loop \/ Command \/ Tick

\* The loop runs on; the ground station need not send anything.
Spec == Init /\ [][Next]_vars /\ WF_vars(Loop)
-----------------------------------------------------------------------------
TypeOK ==
  /\ now \in Nat /\ todo \subseteq DOMAIN logs /\ passing \in BOOLEAN
  /\ DOMAIN logs \subseteq Ids /\ \A id \in DOMAIN logs : logs[id] \in Periods
  /\ \A f \in {last_sent, sent_at, base, count} :
       \A id \in DOMAIN f : f[id] \in Nat

\* Schedules belong to subscribed logs that have a recipe: a log that is
\* subscribed anew starts a schedule of its own.
SchedulesSubscribed ==
  /\ DOMAIN last_sent \subseteq DOMAIN logs \intersect Recipes
  /\ \A f \in {sent_at, base, count} : DOMAIN f = DOMAIN last_sent

\* The schedule of a log is never ahead of its last packet: however often the
\* period is changed, the next packet is due one period after the last at the
\* latest.
ScheduleLags ==
  \A id \in DOMAIN last_sent :
    last_sent[id] <= sent_at[id] /\ sent_at[id] <= now

\* The schedule is exact, without drift, and so the rate is bounded: of the
\* time since base, where the schedule stood when the period was set, a log
\* has had at most one packet per period, however late some of them were.
\* The account goes back to base and not to the change itself: a shorter
\* period owes at once what it would have sent since, which MinimumPeriod
\* forbids and the code does.
RateBound ==
  \A id \in DOMAIN last_sent :
    /\ last_sent[id] = base[id] + count[id] * logs[id]
    /\ count[id] * logs[id] <= now - base[id]

\* No subscription starves, whatever the backlog of the others is: a log that
\* stays due, be it for the first or for any later packet, is sent again and
\* again.
EveryLogServed ==
  \A id \in Ids \intersect Recipes :
    \/ []<>~(id \in DOMAIN logs /\ Due(id))
    \/ []<><<SendFirst(id) \/ SendNext(id)>>_vars

\* include/logging.h:78, of addLog: "this is the MINIMUM period between
\* logs".
MinimumPeriod ==
  [][\A id \in DOMAIN sent_at \intersect DOMAIN sent_at' :
       sent_at'[id] # sent_at[id] =>
         sent_at'[id] - sent_at[id] >= logs[id]]_vars
=============================================================================
