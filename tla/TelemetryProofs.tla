-------------------------- MODULE TelemetryProofs --------------------------
(***************************************************************************)
(* Theorems about Telemetry for every set of log ids, recipes and periods. *)
(* The inductive invariant has three parts: the table of subscriptions and *)
(* the pass over it, the domains of the maps, and an account of every      *)
(* schedule.  The account is what RateBound needs: that the schedule is    *)
(* the base and a whole number of periods, and is not ahead of the clock.  *)
(***************************************************************************)
EXTENDS Telemetry, TLAPS

\* The table is typed, and outside a pass nothing is left to visit.
TableOK ==
  /\ now \in Nat /\ passing \in BOOLEAN
  /\ todo \subseteq DOMAIN logs /\ (~passing => todo = {})
  /\ DOMAIN logs \subseteq Ids /\ \A id \in DOMAIN logs : logs[id] \in Periods

DomainsOK ==
  /\ DOMAIN last_sent \subseteq DOMAIN logs /\ DOMAIN last_sent \subseteq Recipes
  /\ DOMAIN sent_at = DOMAIN last_sent
  /\ DOMAIN base = DOMAIN last_sent /\ DOMAIN count = DOMAIN last_sent

\* The account of one schedule.
Account(id) ==
  /\ last_sent[id] \in Nat /\ sent_at[id] \in Nat
  /\ base[id] \in Nat /\ count[id] \in Nat
  /\ last_sent[id] <= sent_at[id] /\ sent_at[id] <= now
  /\ last_sent[id] = base[id] + count[id] * logs[id]

AccountsOK == \A id \in DOMAIN last_sent : Account(id)

TelemetryInv == TableOK /\ DomainsOK /\ AccountsOK

\* What erasing from a std::map does to its keys and values.
LEMMA EraseFacts ==
  ASSUME NEW f, NEW x
  PROVE  /\ DOMAIN Erase(f, x) = DOMAIN f \ {x}
         /\ \A z \in DOMAIN f : z # x => Erase(f, x)[z] = f[z]
BY DEF Erase, Restrict

\* One more packet is one more period.
LEMMA OneMore == ASSUME NEW n \in Nat, NEW p \in Nat
                 PROVE  (n + 1) * p = n * p + p
OBVIOUS

\* Before the first packet no time is accounted for.
LEMMA NoneYet == ASSUME NEW p \in Nat PROVE 0 * p = 0
OBVIOUS

\* The invariant holds of the empty table.
LEMMA TelemetryInit == Init => TelemetryInv
<1>1. DOMAIN Empty = {}
  BY DEF Empty
<1> SUFFICES ASSUME Init PROVE TelemetryInv
  OBVIOUS
<1>2. TableOK
  <2>1. todo = {} /\ DOMAIN logs = {} /\ now \in Nat /\ passing \in BOOLEAN
    BY <1>1 DEF Init
  <2> QED
    BY <2>1 DEF TableOK
<1>3. DomainsOK
  BY <1>1, SMT DEF Init, DomainsOK
<1>4. AccountsOK
  BY <1>1, Zenon DEF Init, AccountsOK
<1> QED
  BY <1>2, <1>3, <1>4 DEF TelemetryInv

\* An action that leaves the schedules alone, and the clock or not behind,
\* keeps the accounts.
LEMMA QuietKeepsAccounts ==
  ASSUME TelemetryInv, UNCHANGED schedule, now' \in Nat, now' >= now
  PROVE  DomainsOK' /\ AccountsOK'
BY DEF TelemetryInv, TableOK, DomainsOK, AccountsOK, Account, schedule

\* A new period (src/logging.cpp:130) starts a new account where the old
\* schedule stands.
LEMMA AddLogKeeps ==
  ASSUME TelemetryInv, NEW id \in Ids, NEW period \in Periods,
         AddLog(id, period)
  PROVE  TelemetryInv'
<1> USE DEF TelemetryInv
<1>1. /\ DOMAIN logs' = DOMAIN logs \union {id}
      /\ logs'[id] = period
      /\ \A z \in DOMAIN logs : z # id => logs'[z] = logs[z]
  BY DEF AddLog, Put
<1>2. TableOK'
  BY <1>1 DEF AddLog, TableOK
<1>3. DomainsOK'
  BY <1>1 DEF AddLog, DomainsOK
<1>4. ASSUME NEW z \in DOMAIN last_sent' PROVE Account(z)'
  <2>1. z \in DOMAIN last_sent /\ z \in DOMAIN logs /\ Account(z)
    BY <1>4 DEF AddLog, DomainsOK, AccountsOK
  <2>2. CASE z # id
    BY <1>1, <2>1, <2>2 DEF AddLog, DomainsOK, Account
  <2>3. CASE z = id
    <3>1. base'[z] = last_sent[z] /\ count'[z] = 0 /\ logs'[z] \in Nat
      BY <1>1, <2>1, <2>3, TelemetryAssumption DEF AddLog, DomainsOK
    <3>2. last_sent'[z] = base'[z] + count'[z] * logs'[z]
      BY <2>1, <3>1, NoneYet DEF AddLog, Account
    <3> QED
      BY <2>1, <3>1, <3>2 DEF AddLog, Account
  <2> QED
    BY <2>2, <2>3
<1> QED
  BY <1>2, <1>3, <1>4 DEF AccountsOK

\* Removing a log removes its account with it (src/logging.cpp:137).
LEMMA RemoveLogKeeps ==
  ASSUME TelemetryInv, NEW id \in Ids, RemoveLog(id)
  PROVE  TelemetryInv'
<1> USE DEF TelemetryInv
<1>1. /\ DOMAIN logs' = DOMAIN logs \ {id}
      /\ \A z \in DOMAIN logs : z # id => logs'[z] = logs[z]
  BY EraseFacts DEF RemoveLog
<1>2. /\ DOMAIN last_sent' = DOMAIN last_sent \ {id}
      /\ DOMAIN sent_at' = DOMAIN sent_at \ {id}
      /\ DOMAIN base' = DOMAIN base \ {id}
      /\ DOMAIN count' = DOMAIN count \ {id}
  BY EraseFacts DEF RemoveLog
<1>3. TableOK'
  BY <1>1 DEF RemoveLog, TableOK
<1>4. DomainsOK'
  BY <1>1, <1>2 DEF DomainsOK
<1>5. ASSUME NEW z \in DOMAIN last_sent' PROVE Account(z)'
  <2>1. /\ z # id /\ z \in DOMAIN logs /\ z \in DOMAIN last_sent
        /\ z \in DOMAIN sent_at /\ z \in DOMAIN base /\ z \in DOMAIN count
        /\ Account(z)
    BY <1>2, <1>5 DEF DomainsOK, AccountsOK
  <2>2. /\ last_sent'[z] = last_sent[z] /\ sent_at'[z] = sent_at[z]
        /\ base'[z] = base[z] /\ count'[z] = count[z] /\ logs'[z] = logs[z]
    BY <2>1, EraseFacts DEF RemoveLog
  <2> QED
    BY <2>1, <2>2 DEF RemoveLog, Account
<1> QED
  BY <1>3, <1>4, <1>5 DEF AccountsOK

\* The first packet opens an account at the present.
LEMMA SendFirstKeeps ==
  ASSUME TelemetryInv, NEW id \in Ids, SendFirst(id)
  PROVE  TelemetryInv'
<1> USE DEF TelemetryInv
<1>1. id \in DOMAIN logs /\ id \in Recipes /\ id \notin DOMAIN last_sent
  BY DEF SendFirst, Visit, Due, TableOK
<1>2. /\ DOMAIN last_sent' = DOMAIN last_sent \union {id}
      /\ DOMAIN sent_at' = DOMAIN sent_at \union {id}
      /\ DOMAIN base' = DOMAIN base \union {id}
      /\ DOMAIN count' = DOMAIN count \union {id}
  BY DEF SendFirst, Put
<1>3. TableOK'
  BY DEF SendFirst, Visit, TableOK
<1>4. DomainsOK'
  BY <1>1, <1>2 DEF SendFirst, DomainsOK
<1>5. ASSUME NEW z \in DOMAIN last_sent' PROVE Account(z)'
  <2>1. CASE z = id
    <3>1. /\ last_sent'[z] = now /\ sent_at'[z] = now
          /\ base'[z] = now /\ count'[z] = 0 /\ logs'[z] \in Nat
      BY <1>1, <2>1, TelemetryAssumption DEF SendFirst, Put, TableOK
    <3>2. now \in Nat /\ now' = now /\ 0 * logs'[z] = 0
      BY <3>1, NoneYet DEF SendFirst, TableOK
    <3> QED
      BY <3>1, <3>2 DEF Account
  <2>2. CASE z # id
    <3>1. /\ z \in DOMAIN last_sent /\ z \in DOMAIN sent_at
          /\ z \in DOMAIN base /\ z \in DOMAIN count /\ Account(z)
      BY <1>2, <1>5, <2>2 DEF DomainsOK, AccountsOK
    <3>2. /\ last_sent'[z] = last_sent[z] /\ sent_at'[z] = sent_at[z]
          /\ base'[z] = base[z] /\ count'[z] = count[z]
      BY <2>2, <3>1 DEF SendFirst, Put
    <3> QED
      BY <3>1, <3>2 DEF SendFirst, Account
  <2> QED
    BY <2>1, <2>2
<1> QED
  BY <1>3, <1>4, <1>5 DEF AccountsOK

\* A later packet is due, so the schedule moves by a period that has passed
\* (src/logging.cpp:79).
LEMMA SendNextKeeps ==
  ASSUME TelemetryInv, NEW id \in Ids, SendNext(id)
  PROVE  TelemetryInv'
<1> USE DEF TelemetryInv
<1>1. /\ id \in DOMAIN last_sent /\ id \in DOMAIN logs
      /\ logs[id] \in Nat /\ now - last_sent[id] >= logs[id]
  BY TelemetryAssumption DEF SendNext, Due, DomainsOK, TableOK
<1>2. TableOK'
  BY DEF SendNext, Visit, TableOK
<1>3. DomainsOK'
  BY DEF SendNext, DomainsOK
<1>4. ASSUME NEW z \in DOMAIN last_sent' PROVE Account(z)'
  <2>1. z \in DOMAIN last_sent /\ Account(z)
    BY <1>4 DEF SendNext, AccountsOK
  <2>2. CASE z # id
    BY <2>1, <2>2 DEF SendNext, Account
  <2>3. CASE z = id
    <3>1. /\ last_sent'[z] = last_sent[z] + logs[z] /\ sent_at'[z] = now
          /\ count'[z] = IF logs[z] = 0 THEN count[z] ELSE count[z] + 1
          /\ base' = base /\ logs' = logs /\ now' = now
      BY <2>1, <2>3 DEF SendNext, DomainsOK
    <3>2. count'[z] \in Nat
      BY <2>1, <3>1 DEF Account
    <3>3. count'[z] * logs[z] = count[z] * logs[z] + logs[z]
      BY <1>1, <2>1, <2>3, <3>1, OneMore DEF Account
    <3>4. last_sent'[z] = base[z] + count'[z] * logs[z]
      <4> DEFINE prod == count[z] * logs[z]
      <4>1. prod \in Nat
        BY <1>1, <2>1, <2>3 DEF Account
      <4>2. /\ last_sent[z] = base[z] + prod /\ base[z] \in Nat
            /\ logs[z] \in Nat /\ count'[z] * logs[z] = prod + logs[z]
        BY <1>1, <2>1, <2>3, <3>3 DEF Account
      <4> HIDE DEF prod
      <4> QED
        BY <3>1, <4>1, <4>2
    <3> QED
      BY <1>1, <2>1, <2>3, <3>1, <3>2, <3>4 DEF Account, TableOK
  <2> QED
    BY <2>2, <2>3
<1> QED
  BY <1>2, <1>3, <1>4 DEF AccountsOK

\* Every command, every step of a pass and every tick keeps the invariant.
LEMMA TelemetryStep == TelemetryInv /\ [Next]_vars => TelemetryInv'
<1> SUFFICES ASSUME TelemetryInv, [Next]_vars PROVE TelemetryInv'
  OBVIOUS
<1>1. ASSUME NEW id \in Ids, NEW period \in Periods, AddLog(id, period)
      PROVE  TelemetryInv'
  BY <1>1, AddLogKeeps
<1>2. ASSUME NEW id \in Ids, RemoveLog(id) PROVE TelemetryInv'
  BY <1>2, RemoveLogKeeps
<1>3. CASE ClearLogs
  BY <1>3
     DEF ClearLogs, Empty, TelemetryInv, TableOK, DomainsOK, AccountsOK
<1>4. CASE BeginPass
  <2>1. TableOK'
    BY <1>4 DEF BeginPass, schedule, TelemetryInv, TableOK
  <2> QED
    BY <1>4, <2>1, QuietKeepsAccounts DEF BeginPass, TelemetryInv, TableOK
<1>5. CASE EndPass
  <2>1. TableOK'
    BY <1>5 DEF EndPass, schedule, TelemetryInv, TableOK
  <2> QED
    BY <1>5, <2>1, QuietKeepsAccounts DEF EndPass, TelemetryInv, TableOK
<1>6. ASSUME NEW id \in Ids, SendFirst(id) PROVE TelemetryInv'
  BY <1>6, SendFirstKeeps
<1>7. ASSUME NEW id \in Ids, SendNext(id) PROVE TelemetryInv'
  BY <1>7, SendNextKeeps
<1>8. ASSUME NEW id \in Ids, Skip(id) PROVE TelemetryInv'
  <2>1. TableOK'
    BY <1>8 DEF Skip, Visit, schedule, TelemetryInv, TableOK
  <2> QED
    BY <1>8, <2>1, QuietKeepsAccounts DEF Skip, TelemetryInv, TableOK
<1>9. CASE Tick
  <2>1. TableOK' /\ now' >= now
    BY <1>9 DEF Tick, schedule, TelemetryInv, TableOK
  <2> QED
    BY <1>9, <2>1, QuietKeepsAccounts DEF Tick, TelemetryInv, TableOK
<1>10. CASE UNCHANGED vars
  BY <1>10 DEF vars, TelemetryInv, TableOK, DomainsOK, AccountsOK, Account
<1> QED
  BY <1>1, <1>2, <1>3, <1>4, <1>5, <1>6, <1>7, <1>8, <1>9, <1>10
     DEF Next, Loop, Command

\* What the accounts say of the rate, and of who has one.
LEMMA InvImplies == TelemetryInv => RateBound /\ ScheduleLags /\ SchedulesSubscribed
<1>1. TelemetryInv => RateBound
  <2> SUFFICES ASSUME TelemetryInv, NEW id \in DOMAIN last_sent
               PROVE  /\ last_sent[id] = base[id] + count[id] * logs[id]
                      /\ count[id] * logs[id] <= now - base[id]
    BY DEF RateBound
  <2> DEFINE prod == count[id] * logs[id]
  <2>1. Account(id) /\ now \in Nat /\ logs[id] \in Nat
    BY TelemetryAssumption
       DEF TelemetryInv, TableOK, DomainsOK, AccountsOK
  <2>2. prod \in Nat /\ last_sent[id] = base[id] + prod
    BY <2>1 DEF Account
  <2> HIDE DEF prod
  <2>3. prod <= now - base[id]
    BY <2>1, <2>2 DEF Account
  <2> QED
    BY <2>2, <2>3 DEF prod
<1>2. TelemetryInv => ScheduleLags
  BY DEF TelemetryInv, AccountsOK, Account, ScheduleLags
<1>3. TelemetryInv => SchedulesSubscribed
  BY DEF TelemetryInv, DomainsOK, SchedulesSubscribed
<1> QED
  BY <1>1, <1>2, <1>3

\* The inductive invariant of the scheduler holds in every behaviour.
THEOREM TelemetryCorrect == Spec => []TelemetryInv
BY TelemetryInit, TelemetryStep, PTL DEF Spec

\* The maps of logging.cpp are well typed, and a pass visits subscribed ids.
THEOREM TelemetryTypeCorrect == Spec => []TypeOK
<1>1. TelemetryInv => TypeOK
  BY DEF TelemetryInv, TableOK, DomainsOK, AccountsOK, Account, TypeOK
<1> QED
  BY <1>1, TelemetryCorrect, PTL

\* A schedule belongs to a subscribed log with a recipe: a log subscribed
\* anew never inherits a schedule.
THEOREM SchedulesAreSubscribed == Spec => []SchedulesSubscribed
BY InvImplies, TelemetryCorrect, PTL

\* Whatever commands replace its period, the schedule of a log is not ahead
\* of its last packet.
THEOREM SchedulesLag == Spec => []ScheduleLags
BY InvImplies, TelemetryCorrect, PTL

\* However the loop stalls and catches up and however often the period is
\* changed (src/logging.cpp:79, 125), a log has had at most one packet per
\* period of the time from where its schedule stood when the period was set.
\* That is earlier than the change: a shorter period owes the packets since.
THEOREM RateIsBounded == Spec => []RateBound
BY InvImplies, TelemetryCorrect, PTL
=============================================================================
