-------------------------- MODULE Launcher_proofs --------------------------
(* Proofs about the connections of a server, for any sessions, calls and   *)
(* number of restarts, and for both kinds of servers.                      *)
EXTENDS Launcher, TLAPS

USE KeyAssumption, LauncherBounds DEF Nil, ConnIDs, PoolKeys

(* A cached connection is the one of its key. *)
CacheInv == \A k \in PoolKeys : cached[k] # Nil => owner[cached[k]] = k

(* Only running calls hold a connection, their key's, and their entry is fresh. *)
CallInv ==
  \A c \in Handlers :
    /\ using[c] # Nil => callPc[c] = "using" /\ owner[using[c]] = Key(c)
    /\ kind = "stdio" /\ callPc[c] = "using" => session[c] \notin stale

(* Nothing moves before registration. *)
StartInv ==
  phase = "starting" =>
    /\ cached[Shared] = Nil /\ monitor = "idle"
    /\ \A c \in Handlers : callPc[c] = "idle"

(* What the counter of failures knows of the restarts tried. *)
MonitorInv ==
  /\ restarts <= IF monitor = "relaunch" THEN failures + 1 ELSE failures
  /\ monitor # "idle" => failures < MaxFailures
  /\ started => restarts = 0
  /\ monitor = "relaunch" /\ cached[Shared] # Nil => started

(* The status of an http server tells whether it has a connection. *)
HttpInv ==
  kind = "http" /\ phase # "closed" =>
    /\ started <=> cached[Shared] # Nil
    /\ serverErr => cached[Shared] = Nil

-----------------------------------------------------------------------------
(* A server stays of its kind. *)
LEMMA KindFixed ==
  ASSUME [LauncherNext]_launcherVars
  PROVE  kind' = kind
BY DEF LauncherNext, LauncherStep, LockStep, Hangs, Answers, backendVars, launcherVars

(* A number chosen for a connection is free. *)
LEMMA FreshIsUnused ==
  ASSUME Unused # {}
  PROVE  Fresh \in Unused
BY DEF Fresh

(* What a launch that succeeds does, the choice of a number apart. *)
Launches(k, x) ==
  /\ x \notin open
  /\ \A j \in PoolKeys : cached[j] # x
  /\ \A c \in Handlers : using[c] # x
  /\ open' = open \cup {x}
  /\ owner' = [owner EXCEPT ![x] = k]
  /\ cached' = [cached EXCEPT ![k] = x]
  /\ stale' = stale \ {k}
  /\ started' = TRUE /\ restarts' = 0
  /\ serverErr' = (started /\ serverErr)
  /\ ~ctxDone
  /\ late' = late

LEMMA Launched ==
  ASSUME LauncherTypeOK, NEW k \in PoolKeys, LaunchOk(k)
  PROVE  \E x \in ConnIDs : x = Fresh /\ Launches(k, x)
<1>1. Fresh \in Unused
  BY FreshIsUnused DEF LaunchOk, NewConnection
<1>2. QED
  BY <1>1 DEF Launches, Unused, LaunchOk, NewConnection, ErrorAfterStart, CanStart, LauncherTypeOK

(* What a late connection does. *)
LEMMA LateLaunched ==
  ASSUME LauncherTypeOK, LateConnects
  PROVE  \E x \in ConnIDs :
           /\ x \notin open
           /\ \A j \in PoolKeys : cached[j] # x
           /\ \A c \in Handlers : using[c] # x
           /\ open' = open \cup {x}
           /\ owner' = [owner EXCEPT ![x] = Late]
<1>1. Fresh \in Unused
  BY FreshIsUnused DEF LateConnects, NewConnection
<1>2. QED
  BY <1>1 DEF Unused, LateConnects, NewConnection

LEMMA KeyIsKey ==
  ASSUME LauncherTypeOK, NEW c \in Handlers
  PROVE  Key(c) \in PoolKeys /\ (kind = "stdio" => Key(c) \in Sessions /\ Key(c) = session[c])
                         /\ (kind = "http" => Key(c) = Shared)
BY DEF LauncherTypeOK, Key

-----------------------------------------------------------------------------
(* Types. *)
LEMMA TypeStep ==
  ASSUME LauncherTypeOK, MonitorInv, [LauncherNext]_launcherVars
  PROVE  LauncherTypeOK'
<1>1. kind' = kind
  BY KindFixed
<1>0. hung' \in BOOLEAN
  BY DEF LauncherTypeOK, LauncherNext, LauncherStep, LockStep, Hangs, Answers, launcherVars
<1> USE <1>0, <1>1 DEF LauncherTypeOK
<1>2. CASE Register
  <2>1. CASE LaunchOk(Shared)
    <3>1. PICK x \in ConnIDs : Launches(Shared, x)
      BY <2>1, Launched
    <3>2. QED BY <1>2, <3>1 DEF Launches, Register, callVars, monitorVars
  <2>2. CASE LaunchFails
    BY <1>2, <2>2 DEF Register, LaunchFails, callVars, monitorVars, conns
  <2>3. CASE LaunchTimesOut
    BY <1>2, <2>3 DEF Register, LaunchTimesOut, callVars, monitorVars
  <2>4. QED BY <1>2, <2>1, <2>2, <2>3 DEF Register
<1>3. ASSUME NEW c \in Handlers, CallArrives(c)
      PROVE  LauncherTypeOK'
  BY <1>3 DEF CallArrives, CallGoto, status, conns, monitorVars, shutdownVars
<1>4. ASSUME NEW c \in Handlers, LauncherCallStep(c)
      PROVE  LauncherTypeOK'
  <2>1. CASE GetHit(c) \/ LaunchFound(c)
    <3>1. Take(c)
      BY <2>1 DEF GetHit, LaunchFound
    <3>2. using' = [using EXCEPT ![c] = cached[Key(c)]] /\ cached[Key(c)] \in ConnIDs \cup {Nil}
      BY <3>1, KeyIsKey DEF Take
    <3>3. QED BY <3>1, <3>2 DEF Take, StaleAfterGet, CallGoto, status, conns, monitorVars, shutdownVars
  <2>2. CASE GetMiss(c) \/ CallFinishes(c)
    BY <1>4, <2>2 DEF GetMiss, CallFinishes, CallGoto, status, conns, monitorVars, shutdownVars
  <2>3. CASE CallLaunches(c)
    <3>1. PICK x \in ConnIDs : x = Fresh /\ Launches(Key(c), x)
      BY <2>3, Launched, KeyIsKey DEF CallLaunches
    <3>2. QED BY <2>3, <3>1, KeyIsKey DEF Launches, CallLaunches, CallGoto, monitorVars, shutdownVars
  <2>4. CASE CallLaunchFails(c)
    <3>1. CASE LaunchFails
      BY <2>4, <3>1 DEF CallLaunchFails, LaunchFails, CallGoto, conns, monitorVars, shutdownVars
    <3>2. CASE LaunchTimesOut
      BY <2>4, <3>2 DEF CallLaunchFails, LaunchTimesOut, CallGoto, monitorVars, shutdownVars
    <3>3. QED BY <2>4, <3>1, <3>2 DEF CallLaunchFails
  <2>5. QED BY <1>4, <2>1, <2>2, <2>3, <2>4 DEF LauncherCallStep
<1>5. CASE (\E s \in Sessions : Age(s)) \/ Cleanup
  <2>1. CASE \E s \in Sessions : Age(s)
    BY <2>1 DEF Age, status, conns, callVars, monitorVars, shutdownVars
  <2>2. CASE Cleanup
    <3>1. /\ cached' \in [PoolKeys -> ConnIDs \cup {Nil}]
          /\ open' \subseteq ConnIDs /\ stale' \subseteq Sessions
      BY <2>2 DEF Cleanup
    <3>2. QED BY <2>2, <3>1 DEF Cleanup, status, callVars, monitorVars, shutdownVars
  <2>3. QED BY <1>5, <2>1, <2>2
<1>6. CASE MonitorSeesError \/ MonitorSeesRunning \/ MonitorClears \/ MonitorFinds
  <2>1. CASE MonitorClears
    <3>1. cached' \in [PoolKeys -> ConnIDs \cup {Nil}] /\ open' \subseteq ConnIDs
      BY <2>1 DEF MonitorClears
    <3>2. serverErr' \in BOOLEAN /\ started' \in BOOLEAN
      BY <2>1 DEF MonitorClears, ClearStatus
    <3>3. /\ restarts' \in Nat /\ monitor' \in {"idle", "restart", "relaunch"}
          /\ UNCHANGED <<late, owner, stale, callVars, failures, shutdownVars>>
      BY <2>1 DEF MonitorClears
    <3>4. QED BY <3>1, <3>2, <3>3 DEF callVars, shutdownVars
  <2>2. CASE MonitorSeesError
    BY <2>2 DEF MonitorSeesError, status, conns, callVars, shutdownVars
  <2>3. CASE MonitorSeesRunning
    BY <2>3 DEF MonitorSeesRunning, status, conns, callVars, shutdownVars
  <2>4. CASE MonitorFinds
    BY <2>4 DEF MonitorFinds, status, conns, callVars, shutdownVars
  <2>5. QED BY <1>6, <2>1, <2>2, <2>3, <2>4
<1>7. CASE MonitorLaunches
  <2>1. CASE LaunchOk(Shared) /\ failures' = 0
    <3>1. PICK x \in ConnIDs : Launches(Shared, x)
      BY <2>1, Launched
    <3>2. QED BY <1>7, <2>1, <3>1 DEF Launches, MonitorLaunches, callVars, shutdownVars
  <2>2. CASE (LaunchFails \/ LaunchTimesOut) /\ failures' = failures + 1
    <3>1. failures' \in 0..MaxFailures
      BY <1>7, <2>2 DEF MonitorInv, MonitorLaunches
    <3>2. CASE LaunchFails
      BY <1>7, <3>1, <3>2 DEF MonitorLaunches, LaunchFails, callVars, shutdownVars, conns
    <3>3. CASE LaunchTimesOut
      BY <1>7, <3>1, <3>3 DEF MonitorLaunches, LaunchTimesOut, callVars, shutdownVars
    <3>4. QED BY <2>2, <3>2, <3>3
  <2>3. QED BY <1>7, <2>1, <2>2 DEF MonitorLaunches
<1>8. CASE LateConnects
  <2>1. PICK x \in ConnIDs : open' = open \cup {x} /\ owner' = [owner EXCEPT ![x] = Late]
    BY <1>8, LateLaunched
  <2>2. QED BY <1>8, <2>1 DEF LateConnects, status, callVars, monitorVars, shutdownVars
<1>9. CASE LateFails \/ BeginClose \/ CloseLauncher \/ CancelContext
  <2>1. CASE CloseLauncher
    <3>1. dropped' \subseteq ConnIDs
      <4>1. dropped' = dropped \cup {cached[s] : s \in {s \in Sessions : cached[s] # Nil}}
        BY <2>1 DEF CloseLauncher
      <4>2. \A s \in Sessions : cached[s] # Nil => cached[s] \in ConnIDs
        OBVIOUS
      <4>3. dropped \subseteq ConnIDs
        OBVIOUS
      <4>4. QED BY ONLY <4>1, <4>2, <4>3
    <3>2. QED BY <2>1, <3>1 DEF CloseLauncher, status, callVars, monitorVars
  <2>2. CASE LateFails
    BY <2>2 DEF LateFails, status, callVars, monitorVars, shutdownVars
  <2>3. QED
    BY <1>9, <2>1, <2>2 DEF BeginClose, CancelContext, status, conns, callVars, monitorVars
<1>10. CASE UNCHANGED backendVars
  BY <1>10 DEF backendVars, status, conns, callVars, monitorVars, shutdownVars
<1>11. QED
  BY <1>2, <1>3, <1>4, <1>5, <1>6, <1>7, <1>8, <1>9, <1>10
  DEF LauncherNext, LauncherStep, LockStep, Hangs, Answers, MonitorStep, launcherVars

-----------------------------------------------------------------------------
(* What the connections are: the part a launch, a cleanup or Close disturbs. *)
ConnInv == CacheInv /\ NoneLost

(* A launch into an empty place of the cache loses no connection. *)
LEMMA LaunchKeepsConns ==
  ASSUME LauncherTypeOK, ConnInv, NEW k \in PoolKeys, cached[k] = Nil, NEW x \in ConnIDs,
         Launches(k, x),
         UNCHANGED dropped
  PROVE  ConnInv'
<1> USE DEF LauncherTypeOK, ConnInv
<1>1. CacheInv'
  BY DEF CacheInv, Launches
<1>2. ASSUME NEW y \in open'
      PROVE  owner'[y] = Late \/ y \in dropped' \/ cached'[owner'[y]] = y
  <2>1. CASE y = x
    BY <2>1 DEF Launches
  <2>2. CASE y # x
    BY <1>2, <2>2 DEF Launches, NoneLost
  <2>3. QED BY <2>1, <2>2
<1>3. QED BY <1>1, <1>2 DEF NoneLost

LEMMA ConnStep ==
  ASSUME LauncherTypeOK, ConnInv, StartInv, [LauncherNext]_launcherVars
  PROVE  ConnInv'
<1> USE DEF LauncherTypeOK, ConnInv
<1>1. CASE Register
  <2>1. CASE LaunchOk(Shared)
    <3>1. PICK x \in ConnIDs : Launches(Shared, x)
      BY <2>1, Launched
    <3>2. QED BY <1>1, <3>1, LaunchKeepsConns DEF Register, StartInv
  <2>2. CASE LaunchFails \/ LaunchTimesOut
    BY <1>1, <2>2 DEF Register, LaunchFails, LaunchTimesOut, conns, CacheInv, NoneLost
  <2>3. QED BY <1>1, <2>1, <2>2 DEF Register
<1>2. ASSUME NEW c \in Handlers,
             CallArrives(c) \/ GetHit(c) \/ LaunchFound(c) \/ GetMiss(c) \/ CallFinishes(c)
      PROVE  ConnInv'
  BY <1>2
  DEF CallArrives, GetHit, LaunchFound, Take, GetMiss, CallFinishes, conns, shutdownVars, CacheInv,
      NoneLost
<1>3. ASSUME NEW c \in Handlers, CallLaunches(c)
      PROVE  ConnInv'
  <2>1. PICK x \in ConnIDs : Launches(Key(c), x)
    BY <1>3, Launched, KeyIsKey DEF CallLaunches
  <2>2. cached[Key(c)] = Nil /\ UNCHANGED dropped
    BY <1>3 DEF CallLaunches, Found, shutdownVars
  <2>3. QED BY <2>1, <2>2, KeyIsKey, LaunchKeepsConns
<1>4. ASSUME NEW c \in Handlers, CallLaunchFails(c)
      PROVE  ConnInv'
  BY <1>4 DEF CallLaunchFails, LaunchFails, LaunchTimesOut, conns, shutdownVars, CacheInv, NoneLost
<1>5. CASE \E s \in Sessions : Age(s)
  BY <1>5 DEF Age, conns, shutdownVars, CacheInv, NoneLost
<1>6. CASE Cleanup
  <2> DEFINE idle == {s \in stale : cached[s] # Nil}
  <2>1. /\ open' = open \ {cached[s] : s \in idle}
        /\ cached' = [k \in PoolKeys |-> IF k \in idle THEN Nil ELSE cached[k]]
        /\ owner' = owner /\ dropped' = dropped
    BY <1>6 DEF Cleanup, shutdownVars
  <2>2. CacheInv'
    BY <2>1 DEF CacheInv
  <2>3. ASSUME NEW y \in open'
        PROVE  owner'[y] = Late \/ y \in dropped' \/ cached'[owner'[y]] = y
    BY <2>1, <2>3 DEF NoneLost
  <2>4. QED BY <2>2, <2>3 DEF NoneLost
<1>7. CASE MonitorSeesError \/ MonitorSeesRunning \/ MonitorFinds \/ LateFails \/ BeginClose
  BY <1>7
  DEF MonitorSeesError, MonitorSeesRunning, MonitorFinds, LateFails, BeginClose, conns,
      shutdownVars, CacheInv, NoneLost
<1>8. CASE MonitorClears
  BY <1>8 DEF MonitorClears, shutdownVars, CacheInv, NoneLost
<1>9. CASE MonitorLaunches
  <2>1. CASE LaunchOk(Shared)
    <3>1. PICK x \in ConnIDs : Launches(Shared, x)
      BY <2>1, Launched
    <3>2. QED BY <1>9, <3>1, LaunchKeepsConns DEF MonitorLaunches, shutdownVars
  <2>2. CASE LaunchFails \/ LaunchTimesOut
    BY <1>9, <2>2
    DEF MonitorLaunches, LaunchFails, LaunchTimesOut, conns, shutdownVars, CacheInv, NoneLost
  <2>3. QED BY <1>9, <2>1, <2>2 DEF MonitorLaunches
<1>10. CASE LateConnects
  <2>1. PICK x \in ConnIDs :
          /\ x \notin open
          /\ \A j \in PoolKeys : cached[j] # x
          /\ open' = open \cup {x}
          /\ owner' = [owner EXCEPT ![x] = Late]
    BY <1>10, LateLaunched
  <2>2. cached' = cached /\ dropped' = dropped
    BY <1>10 DEF LateConnects, shutdownVars
  <2>3. CacheInv'
    BY <2>1, <2>2 DEF CacheInv
  <2>4. NoneLost'
    BY <2>1, <2>2 DEF NoneLost
  <2>5. QED BY <2>3, <2>4
<1>11. CASE CloseLauncher
  <2>1. CacheInv'
    BY <1>11 DEF CloseLauncher, CacheInv
  <2>2. ASSUME NEW y \in open', owner[y] # Late, y \notin dropped
        PROVE  y \in dropped'
    <3>1. y \in open /\ y # cached[Shared] /\ cached[owner[y]] = y
      BY <1>11, <2>2 DEF CloseLauncher, NoneLost
    <3>2. owner[y] \in Sessions /\ cached[owner[y]] # Nil
      BY <2>2, <3>1
    <3>3. QED BY <1>11, <3>1, <3>2 DEF CloseLauncher
  <2>3. NoneLost'
    BY <1>11, <2>2 DEF CloseLauncher, NoneLost
  <2>4. QED BY <2>1, <2>3
<1>12. CASE CancelContext
  BY <1>12 DEF CancelContext, CacheInv, NoneLost
<1>13. CASE UNCHANGED backendVars
  BY <1>13 DEF backendVars, conns, shutdownVars, CacheInv, NoneLost
<1>14. QED
  BY <1>1, <1>2, <1>3, <1>4, <1>5, <1>6, <1>7, <1>8, <1>9, <1>10, <1>11, <1>12, <1>13
  DEF LauncherNext, LauncherStep, LockStep, Hangs, Answers, LauncherCallStep, MonitorStep,
      launcherVars

-----------------------------------------------------------------------------
(* Steps that leave the calls alone, refresh entries only and give numbers *)
(* only to new connections.                                                *)
LEMMA CallsUndisturbed ==
  ASSUME LauncherTypeOK, CallInv, UNCHANGED <<kind, callVars>>, stale' \subseteq stale,
         \A c \in Handlers : using[c] # Nil => owner'[using[c]] = owner[using[c]]
  PROVE  CallInv'
BY DEF LauncherTypeOK, CallInv, callVars, Key

LEMMA CallInvStep ==
  ASSUME LauncherTypeOK, CacheInv, CallInv, [LauncherNext]_launcherVars
  PROVE  CallInv'
<1>1. kind' = kind
  BY KindFixed
<1> USE <1>1 DEF LauncherTypeOK
<1>2. ASSUME NEW k \in PoolKeys, LaunchOk(k), UNCHANGED callVars
      PROVE  CallInv'
  <2>1. PICK x \in ConnIDs : Launches(k, x)
    BY <1>2, Launched
  <2>2. QED BY <1>2, <2>1, CallsUndisturbed DEF Launches
<1>3. ASSUME UNCHANGED <<callVars, owner, stale>>
      PROVE  CallInv'
  BY <1>3, CallsUndisturbed
<1>4. CASE Register \/ MonitorLaunches
  BY <1>2, <1>3, <1>4 DEF Register, MonitorLaunches, LaunchFails, LaunchTimesOut, conns
<1>5. ASSUME NEW d \in Handlers, CallArrives(d)
      PROVE  CallInv'
  <2>1. using[d] = Nil
    BY <1>5 DEF CallArrives, CallInv
  <2>2. QED BY <1>5, <2>1 DEF CallArrives, CallGoto, conns, CallInv, Key
<1>6. ASSUME NEW d \in Handlers, GetHit(d) \/ LaunchFound(d)
      PROVE  CallInv'
  <2>1. /\ cached[Key(d)] # Nil
        /\ using' = [using EXCEPT ![d] = cached[Key(d)]]
        /\ stale' = stale \ {Key(d)}
        /\ callPc' = [callPc EXCEPT ![d] = "using"]
        /\ UNCHANGED <<owner, session>>
    BY <1>6 DEF GetHit, LaunchFound, Found, Take, StaleAfterGet, CallGoto, conns
  <2>2. owner[cached[Key(d)]] = Key(d)
    BY <2>1, KeyIsKey DEF CacheInv
  <2>3. QED BY <2>1, <2>2, KeyIsKey DEF CallInv, Key
<1>7. ASSUME NEW d \in Handlers, GetMiss(d) \/ CallFinishes(d)
      PROVE  CallInv'
  <2>1. CASE GetMiss(d)
    BY <2>1 DEF GetMiss, CallGoto, conns, CallInv, Key
  <2>2. CASE CallFinishes(d)
    BY <2>2 DEF CallFinishes, CallGoto, conns, CallInv, Key
  <2>3. QED BY <1>7, <2>1, <2>2
<1>8. ASSUME NEW d \in Handlers, CallLaunches(d)
      PROVE  CallInv'
  <2>1. PICK x \in ConnIDs : x = Fresh /\ Launches(Key(d), x)
    BY <1>8, Launched, KeyIsKey DEF CallLaunches
  <2>2. /\ using' = [using EXCEPT ![d] = x]
        /\ callPc' = [callPc EXCEPT ![d] = "using"]
        /\ session' = session
    BY <1>8, <2>1 DEF CallLaunches, CallGoto
  <2>3. QED BY <2>1, <2>2, KeyIsKey DEF Launches, CallInv, Key
<1>9. ASSUME NEW d \in Handlers, CallLaunchFails(d)
      PROVE  CallInv'
  <2>1. /\ callPc[d] = "launch"
        /\ callPc' = [callPc EXCEPT ![d] = "idle"]
        /\ UNCHANGED <<owner, stale, session, using>>
    BY <1>9 DEF CallLaunchFails, LaunchFails, LaunchTimesOut, CallGoto, conns
  <2>2. QED BY <2>1 DEF CallInv, Key
<1>10. ASSUME NEW s \in Sessions, Age(s)
      PROVE  CallInv'
  BY <1>10 DEF Age, Uses, conns, callVars, CallInv, Key
<1>11. CASE Cleanup \/ CloseLauncher
  BY <1>11, CallsUndisturbed DEF Cleanup, CloseLauncher
<1>12. CASE LateConnects
  <2>1. PICK x \in ConnIDs :
          /\ \A c \in Handlers : using[c] # x
          /\ owner' = [owner EXCEPT ![x] = Late]
    BY <1>12, LateLaunched
  <2>2. QED BY <1>12, <2>1, CallsUndisturbed DEF LateConnects
<1>13. CASE \/ LateFails \/ MonitorSeesError \/ MonitorSeesRunning \/ MonitorClears
            \/ MonitorFinds \/ BeginClose \/ CancelContext
  BY <1>3, <1>13
  DEF LateFails, MonitorSeesError, MonitorSeesRunning, MonitorClears, MonitorFinds,
      BeginClose, CancelContext, conns
<1>14. CASE UNCHANGED backendVars
  BY <1>3, <1>14 DEF backendVars, conns
<1>15. QED
  BY <1>4, <1>5, <1>6, <1>7, <1>8, <1>9, <1>10, <1>11, <1>12, <1>13, <1>14
  DEF LauncherNext, LauncherStep, LockStep, Hangs, Answers, LauncherCallStep, MonitorStep,
      launcherVars

-----------------------------------------------------------------------------
(* The monitor and the record it acts on. *)
StatusInv == StartInv /\ MonitorInv /\ HttpInv

LEMMA StatusStep ==
  ASSUME LauncherTypeOK, StatusInv, [LauncherNext]_launcherVars
  PROVE  StatusInv'
<1>1. kind' = kind
  BY KindFixed
<1> USE <1>1 DEF LauncherTypeOK, StatusInv, StartInv, MonitorInv, HttpInv
<1>2. CASE Register
  <2>1. CASE LaunchOk(Shared)
    <3>1. PICK x \in ConnIDs : Launches(Shared, x)
      BY <2>1, Launched
    <3>2. QED BY <1>2, <3>1 DEF Register, Launches, callVars, monitorVars
  <2>2. CASE LaunchFails \/ LaunchTimesOut
    BY <1>2, <2>2 DEF Register, LaunchFails, LaunchTimesOut, conns, callVars, monitorVars
  <2>3. QED BY <1>2, <2>1, <2>2 DEF Register
<1>3. ASSUME NEW c \in Handlers,
             CallArrives(c) \/ GetHit(c) \/ LaunchFound(c) \/ GetMiss(c) \/ CallFinishes(c)
      PROVE  StatusInv'
  BY <1>3
  DEF CallArrives, GetHit, LaunchFound, Take, GetMiss, CallFinishes, CallGoto, conns, status,
      monitorVars,
      shutdownVars
<1>4. ASSUME NEW c \in Handlers, CallLaunches(c)
      PROVE  StatusInv'
  <2>1. PICK x \in ConnIDs : Launches(Key(c), x)
    BY <1>4, Launched, KeyIsKey DEF CallLaunches
  <2>2. cached[Key(c)] = Nil /\ UNCHANGED <<monitor, failures, phase>>
    BY <1>4 DEF CallLaunches, Found, monitorVars, shutdownVars
  <2>3. StartInv'
    BY <1>4, <2>2 DEF CallLaunches
  <2>4. MonitorInv'
    BY <2>1, <2>2 DEF Launches
  <2>5. HttpInv'
    BY <2>1, <2>2, KeyIsKey DEF Launches
  <2>6. QED BY <2>3, <2>4, <2>5
<1>5. ASSUME NEW c \in Handlers, CallLaunchFails(c)
      PROVE  StatusInv'
  <2>1. /\ callPc[c] = "launch" /\ cached[Key(c)] = Nil
        /\ UNCHANGED <<cached, started, restarts, monitor, failures, phase>>
    BY <1>5
    DEF CallLaunchFails, Found, LaunchFails, LaunchTimesOut, conns, monitorVars, shutdownVars
  <2>2. QED BY <2>1, KeyIsKey
<1>6. CASE (\E s \in Sessions : Age(s)) \/ LateConnects \/ LateFails
  BY <1>6 DEF Age, LateConnects, LateFails, conns, status, callVars, monitorVars, shutdownVars
<1>7. CASE Cleanup
  <2>1. /\ cached'[Shared] = cached[Shared]
        /\ UNCHANGED <<serverErr, started, restarts, callPc, monitor, failures, phase>>
    BY <1>7 DEF Cleanup, status, callVars, monitorVars, shutdownVars
  <2>2. QED BY <2>1
<1>8. CASE MonitorSeesError
  BY <1>8 DEF MonitorSeesError, MayRestart, conns, status, callVars, shutdownVars
<1>9. CASE MonitorSeesRunning
  BY <1>9 DEF MonitorSeesRunning, ServerRunning, conns, status, callVars, shutdownVars
<1>10. CASE MonitorClears
  BY <1>10 DEF MonitorClears, ClearStatus, callVars, shutdownVars
<1>11. CASE MonitorFinds
  BY <1>11 DEF MonitorFinds, conns, status, callVars, shutdownVars
<1>12. CASE MonitorLaunches
  <2>1. CASE LaunchOk(Shared) /\ failures' = 0
    <3>1. PICK x \in ConnIDs : Launches(Shared, x)
      BY <2>1, Launched
    <3>2. QED BY <1>12, <2>1, <3>1 DEF MonitorLaunches, Launches, callVars, shutdownVars
  <2>2. CASE (LaunchFails \/ LaunchTimesOut) /\ failures' = failures + 1
    BY <1>12, <2>2 DEF MonitorLaunches, LaunchFails, LaunchTimesOut, conns, callVars, shutdownVars
  <2>3. QED BY <1>12, <2>1, <2>2 DEF MonitorLaunches
<1>13. CASE BeginClose \/ CancelContext \/ UNCHANGED backendVars
  BY <1>13
  DEF BeginClose, CancelContext, backendVars, conns, status, callVars, monitorVars, shutdownVars
<1>14. CASE CloseLauncher
  BY <1>14 DEF CloseLauncher, status, callVars, monitorVars
<1>15. QED
  BY <1>2, <1>3, <1>4, <1>5, <1>6, <1>7, <1>8, <1>9, <1>10, <1>11, <1>12, <1>13, <1>14
  DEF LauncherNext, LauncherStep, LockStep, Hangs, Answers, LauncherCallStep, MonitorStep,
      launcherVars

-----------------------------------------------------------------------------
(* The invariant. *)
IInv == LauncherTypeOK /\ ConnInv /\ CallInv /\ StatusInv

LEMMA InitInv ==
  LauncherInit => IInv
<1> SUFFICES ASSUME LauncherInit PROVE IInv
  OBVIOUS
<1> USE DEF LauncherInit
<1>1. LauncherTypeOK
  <2>1. cached \in [PoolKeys -> ConnIDs \cup {Nil}] /\ owner \in [ConnIDs -> PoolKeys \cup {Late}]
    OBVIOUS
  <2>2. /\ callPc \in [Handlers -> {"idle", "get", "launch", "using"}]
        /\ using \in [Handlers -> ConnIDs \cup {Nil}]
    OBVIOUS
  <2>3. failures \in 0..MaxFailures /\ late \in Nat /\ restarts \in Nat
    OBVIOUS
  <2>4. QED BY <2>1, <2>2, <2>3 DEF LauncherTypeOK
<1>2. ConnInv
  BY DEF ConnInv, CacheInv, NoneLost
<1>3. CallInv
  BY DEF CallInv
<1>4. StatusInv
  BY DEF StatusInv, StartInv, MonitorInv, HttpInv
<1>5. QED BY <1>1, <1>2, <1>3, <1>4 DEF IInv

LEMMA NextInv ==
  IInv /\ [LauncherNext]_launcherVars => IInv'
BY TypeStep, ConnStep, CallInvStep, StatusStep DEF IInv, StatusInv, ConnInv

(* The inductive invariant: whose every connection is, where a call stands   *)
(* and what the monitor has counted (GetOrLaunch, HealthMonitor).            *)
THEOREM Invariance ==
  LauncherSpec => []IInv
BY InitInv, NextInv, PTL DEF LauncherSpec

(* Every reachable state is well typed. *)
THEOREM TypeCorrect ==
  LauncherSpec => []LauncherTypeOK
<1>1. IInv => LauncherTypeOK
  BY DEF IInv
<1>2. QED BY Invariance, <1>1, PTL

(* No connection is lost sight of: connection_pool.go, launcher.go. *)
THEOREM NoConnectionLost ==
  LauncherSpec => []NoneLost
<1>1. IInv => NoneLost
  BY DEF IInv, ConnInv
<1>2. QED BY Invariance, <1>1, PTL

(* Sessions of a stdio server do not share processes: launcher.go:192-243. *)
THEOREM SessionsApart ==
  LauncherSpec => []OwnConnection
<1>1. IInv => OwnConnection
  BY KeyIsKey DEF IInv, CallInv, OwnConnection
<1>2. QED BY Invariance, <1>1, PTL

(* A server that stays down is restarted MaxFailures times: health_monitor.go. *)
THEOREM RestartsAreBounded ==
  LauncherSpec => []RestartsBounded
<1>1. IInv => RestartsBounded
  BY DEF IInv, LauncherTypeOK, StatusInv, MonitorInv, RestartsBounded
<1>2. QED BY Invariance, <1>1, PTL

(* The record of an http server agrees with its connection: launcher.go:331-363. *)
THEOREM StatusIsHonest ==
  LauncherSpec => []HonestStatus
<1>1. IInv => HonestStatus
  BY DEF IInv, StatusInv, HttpInv, HonestStatus
<1>2. QED BY Invariance, <1>1, PTL

(* No step but the end of the context stops a process in use. *)
THEOREM ProcessesOutliveCalls ==
  LauncherSpec => NotUnderACall
<1> DEFINE P(c) == kind = "stdio" /\ using[c] \in open /\ using'[c] = using[c]
                     => using[c] \in open' \/ ctxDone'
<1>1. ASSUME IInv, [LauncherNext]_launcherVars, NEW c \in Handlers, kind = "stdio",
             using[c] \in open, ~ctxDone'
      PROVE  using[c] \in open'
  <2>1. /\ callPc[c] = "using" /\ Key(c) = session[c] /\ session[c] \in Sessions
        /\ owner[using[c]] = session[c] /\ session[c] \notin stale
    BY <1>1, KeyIsKey DEF IInv, LauncherTypeOK, CallInv
  <2>2. \A k \in PoolKeys : cached[k] = using[c] => k = session[c]
    BY <1>1, <2>1 DEF IInv, LauncherTypeOK, ConnInv, CacheInv
  <2>3. CASE Cleanup
    BY <1>1, <2>1, <2>2, <2>3 DEF IInv, LauncherTypeOK, Cleanup
  <2>4. CASE MonitorClears \/ CloseLauncher
    BY <1>1, <2>1, <2>2, <2>4 DEF MonitorClears, CloseLauncher
  <2>5. CASE CancelContext
    BY <1>1, <2>5 DEF CancelContext
  <2>6. ASSUME NEW k, NewConnection(k)
        PROVE  using[c] \in open'
    BY <1>1, <2>6 DEF NewConnection
  <2>7. CASE Register \/ MonitorLaunches
    BY <1>1, <2>6, <2>7 DEF Register, MonitorLaunches, LaunchOk, LaunchFails, LaunchTimesOut, conns
  <2>8. CASE \E d \in Handlers : CallLaunches(d) \/ CallLaunchFails(d)
    BY <1>1, <2>6, <2>8
    DEF CallLaunches, CallLaunchFails, LaunchOk, LaunchFails, LaunchTimesOut, conns
  <2>9. CASE LateConnects \/ LateFails
    BY <1>1, <2>6, <2>9 DEF LateConnects, LateFails
  <2>10. CASE \E d \in Handlers :
            CallArrives(d) \/ GetHit(d) \/ LaunchFound(d) \/ GetMiss(d) \/ CallFinishes(d)
    BY <1>1, <2>10 DEF CallArrives, GetHit, LaunchFound, Take, GetMiss, CallFinishes, conns
  <2>11. CASE \/ \E s \in Sessions : Age(s)
              \/ MonitorSeesError \/ MonitorSeesRunning \/ MonitorFinds \/ BeginClose
    BY <1>1, <2>11 DEF Age, MonitorSeesError, MonitorSeesRunning, MonitorFinds, BeginClose, conns
  <2>12. CASE UNCHANGED backendVars
    BY <1>1, <2>12 DEF backendVars, conns
  <2>13. QED
    BY <1>1, <2>3, <2>4, <2>5, <2>7, <2>8, <2>9, <2>10, <2>11, <2>12
    DEF LauncherNext, LauncherStep, LockStep, Hangs, Answers, LauncherCallStep, MonitorStep,
        launcherVars
<1>2. IInv /\ [LauncherNext]_launcherVars => [\A c \in Handlers : P(c)]_launcherVars
  BY <1>1
<1>3. QED BY Invariance, <1>2, PTL DEF LauncherSpec, NotUnderACall
=============================================================================
