------------------------ MODULE AgentLifecycle_proofs ------------------------
(***************************************************************************)
(* Theorems about AgentLifecycle for every number of calls, processes,     *)
(* streams, losses and restarts, and for every restart limit.  The         *)
(* invariant behind OnePty and StopReaches says which process the daemon's *)
(* entry names, and that an exit event on its way to the server is that of *)
(* an earlier process: the answer for the running one follows it.          *)
(***************************************************************************)
EXTENDS AgentLifecycle, SequenceTheorems, TLAPS

\* The answer for process p is among the messages after the i-th.
AnsweredAfter(i, p) ==
  \E j \in 1..Len(toServer) : j > i /\ toServer[j].kind = "spawned" /\ toServer[j].pid = p

\* In the daemon: the running process is the one held, which is the newest; the PID
\* file or an answer tells it, unless the answer was lost or nobody waits for it any more;
\* and after every exit event and every answer for another process that the server has not read yet, the answer
\* for the running one is still to come, so that none of them can make the server
\* forget it.
DaemonInv ==
  /\ exits = {}
  /\ \A p \in alive : p = held
  /\ held # 0 => held = spawned
  /\ \A i \in 1..Len(toServer) :
       /\ toServer[i].pid <= spawned
       /\ toServer[i].kind = "spawned" /\ toServer[i].call = NoCall => toServer[i].pid \in orphans
  /\ \A p \in alive : p = pidFile \/ p \in orphans \/ AnsweredAfter(0, p)
  /\ \A i \in 1..Len(toServer) : \A p \in alive :
       \/ toServer[i].kind = "refused"
       \/ toServer[i].kind = "spawned" /\ toServer[i].pid = p
       \/ p \in orphans
       \/ AnsweredAfter(i, p)

\* A timer that is armed is for an agent without streams; a loss that nobody caused is
\* under the timer; and a stop settles such a loss.
PresenceInv ==
  /\ CrashTimerMeansOffline
  /\ LossIsWatched
  /\ stopped => outage # "crash"

\* The inductive invariant.
AgentInv == TypeOK /\ PresenceInv /\ (daemon => DaemonInv)

----------------------------------------------------------------------------
(* Types *)

\* The parts of TypeOK, so that a step has to speak of those it disturbs only.
FlagsOK ==
  /\ daemon \in DaemonModes /\ adopted \in BOOLEAN /\ stopped \in BOOLEAN
  /\ crashTimer \in BOOLEAN /\ listing \in BOOLEAN /\ subscribed \in BOOLEAN

CallsOK == calls \in [Calls -> {"idle", "preparing", "spawning"}]

PidsOK ==
  /\ entry \in 0..MaxProcs /\ handle \in 0..MaxProcs /\ pidFile \in 0..MaxProcs
  /\ listed \in 0..MaxProcs /\ held \in 0..MaxProcs /\ spawned \in 0..MaxProcs
  /\ alive \subseteq Procs /\ exits \subseteq Procs /\ orphans \subseteq 0..MaxProcs

WireOK == toDaemon \in Seq(Calls \cup {Kill, NoCall}) /\ toServer \in Seq(Messages)

CountsOK ==
  /\ streams \in [Procs -> 0..MaxStreams] /\ recent \in 0..MAX_RESTARTS
  /\ losses \in 0..MaxLosses /\ restarts \in 0..MaxRestarts
  /\ outage \in {"none", "crash", "stop", "told"}
  /\ alarms \subseteq {"none", "crash", "stop", "told"}

LEMMA TypeParts == TypeOK <=> FlagsOK /\ CallsOK /\ PidsOK /\ WireOK /\ CountsOK
BY DEF TypeOK, FlagsOK, CallsOK, PidsOK, WireOK, CountsOK

LEMMA TypeInit == Init => TypeOK
<1> SUFFICES ASSUME Init PROVE TypeOK
  OBVIOUS
<1>1. FlagsOK
  BY DEF Init, FlagsOK
<1>2. CallsOK
  BY DEF Init, CallsOK
<1>3. PidsOK
  BY LimitsAssumption DEF Init, PidsOK
<1>4. WireOK
  BY DEF Init, WireOK
<1>5. CountsOK
  BY LimitsAssumption DEF Init, CountsOK
<1>6. QED
  BY <1>1, <1>2, <1>3, <1>4, <1>5, TypeParts

LEMMA FlagsNext == FlagsOK /\ [Next]_vars => FlagsOK'
<1> SUFFICES ASSUME FlagsOK, [Next]_vars PROVE FlagsOK'
  OBVIOUS
<1> USE DEF FlagsOK, presence, crashVars, tracking, procs, wire, boot
<1>1. ASSUME NEW c \in Calls, RestStart(c) \/ WechatStart(c) PROVE FlagsOK'
  BY <1>1 DEF RestStart, WechatStart, Begin
<1>2. ASSUME NEW c \in Calls, SpawnLocally(c) PROVE FlagsOK'
  BY <1>2 DEF SpawnLocally, Register
<1>3. ASSUME NEW c \in Calls, RequestSpawn(c) PROVE FlagsOK'
  BY <1>3 DEF RequestSpawn
<1>4. ASSUME NEW c \in Calls, StartFails(c) PROVE FlagsOK'
  BY <1>4 DEF StartFails
<1>5. ASSUME NEW c \in Calls \cup {NoCall}, HandleSpawn(c) PROVE FlagsOK'
  BY <1>5 DEF HandleSpawn
<1>6. ASSUME NEW p \in Procs, Die(p) PROVE FlagsOK'
  BY <1>6 DEF Die
<1>7. ASSUME NEW p \in Procs, LocalExit(p) PROVE FlagsOK'
  BY <1>7 DEF LocalExit
<1>8. ASSUME NEW p \in Procs, Connect(p) PROVE FlagsOK'
  BY <1>8 DEF Connect
<1>9. ASSUME NEW p \in Procs, Disconnect(p) PROVE FlagsOK'
  BY <1>9 DEF Disconnect, Arm
<1>10. ASSUME NEW k \in 1..Len(toServer), ReceiveChunk(k) PROVE FlagsOK'
  <2>1. adopted' \in BOOLEAN
    BY <1>10 DEF ReceiveChunk, Register, Forget
  <2>2. QED
    BY <2>1, <1>10 DEF ReceiveChunk
<1>11. ASSUME Stop PROVE FlagsOK'
  BY <1>11 DEF Stop
<1>12. ASSUME HandleKill PROVE FlagsOK'
  BY <1>12 DEF HandleKill
<1>13. ASSUME DaemonExit PROVE FlagsOK'
  BY <1>13 DEF DaemonExit
<1>14. ASSUME LinkLost PROVE FlagsOK'
  BY <1>14 DEF LinkLost
<1>15. ASSUME CrashTimerSkips PROVE FlagsOK'
  BY <1>15 DEF CrashTimerSkips
<1>16. ASSUME CrashDeclared PROVE FlagsOK'
  BY <1>16 DEF CrashDeclared, Begin
<1>17. ASSUME RestartForgotten PROVE FlagsOK'
  BY <1>17 DEF RestartForgotten
<1>18. ASSUME ServerRestart PROVE FlagsOK'
  BY <1>18, ModesAssumption DEF ServerRestart
<1>19. ASSUME ListPtys PROVE FlagsOK'
  BY <1>19 DEF ListPtys
<1>20. ASSUME Reattach PROVE FlagsOK'
  BY <1>20 DEF Reattach
<1>21. ASSUME UNCHANGED vars PROVE FlagsOK'
  BY <1>21 DEF vars
<1>22. ASSUME NEW c \in Calls, RequestTimeout(c) PROVE FlagsOK'
  BY <1>22 DEF RequestTimeout
<1>23. QED
  BY <1>1, <1>2, <1>3, <1>4, <1>5, <1>6, <1>7, <1>8, <1>9, <1>10, <1>11, <1>12, <1>13, <1>14,
     <1>15, <1>16, <1>17, <1>18, <1>19, <1>20, <1>21, <1>22 DEF Next

LEMMA CallsNext == CallsOK /\ [Next]_vars => CallsOK'
<1> SUFFICES ASSUME CallsOK, [Next]_vars PROVE CallsOK'
  OBVIOUS
<1> USE DEF CallsOK, presence, crashVars, tracking, procs, wire, boot
<1>1. ASSUME NEW c \in Calls, RestStart(c) \/ WechatStart(c) PROVE CallsOK'
  BY <1>1 DEF RestStart, WechatStart, Begin
<1>2. ASSUME NEW c \in Calls, SpawnLocally(c) PROVE CallsOK'
  BY <1>2 DEF SpawnLocally
<1>3. ASSUME NEW c \in Calls, RequestSpawn(c) PROVE CallsOK'
  BY <1>3 DEF RequestSpawn
<1>4. ASSUME NEW c \in Calls, StartFails(c) PROVE CallsOK'
  BY <1>4 DEF StartFails
<1>5. ASSUME NEW c \in Calls \cup {NoCall}, HandleSpawn(c) PROVE CallsOK'
  BY <1>5 DEF HandleSpawn
<1>6. ASSUME NEW p \in Procs, Die(p) PROVE CallsOK'
  BY <1>6 DEF Die
<1>7. ASSUME NEW p \in Procs, LocalExit(p) PROVE CallsOK'
  BY <1>7 DEF LocalExit
<1>8. ASSUME NEW p \in Procs, Connect(p) PROVE CallsOK'
  BY <1>8 DEF Connect
<1>9. ASSUME NEW p \in Procs, Disconnect(p) PROVE CallsOK'
  BY <1>9 DEF Disconnect
<1>10. ASSUME NEW k \in 1..Len(toServer), ReceiveChunk(k) PROVE CallsOK'
  BY <1>10 DEF ReceiveChunk
<1>11. ASSUME Stop PROVE CallsOK'
  BY <1>11 DEF Stop
<1>12. ASSUME HandleKill PROVE CallsOK'
  BY <1>12 DEF HandleKill
<1>13. ASSUME DaemonExit PROVE CallsOK'
  BY <1>13 DEF DaemonExit
<1>14. ASSUME LinkLost PROVE CallsOK'
  BY <1>14 DEF LinkLost
<1>15. ASSUME CrashTimerSkips PROVE CallsOK'
  BY <1>15 DEF CrashTimerSkips
<1>16. ASSUME CrashDeclared PROVE CallsOK'
  BY <1>16 DEF CrashDeclared, Begin
<1>17. ASSUME RestartForgotten PROVE CallsOK'
  BY <1>17 DEF RestartForgotten
<1>18. ASSUME ServerRestart PROVE CallsOK'
  BY <1>18 DEF ServerRestart
<1>19. ASSUME ListPtys PROVE CallsOK'
  BY <1>19 DEF ListPtys
<1>20. ASSUME Reattach PROVE CallsOK'
  BY <1>20 DEF Reattach
<1>21. ASSUME UNCHANGED vars PROVE CallsOK'
  BY <1>21 DEF vars
<1>22. ASSUME NEW c \in Calls, RequestTimeout(c) PROVE CallsOK'
  BY <1>22 DEF RequestTimeout
<1>23. QED
  BY <1>1, <1>2, <1>3, <1>4, <1>5, <1>6, <1>7, <1>8, <1>9, <1>10, <1>11, <1>12, <1>13, <1>14,
     <1>15, <1>16, <1>17, <1>18, <1>19, <1>20, <1>21, <1>22 DEF Next

LEMMA WireNext == PidsOK /\ WireOK /\ [Next]_vars => WireOK'
<1> SUFFICES ASSUME PidsOK, WireOK, [Next]_vars PROVE WireOK'
  OBVIOUS
<1> USE DEF WireOK, presence, crashVars, tracking, procs, wire, boot
<1>1. ASSUME NEW c \in Calls, RestStart(c) \/ WechatStart(c) PROVE WireOK'
  BY <1>1 DEF RestStart, WechatStart, Begin
<1>2. ASSUME NEW c \in Calls, SpawnLocally(c) PROVE WireOK'
  BY <1>2 DEF SpawnLocally
<1>3. ASSUME NEW c \in Calls, RequestSpawn(c) PROVE WireOK'
  BY <1>3 DEF RequestSpawn
<1>4. ASSUME NEW c \in Calls, StartFails(c) PROVE WireOK'
  BY <1>4 DEF StartFails
<1>5. ASSUME NEW c \in Calls \cup {NoCall}, HandleSpawn(c) PROVE WireOK'
  <2>1. toDaemon' \in Seq(Calls \cup {Kill, NoCall})
    BY <1>5 DEF HandleSpawn
  <2>2. CASE Refuses
    <3>1. [kind |-> "refused", call |-> c, pid |-> 0] \in Messages
      BY LimitsAssumption DEF Messages
    <3>2. toServer' = Append(toServer, [kind |-> "refused", call |-> c, pid |-> 0])
      BY <2>2, <1>5 DEF HandleSpawn
    <3>3. QED
      BY <2>1, <3>1, <3>2
  <2>3. CASE ~Refuses
    <3>1. PICK p \in Procs :
            toServer' = Append(toServer, [kind |-> "spawned", call |-> c, pid |-> p])
      BY <2>3, <1>5 DEF HandleSpawn
    <3>2. [kind |-> "spawned", call |-> c, pid |-> p] \in Messages
      BY LimitsAssumption DEF Messages, Procs
    <3>3. QED
      BY <2>1, <3>1, <3>2
  <2>4. QED
    BY <2>2, <2>3
<1>6. ASSUME NEW p \in Procs, Die(p) PROVE WireOK'
  BY <1>6 DEF Die
<1>7. ASSUME NEW p \in Procs, LocalExit(p) PROVE WireOK'
  BY <1>7 DEF LocalExit
<1>8. ASSUME NEW p \in Procs, Connect(p) PROVE WireOK'
  BY <1>8 DEF Connect
<1>9. ASSUME NEW p \in Procs, Disconnect(p) PROVE WireOK'
  BY <1>9 DEF Disconnect
<1>10. ASSUME NEW k \in 1..Len(toServer), ReceiveChunk(k) PROVE WireOK'
  <2>1. toServer' \in Seq(Messages)
    BY <1>10 DEF ReceiveChunk
  <2>2. QED
    BY <2>1, <1>10 DEF ReceiveChunk
<1>11. ASSUME Stop PROVE WireOK'
  BY <1>11 DEF Stop
<1>12. ASSUME HandleKill PROVE WireOK'
  BY <1>12 DEF HandleKill
<1>13. ASSUME DaemonExit PROVE WireOK'
  <2>1. [kind |-> "exit", call |-> NoCall, pid |-> held] \in Messages
    BY DEF Messages, PidsOK
  <2>2. QED
    BY <2>1, <1>13 DEF DaemonExit
<1>14. ASSUME LinkLost PROVE WireOK'
  BY <1>14 DEF LinkLost
<1>15. ASSUME CrashTimerSkips PROVE WireOK'
  BY <1>15 DEF CrashTimerSkips
<1>16. ASSUME CrashDeclared PROVE WireOK'
  BY <1>16 DEF CrashDeclared
<1>17. ASSUME RestartForgotten PROVE WireOK'
  BY <1>17 DEF RestartForgotten
<1>18. ASSUME ServerRestart PROVE WireOK'
  BY <1>18 DEF ServerRestart
<1>19. ASSUME ListPtys PROVE WireOK'
  BY <1>19 DEF ListPtys
<1>20. ASSUME Reattach PROVE WireOK'
  BY <1>20 DEF Reattach
<1>21. ASSUME UNCHANGED vars PROVE WireOK'
  BY <1>21 DEF vars
<1>22. ASSUME NEW c \in Calls, RequestTimeout(c) PROVE WireOK'
  <2>1. /\ toDaemon \in Seq(Calls \cup {Kill, NoCall}) /\ toServer \in Seq(Messages)
        /\ toDaemon' = [i \in DOMAIN toDaemon |-> IF toDaemon[i] = c THEN NoCall ELSE toDaemon[i]]
        /\ toServer' = [i \in DOMAIN toServer |->
             IF toServer[i].call = c THEN [toServer[i] EXCEPT !.call = NoCall] ELSE toServer[i]]
    BY <1>22 DEF RequestTimeout
  <2>2. \A m \in Messages : [m EXCEPT !.call = NoCall] \in Messages
    BY DEF Messages
  <2>3. toDaemon' \in Seq(Calls \cup {Kill, NoCall})
    BY <2>1
  <2>4. toServer' \in Seq(Messages)
    BY <2>1, <2>2
  <2>5. QED
    BY <2>3, <2>4
<1>23. QED
  BY <1>1, <1>2, <1>3, <1>4, <1>5, <1>6, <1>7, <1>8, <1>9, <1>10, <1>11, <1>12, <1>13, <1>14,
     <1>15, <1>16, <1>17, <1>18, <1>19, <1>20, <1>21, <1>22 DEF Next

LEMMA MessagePids ==
  ASSUME WireOK, NEW i \in 1..Len(toServer) PROVE toServer[i].pid \in 0..MaxProcs
<1>1. toServer[i] \in Messages
  BY DEF WireOK
<1>2. QED
  BY <1>1 DEF Messages

LEMMA UnansweredPids == ASSUME WireOK PROVE Unanswered \subseteq 0..MaxProcs
BY MessagePids DEF WireOK, Unanswered

LEMMA PidsNext == PidsOK /\ WireOK /\ [Next]_vars => PidsOK'
<1> SUFFICES ASSUME PidsOK, WireOK, [Next]_vars PROVE PidsOK'
  OBVIOUS
<1> USE LimitsAssumption DEF PidsOK, Procs, presence, crashVars, tracking, procs, wire, boot
<1>1. ASSUME NEW c \in Calls, RestStart(c) \/ WechatStart(c) PROVE PidsOK'
  BY <1>1 DEF RestStart, WechatStart, Begin
<1>2. ASSUME NEW c \in Calls, SpawnLocally(c) PROVE PidsOK'
  BY <1>2 DEF SpawnLocally, Spawn, Register
<1>3. ASSUME NEW c \in Calls, RequestSpawn(c) PROVE PidsOK'
  BY <1>3 DEF RequestSpawn
<1>4. ASSUME NEW c \in Calls, StartFails(c) PROVE PidsOK'
  BY <1>4 DEF StartFails
<1>5. ASSUME NEW c \in Calls \cup {NoCall}, HandleSpawn(c) PROVE PidsOK'
  <2>1. CASE Refuses
    BY <2>1, <1>5 DEF HandleSpawn
  <2>2. CASE ~Refuses
    <3>1. PICK p \in Procs : /\ Spawn(p) /\ held' = p
                            /\ orphans' = IF c = NoCall THEN orphans \cup {p} ELSE orphans
      BY <2>2, <1>5 DEF HandleSpawn
    <3>2. QED
      BY <3>1, <1>5 DEF HandleSpawn, Spawn
  <2>3. QED
    BY <2>1, <2>2
<1>6. ASSUME NEW p \in Procs, Die(p) PROVE PidsOK'
  BY <1>6 DEF Die
<1>7. ASSUME NEW p \in Procs, LocalExit(p) PROVE PidsOK'
  BY <1>7 DEF LocalExit
<1>8. ASSUME NEW p \in Procs, Connect(p) PROVE PidsOK'
  BY <1>8 DEF Connect
<1>9. ASSUME NEW p \in Procs, Disconnect(p) PROVE PidsOK'
  BY <1>9 DEF Disconnect
<1>10. ASSUME NEW k \in 1..Len(toServer), ReceiveChunk(k) PROVE PidsOK'
  <2> DEFINE new == {toServer[i].pid : i \in {j \in 1..k : Told(toServer[j])}}
  <2>1. \A p \in new : p \in 0..MaxProcs
    BY <1>10, MessagePids
  <2>2. \/ \E p \in new : Register(p)
        \/ Forget
        \/ UNCHANGED tracking
    BY <1>10 DEF ReceiveChunk
  <2>3. entry' \in 0..MaxProcs /\ handle' \in 0..MaxProcs /\ pidFile' \in 0..MaxProcs
    BY <2>1, <2>2, LimitsAssumption DEF Register, Forget
  <2>4. QED
    BY <2>3, <1>10 DEF ReceiveChunk
<1>11. ASSUME Stop PROVE PidsOK'
  <2>1. alive' \subseteq Procs /\ exits' \subseteq Procs
    BY <1>11 DEF Stop
  <2>2. QED
    BY <2>1, <1>11 DEF Stop
<1>12. ASSUME HandleKill PROVE PidsOK'
  BY <1>12 DEF HandleKill
<1>13. ASSUME DaemonExit PROVE PidsOK'
  BY <1>13 DEF DaemonExit
<1>14. ASSUME LinkLost PROVE PidsOK'
  BY <1>14, UnansweredPids DEF LinkLost
<1>15. ASSUME CrashTimerSkips PROVE PidsOK'
  BY <1>15 DEF CrashTimerSkips
<1>16. ASSUME CrashDeclared PROVE PidsOK'
  BY <1>16 DEF CrashDeclared, RestartAllowed, Begin
<1>17. ASSUME RestartForgotten PROVE PidsOK'
  BY <1>17 DEF RestartForgotten
<1>18. ASSUME ServerRestart PROVE PidsOK'
  <2>1. alive' \subseteq Procs /\ exits' \subseteq Procs
    BY <1>18 DEF ServerRestart
  <2>2. orphans' \subseteq 0..MaxProcs
    BY <1>18, UnansweredPids DEF ServerRestart
  <2>3. QED
    BY <2>1, <2>2, <1>18 DEF ServerRestart
<1>19. ASSUME ListPtys PROVE PidsOK'
  BY <1>19 DEF ListPtys
<1>20. ASSUME Reattach PROVE PidsOK'
  BY <1>20 DEF Reattach
<1>21. ASSUME UNCHANGED vars PROVE PidsOK'
  BY <1>21 DEF vars
<1>22. ASSUME NEW c \in Calls, RequestTimeout(c) PROVE PidsOK'
  <2>1. \A i \in DOMAIN toServer : toServer[i].pid \in 0..MaxProcs
    BY MessagePids DEF WireOK
  <2>2. orphans' \subseteq 0..MaxProcs
    BY <1>22, <2>1 DEF RequestTimeout
  <2>3. QED
    BY <1>22, <2>2 DEF RequestTimeout
<1>23. QED
  BY <1>1, <1>2, <1>3, <1>4, <1>5, <1>6, <1>7, <1>8, <1>9, <1>10, <1>11, <1>12, <1>13, <1>14,
     <1>15, <1>16, <1>17, <1>18, <1>19, <1>20, <1>21, <1>22 DEF Next

LEMMA CountsNext == CountsOK /\ [Next]_vars => CountsOK'
<1> SUFFICES ASSUME CountsOK, [Next]_vars PROVE CountsOK'
  OBVIOUS
<1> USE LimitsAssumption DEF CountsOK, presence, crashVars, tracking, procs, wire, boot
<1>1. ASSUME NEW c \in Calls, RestStart(c) \/ WechatStart(c) PROVE CountsOK'
  BY <1>1 DEF RestStart, WechatStart, Begin
<1>2. ASSUME NEW c \in Calls, SpawnLocally(c) PROVE CountsOK'
  BY <1>2 DEF SpawnLocally, Spawn, Register
<1>3. ASSUME NEW c \in Calls, RequestSpawn(c) PROVE CountsOK'
  BY <1>3 DEF RequestSpawn
<1>4. ASSUME NEW c \in Calls, StartFails(c) PROVE CountsOK'
  BY <1>4 DEF StartFails
<1>5. ASSUME NEW c \in Calls \cup {NoCall}, HandleSpawn(c) PROVE CountsOK'
  BY <1>5 DEF HandleSpawn, Spawn
<1>6. ASSUME NEW p \in Procs, Die(p) PROVE CountsOK'
  BY <1>6 DEF Die
<1>7. ASSUME NEW p \in Procs, LocalExit(p) PROVE CountsOK'
  BY <1>7 DEF LocalExit
<1>8. ASSUME NEW p \in Procs, Connect(p) PROVE CountsOK'
  BY <1>8 DEF Connect
<1>9. ASSUME NEW p \in Procs, Disconnect(p) PROVE CountsOK'
  BY <1>9 DEF Disconnect
<1>10. ASSUME NEW k \in 1..Len(toServer), ReceiveChunk(k) PROVE CountsOK'
  BY <1>10 DEF ReceiveChunk, Register, Forget
<1>11. ASSUME Stop PROVE CountsOK'
  BY <1>11 DEF Stop
<1>12. ASSUME HandleKill PROVE CountsOK'
  BY <1>12 DEF HandleKill
<1>13. ASSUME DaemonExit PROVE CountsOK'
  BY <1>13 DEF DaemonExit
<1>14. ASSUME LinkLost PROVE CountsOK'
  BY <1>14 DEF LinkLost
<1>15. ASSUME CrashTimerSkips PROVE CountsOK'
  BY <1>15 DEF CrashTimerSkips
<1>16. ASSUME CrashDeclared PROVE CountsOK'
  BY <1>16 DEF CrashDeclared, RestartAllowed, Begin
<1>17. ASSUME RestartForgotten PROVE CountsOK'
  BY <1>17 DEF RestartForgotten
<1>18. ASSUME ServerRestart PROVE CountsOK'
  BY <1>18 DEF ServerRestart
<1>19. ASSUME ListPtys PROVE CountsOK'
  BY <1>19 DEF ListPtys
<1>20. ASSUME Reattach PROVE CountsOK'
  BY <1>20 DEF Reattach
<1>21. ASSUME UNCHANGED vars PROVE CountsOK'
  BY <1>21 DEF vars
<1>22. ASSUME NEW c \in Calls, RequestTimeout(c) PROVE CountsOK'
  BY <1>22 DEF RequestTimeout
<1>23. QED
  BY <1>1, <1>2, <1>3, <1>4, <1>5, <1>6, <1>7, <1>8, <1>9, <1>10, <1>11, <1>12, <1>13, <1>14,
     <1>15, <1>16, <1>17, <1>18, <1>19, <1>20, <1>21, <1>22 DEF Next

LEMMA TypeNext == TypeOK /\ [Next]_vars => TypeOK'
<1>1. TypeOK' <=> FlagsOK' /\ CallsOK' /\ PidsOK' /\ WireOK' /\ CountsOK'
  BY DEF TypeOK, FlagsOK, CallsOK, PidsOK, WireOK, CountsOK
<1>2. QED
  BY <1>1, TypeParts, FlagsNext, CallsNext, PidsNext, WireNext, CountsNext

\* Every variable keeps its type, for every value of the constants.
THEOREM TypeCorrect == Spec => []TypeOK
BY TypeInit, TypeNext, PTL DEF Spec

----------------------------------------------------------------------------
(* Presence *)

LEMMA PresenceNext == TypeOK /\ PresenceInv /\ [Next]_vars => PresenceInv'
<1> SUFFICES ASSUME TypeOK, PresenceInv, [Next]_vars PROVE PresenceInv'
  OBVIOUS
<1> USE DEF PresenceInv, CrashTimerMeansOffline, LossIsWatched, presence, crashVars, tracking, procs, wire, boot
<1>1. ASSUME NEW c \in Calls, RestStart(c) \/ WechatStart(c) PROVE PresenceInv'
  BY <1>1 DEF RestStart, WechatStart, Begin, isOnline
<1>2. ASSUME NEW c \in Calls, SpawnLocally(c) PROVE PresenceInv'
  BY <1>2 DEF SpawnLocally, isOnline
<1>3. ASSUME NEW c \in Calls, RequestSpawn(c) PROVE PresenceInv'
  BY <1>3 DEF RequestSpawn, isOnline
<1>4. ASSUME NEW c \in Calls, StartFails(c) PROVE PresenceInv'
  BY <1>4 DEF StartFails, isOnline
<1>5. ASSUME NEW c \in Calls \cup {NoCall}, HandleSpawn(c) PROVE PresenceInv'
  BY <1>5 DEF HandleSpawn, isOnline
<1>6. ASSUME NEW p \in Procs, Die(p) PROVE PresenceInv'
  BY <1>6 DEF Die, isOnline
<1>7. ASSUME NEW p \in Procs, LocalExit(p) PROVE PresenceInv'
  BY <1>7 DEF LocalExit, isOnline
<1>8. ASSUME NEW p \in Procs, Connect(p) PROVE PresenceInv'
  <2>1. crashTimer' = FALSE /\ outage' = "none"
    BY <1>8 DEF Connect
  <2>2. QED
    BY <2>1
<1>9. ASSUME NEW p \in Procs, Disconnect(p) PROVE PresenceInv'
  <2>1. CASE LastStream(p)
    <3>1. /\ crashTimer'
          /\ stopped' <=> stopped
          /\ stopped => outage' = "stop"
      BY <2>1, <1>9 DEF Disconnect, Arm
    <3>2. \A q \in Procs : streams'[q] = 0
      <4>1. streams' = [streams EXCEPT ![p] = streams[p] - 1]
        BY <1>9 DEF Disconnect
      <4>2. streams \in [Procs -> 0..MaxStreams]
        BY DEF TypeOK
      <4>3. \A q \in Procs : streams[q] = IF q = p THEN 1 ELSE 0
        BY <2>1 DEF LastStream
      <4>4. QED
        BY <4>1, <4>2, <4>3, <1>9
    <3>3. ~isOnline'
      BY <3>2 DEF isOnline
    <3>4. stopped' => outage' # "crash"
      BY <3>1
    <3>5. QED
      BY <3>1, <3>3, <3>4
  <2>2. CASE ~LastStream(p)
    <3>1. isOnline
      BY <1>9 DEF Disconnect, isOnline
    <3>2. ~crashTimer
      BY <3>1
    <3>3. UNCHANGED <<crashTimer, outage, stopped>>
      BY <2>2, <1>9 DEF Disconnect
    <3>4. QED
      BY <3>2, <3>3
  <2>3. QED
    BY <2>1, <2>2
<1>10. ASSUME NEW k \in 1..Len(toServer), ReceiveChunk(k) PROVE PresenceInv'
  BY <1>10 DEF ReceiveChunk, isOnline
<1>11. ASSUME Stop PROVE PresenceInv'
  <2>1. outage' # "crash" /\ UNCHANGED <<streams, crashTimer>>
    BY <1>11 DEF Stop
  <2>2. QED
    BY <2>1 DEF isOnline
<1>12. ASSUME HandleKill PROVE PresenceInv'
  BY <1>12 DEF HandleKill, isOnline
<1>13. ASSUME DaemonExit PROVE PresenceInv'
  BY <1>13 DEF DaemonExit, isOnline
<1>14. ASSUME LinkLost PROVE PresenceInv'
  BY <1>14 DEF LinkLost, isOnline
<1>15. ASSUME CrashTimerSkips PROVE PresenceInv'
  <2>1. crashTimer /\ (isOnline \/ stopped) /\ crashTimer' = FALSE
        /\ outage' = outage /\ stopped' = stopped
    BY <1>15 DEF CrashTimerSkips
  <2>2. stopped /\ outage # "crash"
    BY <2>1
  <2>3. QED
    BY <2>1, <2>2
<1>16. ASSUME CrashDeclared PROVE PresenceInv'
  <2>1. crashTimer' = FALSE /\ outage' = "told"
    BY <1>16 DEF CrashDeclared
  <2>2. QED
    BY <2>1
<1>17. ASSUME RestartForgotten PROVE PresenceInv'
  BY <1>17 DEF RestartForgotten, isOnline
<1>18. ASSUME ServerRestart PROVE PresenceInv'
  <2>1. crashTimer' = FALSE /\ outage' = "none"
    BY <1>18 DEF ServerRestart
  <2>2. QED
    BY <2>1
<1>19. ASSUME ListPtys PROVE PresenceInv'
  BY <1>19 DEF ListPtys, isOnline
<1>20. ASSUME Reattach PROVE PresenceInv'
  BY <1>20 DEF Reattach, isOnline
<1>21. ASSUME UNCHANGED vars PROVE PresenceInv'
  BY <1>21 DEF vars, isOnline
<1>22. ASSUME NEW c \in Calls, RequestTimeout(c) PROVE PresenceInv'
  BY <1>22 DEF RequestTimeout, isOnline
<1>23. QED
  BY <1>1, <1>2, <1>3, <1>4, <1>5, <1>6, <1>7, <1>8, <1>9, <1>10, <1>11, <1>12, <1>13, <1>14,
     <1>15, <1>16, <1>17, <1>18, <1>19, <1>20, <1>21, <1>22 DEF Next

----------------------------------------------------------------------------
(* The daemon *)

\* What keeps the messages, the daemon's entry and the processes as they are, or ends
\* processes, keeps DaemonInv, as long as the PID file goes on naming what it named.
LEMMA DaemonFrame ==
  ASSUME DaemonInv, UNCHANGED <<exits, held, spawned, toServer, orphans>>,
         alive' \subseteq alive, \A p \in alive' : p = pidFile => p = pidFile'
  PROVE  DaemonInv'
BY DEF DaemonInv, AnsweredAfter

\* The daemon spawns a process for a name that is free.
LEMMA SpawnKeeps ==
  ASSUME TypeOK, DaemonInv, NEW c \in Calls \cup {NoCall}, HandleSpawn(c), ~Refuses
  PROVE  DaemonInv'
<1>1. alive = {}
  BY DEF DaemonInv, Refuses, TypeOK, Procs
<1>2. PICK r \in Procs :
        /\ Spawn(r) /\ held' = r
        /\ toServer' = Append(toServer, [kind |-> "spawned", call |-> c, pid |-> r])
        /\ orphans' = IF c = NoCall THEN orphans \cup {r} ELSE orphans
  BY DEF HandleSpawn
<1> DEFINE n == Len(toServer)
           answer == [kind |-> "spawned", call |-> c, pid |-> r]
<1>3. /\ r = spawned + 1 /\ spawned' = r /\ alive' = {r}
      /\ exits' = exits
  BY <1>1, <1>2 DEF HandleSpawn, Spawn
<1>4. /\ n \in Nat /\ Len(toServer') = n + 1 /\ toServer'[n + 1] = answer
      /\ \A i \in 1..n : toServer'[i] = toServer[i]
  BY <1>2 DEF TypeOK
<1>5. answer.kind = "spawned" /\ answer.pid = r /\ answer.call = c
  OBVIOUS
<1>6. ASSUME NEW i \in 0..n PROVE AnsweredAfter(i, r)'
  BY <1>4, <1>5 DEF AnsweredAfter
<1>7. /\ exits' = {}
      /\ \A p \in alive' : p = held' /\ AnsweredAfter(0, p)'
      /\ held' = spawned'
  BY <1>2, <1>3, <1>4, <1>6 DEF DaemonInv
<1>8. \A i \in 1..Len(toServer') : toServer'[i].pid <= spawned'
  <2> SUFFICES ASSUME NEW i \in 1..Len(toServer') PROVE toServer'[i].pid <= r
    BY <1>3
  <2>1. CASE i = n + 1
    BY <2>1, <1>4, <1>5 DEF Procs
  <2>2. CASE i \in 1..n
    <3>1. toServer[i].pid \in 0..MaxProcs /\ spawned \in 0..MaxProcs
      BY <2>2, MessagePids, TypeParts DEF TypeOK
    <3>2. toServer[i].pid <= spawned
      BY <2>2 DEF DaemonInv
    <3>3. toServer[i].pid <= r
      BY <3>1, <3>2, <1>3, LimitsAssumption
    <3>4. QED
      BY <3>3, <2>2, <1>4
  <2>3. QED
    BY <2>1, <2>2, <1>4
<1>9. ASSUME NEW i \in 1..Len(toServer'),
             toServer'[i].kind = "spawned", toServer'[i].call = NoCall
      PROVE  toServer'[i].pid \in orphans'
  <2>1. CASE i = n + 1
    BY <2>1, <1>2, <1>4, <1>5, <1>9
  <2>2. CASE i \in 1..n
    BY <2>2, <1>2, <1>4, <1>9 DEF DaemonInv
  <2>3. QED
    BY <2>1, <2>2, <1>4
<1>10. ASSUME NEW i \in 1..Len(toServer'), NEW p \in alive'
      PROVE  \/ toServer'[i].kind = "spawned" /\ toServer'[i].pid = p
             \/ AnsweredAfter(i, p)'
  <2>1. p = r
    BY <1>3
  <2>2. CASE i = n + 1
    BY <2>1, <2>2, <1>4, <1>5
  <2>3. CASE i \in 0..n
    BY <2>1, <2>3, <1>6
  <2>4. QED
    BY <2>2, <2>3, <1>4
<1>11. QED
  BY <1>7, <1>8, <1>9, <1>10 DEF DaemonInv

\* A message at the end of the queue, neither an answer nor from a newer process.
LEMMA AppendKeeps ==
  ASSUME TypeOK, DaemonInv, NEW m \in Messages, m.kind # "spawned", m.pid <= spawned,
         m.kind = "exit" => alive = {},
         toServer' = Append(toServer, m), UNCHANGED <<alive, exits, spawned, pidFile, orphans>>,
         held' = held \/ (held' = 0 /\ alive = {})
  PROVE  DaemonInv'
<1> DEFINE n == Len(toServer)
<1>1. toServer \in Seq(Messages)
  BY DEF TypeOK
<1>2. /\ n \in Nat /\ Len(toServer') = n + 1 /\ toServer'[n + 1] = m
      /\ \A i \in 1..n : toServer'[i] = toServer[i]
  BY <1>1
<1>3. ASSUME NEW i, NEW p, AnsweredAfter(i, p) PROVE AnsweredAfter(i, p)'
  BY <1>2, <1>3 DEF AnsweredAfter
<1>4. m.kind \in {"exit", "refused"}
  BY DEF Messages
<1>5. /\ exits' = {}
      /\ \A p \in alive' : p = held'
      /\ held' # 0 => held' = spawned'
  BY DEF DaemonInv
<1>6. \A i \in 1..Len(toServer') :
        /\ toServer'[i].pid <= spawned'
        /\ toServer'[i].kind = "spawned" /\ toServer'[i].call = NoCall => toServer'[i].pid \in orphans'
  BY <1>2 DEF DaemonInv
<1>7. \A p \in alive' : p = pidFile' \/ p \in orphans' \/ AnsweredAfter(0, p)'
  BY <1>3 DEF DaemonInv
<1>8. ASSUME NEW i \in 1..Len(toServer'), NEW p \in alive'
      PROVE  \/ toServer'[i].kind = "refused"
             \/ toServer'[i].kind = "spawned" /\ toServer'[i].pid = p
             \/ p \in orphans'
             \/ AnsweredAfter(i, p)'
  <2>1. CASE i = n + 1
    BY <2>1, <1>2, <1>4
  <2>2. CASE i \in 1..n
    <3>1. \/ toServer[i].kind = "refused"
          \/ toServer[i].kind = "spawned" /\ toServer[i].pid = p
          \/ p \in orphans
          \/ AnsweredAfter(i, p)
      BY <2>2 DEF DaemonInv
    <3>2. QED
      BY <3>1, <2>2, <1>2, <1>3
  <2>3. QED
    BY <2>1, <2>2, <1>2
<1>9. QED
  BY <1>5, <1>6, <1>7, <1>8 DEF DaemonInv

\* The server reads k messages.  The answer for the running process is among them, and
\* is then the newest, or is still to come whenever one of them could mislead.
LEMMA ChunkKeeps ==
  ASSUME TypeOK, daemon, DaemonInv, NEW k \in 1..Len(toServer), ReceiveChunk(k)
  PROVE  DaemonInv'
<1> DEFINE n == Len(toServer)
           new == {toServer[i].pid : i \in {j \in 1..k : Told(toServer[j])}}
           exited == \E i \in 1..k : toServer[i].kind = "exit"
<1>1. toServer \in Seq(Messages) /\ spawned \in Nat /\ n \in Nat /\ k \in 1..n
  BY LimitsAssumption DEF TypeOK
<1>2. /\ Len(toServer') = n - k
      /\ \A i \in 1..(n - k) : toServer'[i] = toServer[i + k]
  <2>1. toServer' = SubSeq(toServer, k + 1, n)
    BY DEF ReceiveChunk
  <2>2. QED
    BY <2>1, <1>1
<1>3. UNCHANGED <<alive, exits, spawned, held, orphans>>
  BY DEF ReceiveChunk, procs
<1>4. ASSUME NEW i \in Nat, NEW p, AnsweredAfter(i, p)
      PROVE  (\E j \in 1..k : j > i /\ toServer[j].kind = "spawned" /\ toServer[j].pid = p)
             \/ \E j \in (k + 1)..n : j > i /\ toServer[j].kind = "spawned" /\ toServer[j].pid = p
  BY <1>1, <1>4 DEF AnsweredAfter
<1>5. ASSUME NEW i \in Nat, NEW p,
             \E j \in (k + 1)..n : j > i + k /\ toServer[j].kind = "spawned" /\ toServer[j].pid = p
      PROVE  AnsweredAfter(i, p)'
  <2>1. PICK j \in (k + 1)..n : j > i + k /\ toServer[j].kind = "spawned" /\ toServer[j].pid = p
    BY <1>5
  <2>2. j - k \in 1..(n - k) /\ j - k > i /\ (j - k) + k = j
    BY <2>1, <1>1
  <2>3. toServer'[j - k] = toServer[j]
    BY <2>2, <1>2
  <2>4. QED
    BY <2>1, <2>2, <2>3, <1>2 DEF AnsweredAfter
<1>6. ASSUME NEW p \in alive, \E j \in (k + 1)..n : toServer[j].kind = "spawned" /\ toServer[j].pid = p
      PROVE  AnsweredAfter(0, p)'
  <2>1. 0 \in Nat /\ \E j \in (k + 1)..n : j > 0 + k /\ toServer[j].kind = "spawned" /\ toServer[j].pid = p
    BY <1>1, <1>6
  <2>2. QED
    BY <2>1, <1>5
<1>7. ASSUME NEW p \in alive PROVE p = pidFile' \/ p \in orphans' \/ AnsweredAfter(0, p)'
  <2> SUFFICES ASSUME p \notin orphans, ~AnsweredAfter(0, p)' PROVE p = pidFile'
    BY <1>3
  <2>1. p = spawned /\ p \in Procs
    BY DEF DaemonInv, TypeOK, Procs
  <2>2. ASSUME NEW i \in Nat, AnsweredAfter(i, p) PROVE p \in new
    <3>1. PICK j \in 1..k : toServer[j].kind = "spawned" /\ toServer[j].pid = p
      BY <2>2, <1>4, <1>6
    <3>2. Told(toServer[j])
      BY <3>1, <1>1 DEF DaemonInv, Told
    <3>3. QED
      BY <3>1, <3>2
  <2>3. ASSUME NEW i \in 1..k, toServer[i].kind # "refused"
        PROVE  (toServer[i].kind = "spawned" /\ toServer[i].pid = p) \/ p \in new
    <3>1. i \in 1..n /\ i \in Nat
      BY <1>1
    <3>2. \/ toServer[i].kind = "spawned" /\ toServer[i].pid = p
          \/ AnsweredAfter(i, p)
      BY <3>1, <2>3 DEF DaemonInv
    <3>3. QED
      BY <3>1, <3>2, <2>2
  <2>4. \A q \in new : q <= p
    BY <2>1, <1>1 DEF DaemonInv, Told
  <2>5. CASE \E q \in new : (\A r \in new : r <= q) /\ Register(q)
    <3>1. PICK q \in new : (\A r \in new : r <= q) /\ Register(q)
      BY <2>5
    <3>2. PICK i \in 1..k : toServer[i].kind = "spawned" /\ toServer[i].pid = q
      BY <3>1 DEF Told
    <3>3. p \in new
      BY <3>2, <2>3
    <3>4. q \in 0..MaxProcs
      <4>1. i \in 1..Len(toServer) /\ WireOK
        BY <1>1, TypeParts
      <4>2. QED
        BY <4>1, <3>2, MessagePids
    <3>5. q <= p /\ p <= q
      BY <3>1, <3>3, <2>4
    <3>6. q = p
      BY <3>4, <3>5, <2>1, LimitsAssumption DEF Procs
    <3>7. QED
      BY <3>6, <3>1 DEF Register
  <2>6. CASE new = {} /\ exited
    <3>1. PICK i \in 1..k : toServer[i].kind = "exit"
      BY <2>6
    <3>2. p \in new
      BY <3>1, <2>3
    <3>3. QED
      BY <3>2, <2>6
  <2>7. CASE new = {} /\ UNCHANGED tracking
    <3>1. ~AnsweredAfter(0, p)
      BY <2>7, <2>2
    <3>2. QED
      BY <3>1, <2>7 DEF DaemonInv, tracking
  <2>8. QED
    BY <2>5, <2>6, <2>7 DEF ReceiveChunk
<1>8. ASSUME NEW i \in 1..Len(toServer')
      PROVE  /\ i + k \in 1..n /\ i + k \in Nat /\ i \in Nat
             /\ toServer'[i] = toServer[i + k]
  BY <1>1, <1>2
<1>9. ASSUME NEW i \in 1..Len(toServer'), NEW p \in alive, AnsweredAfter(i + k, p)
      PROVE  AnsweredAfter(i, p)'
  <2>1. PICK j \in 1..n : j > i + k /\ toServer[j].kind = "spawned" /\ toServer[j].pid = p
    BY <1>9 DEF AnsweredAfter
  <2>2. j \in (k + 1)..n
    BY <2>1, <1>1, <1>8
  <2>3. QED
    BY <2>1, <2>2, <1>5, <1>8
<1>10. \A i \in 1..Len(toServer') :
         /\ toServer'[i].pid <= spawned'
         /\ toServer'[i].kind = "spawned" /\ toServer'[i].call = NoCall => toServer'[i].pid \in orphans'
  BY <1>8, <1>3 DEF DaemonInv
<1>11. ASSUME NEW i \in 1..Len(toServer'), NEW p \in alive'
       PROVE  \/ toServer'[i].kind = "refused"
              \/ toServer'[i].kind = "spawned" /\ toServer'[i].pid = p
              \/ p \in orphans'
              \/ AnsweredAfter(i, p)'
  <2>1. p \in alive
    BY <1>3
  <2>2. \/ toServer[i + k].kind = "refused"
        \/ toServer[i + k].kind = "spawned" /\ toServer[i + k].pid = p
        \/ p \in orphans
        \/ AnsweredAfter(i + k, p)
    BY <2>1, <1>8 DEF DaemonInv
  <2>3. QED
    BY <2>1, <2>2, <1>3, <1>8, <1>9
<1>12. /\ exits' = {}
       /\ \A p \in alive' : p = held'
       /\ held' # 0 => held' = spawned'
  BY <1>3 DEF DaemonInv
<1>13. \A p \in alive' : p = pidFile' \/ p \in orphans' \/ AnsweredAfter(0, p)'
  BY <1>3, <1>7
<1>14. QED
  BY <1>10, <1>11, <1>12, <1>13 DEF DaemonInv

\* What was on its way is lost: the answers among it are remembered as orphans.
LEMMA LossKeeps ==
  ASSUME DaemonInv, toServer' = <<>>, orphans' = orphans \cup Unanswered,
         toServer \in Seq(Messages), UNCHANGED <<alive, exits, spawned, held, pidFile>>
  PROVE  DaemonInv'
<1>1. ASSUME NEW p, AnsweredAfter(0, p) PROVE p \in Unanswered \/ p \in orphans
  BY <1>1 DEF AnsweredAfter, Unanswered, Told, DaemonInv
<1>2. Len(toServer') = 0 /\ 1..Len(toServer') = {}
  OBVIOUS
<1>3. \A p \in alive' : p = pidFile' \/ p \in orphans'
  BY <1>1 DEF DaemonInv
<1>4. QED
  BY <1>2, <1>3 DEF DaemonInv

\* A call gives up: the messages are the same ones, some of them nobody's.
LEMMA TimeoutKeeps ==
  ASSUME TypeOK, DaemonInv, NEW c \in Calls, RequestTimeout(c)
  PROVE  DaemonInv'
<1>1. /\ toServer \in Seq(Messages)
      /\ toServer' = [i \in DOMAIN toServer |->
           IF toServer[i].call = c THEN [toServer[i] EXCEPT !.call = NoCall] ELSE toServer[i]]
      /\ orphans' = orphans \cup {toServer[i].pid : i \in {j \in DOMAIN toServer :
                                     toServer[j].kind = "spawned" /\ toServer[j].call = c}}
      /\ UNCHANGED <<alive, exits, spawned, held, pidFile>>
  BY DEF TypeOK, RequestTimeout, procs, tracking
<1>2. /\ DOMAIN toServer = 1..Len(toServer) /\ Len(toServer') = Len(toServer)
      /\ Len(toServer) \in Nat
  BY <1>1
<1>3. ASSUME NEW i \in 1..Len(toServer)
      PROVE  /\ toServer'[i].kind = toServer[i].kind /\ toServer'[i].pid = toServer[i].pid
             /\ toServer'[i].call = NoCall => toServer[i].call \in {NoCall, c}
  <2>1. toServer[i] \in Messages
    BY <1>1
  <2>2. QED
    BY <1>1, <1>2, <2>1 DEF Messages
<1>4. ASSUME NEW i, NEW p, AnsweredAfter(i, p) PROVE AnsweredAfter(i, p)'
  BY <1>2, <1>3, <1>4 DEF AnsweredAfter
<1>5. /\ exits' = {} /\ (\A p \in alive' : p = held') /\ (held' # 0 => held' = spawned')
  BY <1>1 DEF DaemonInv
<1>6. ASSUME NEW i \in 1..Len(toServer')
      PROVE  /\ toServer'[i].pid <= spawned'
             /\ toServer'[i].kind = "spawned" /\ toServer'[i].call = NoCall => toServer'[i].pid \in orphans'
  BY <1>1, <1>2, <1>3 DEF DaemonInv
<1>7. \A p \in alive' : p = pidFile' \/ p \in orphans' \/ AnsweredAfter(0, p)'
  BY <1>1, <1>4 DEF DaemonInv
<1>8. ASSUME NEW i \in 1..Len(toServer'), NEW p \in alive'
      PROVE  \/ toServer'[i].kind = "refused"
             \/ toServer'[i].kind = "spawned" /\ toServer'[i].pid = p
             \/ p \in orphans'
             \/ AnsweredAfter(i, p)'
  BY <1>1, <1>2, <1>3, <1>4 DEF DaemonInv
<1>9. QED
  BY <1>5, <1>6, <1>7, <1>8 DEF DaemonInv

LEMMA DaemonNext == AgentInv /\ daemon /\ [Next]_vars => DaemonInv'
<1> SUFFICES ASSUME TypeOK, daemon, DaemonInv, [Next]_vars PROVE DaemonInv'
  BY DEF AgentInv
<1> USE DEF presence, crashVars, tracking, procs, wire, boot
<1>1. ASSUME NEW c \in Calls, RestStart(c) \/ WechatStart(c) PROVE DaemonInv'
  BY <1>1, DaemonFrame DEF RestStart, WechatStart
<1>2. ASSUME NEW c \in Calls, SpawnLocally(c) PROVE DaemonInv'
  BY <1>2 DEF SpawnLocally
<1>3. ASSUME NEW c \in Calls, RequestSpawn(c) PROVE DaemonInv'
  BY <1>3, DaemonFrame DEF RequestSpawn
<1>4. ASSUME NEW c \in Calls, StartFails(c) PROVE DaemonInv'
  BY <1>4, DaemonFrame DEF StartFails
<1>5. ASSUME NEW c \in Calls \cup {NoCall}, HandleSpawn(c) PROVE DaemonInv'
  <2>1. CASE Refuses
    <3> DEFINE m == [kind |-> "refused", call |-> c, pid |-> 0]
    <3>1. m \in Messages /\ m.kind = "refused" /\ m.pid <= spawned
      BY LimitsAssumption DEF Messages, TypeOK
    <3>2. /\ toServer' = Append(toServer, m)
          /\ UNCHANGED <<alive, exits, spawned, pidFile, orphans, held>>
      BY <2>1, <1>5 DEF HandleSpawn
    <3>3. QED
      BY <3>1, <3>2, AppendKeeps
  <2>2. QED
    BY <2>1, <1>5, SpawnKeeps
<1>6. ASSUME NEW p \in Procs, Die(p) PROVE DaemonInv'
  BY <1>6, DaemonFrame DEF Die
<1>7. ASSUME NEW p \in Procs, LocalExit(p) PROVE DaemonInv'
  BY <1>7 DEF LocalExit, DaemonInv
<1>8. ASSUME NEW p \in Procs, Connect(p) PROVE DaemonInv'
  BY <1>8, DaemonFrame DEF Connect
<1>9. ASSUME NEW p \in Procs, Disconnect(p) PROVE DaemonInv'
  BY <1>9, DaemonFrame DEF Disconnect
<1>10. ASSUME NEW k \in 1..Len(toServer), ReceiveChunk(k) PROVE DaemonInv'
  BY <1>10, ChunkKeeps
<1>11. ASSUME Stop PROVE DaemonInv'
  <2>1. UNCHANGED <<exits, held, spawned, toServer, orphans>>
    BY <1>11 DEF Stop
  <2>2. alive' \subseteq alive /\ pidFile \notin alive'
    BY <1>11 DEF Stop, Known
  <2>3. QED
    BY <2>1, <2>2, DaemonFrame
<1>12. ASSUME HandleKill PROVE DaemonInv'
  BY <1>12, DaemonFrame DEF HandleKill
<1>13. ASSUME DaemonExit PROVE DaemonInv'
  <2>1. held \in Nat /\ held # 0 /\ held = spawned /\ alive = {}
    BY <1>13, LimitsAssumption DEF DaemonExit, DaemonInv, TypeOK
  <2>2. UNCHANGED <<alive, exits, spawned, pidFile, orphans>> /\ held' = 0
    BY <1>13 DEF DaemonExit
  <2>3. CASE subscribed
    <3> DEFINE m == [kind |-> "exit", call |-> NoCall, pid |-> held]
    <3>1. m \in Messages /\ m.kind = "exit" /\ m.pid <= spawned
      BY <2>1 DEF Messages, TypeOK
    <3>2. toServer' = Append(toServer, m)
      BY <2>3, <1>13 DEF DaemonExit
    <3>3. QED
      BY <3>1, <3>2, <2>1, <2>2, AppendKeeps
  <2>4. CASE ~subscribed
    <3>1. toServer' = toServer
      BY <2>4, <1>13 DEF DaemonExit
    <3>2. QED
      BY <3>1, <2>1, <2>2 DEF DaemonInv, AnsweredAfter
  <2>5. QED
    BY <2>3, <2>4
<1>14. ASSUME LinkLost PROVE DaemonInv'
  BY <1>14, LossKeeps DEF LinkLost, TypeOK
<1>15. ASSUME CrashTimerSkips PROVE DaemonInv'
  BY <1>15, DaemonFrame DEF CrashTimerSkips
<1>16. ASSUME CrashDeclared PROVE DaemonInv'
  BY <1>16, DaemonFrame DEF CrashDeclared
<1>17. ASSUME RestartForgotten PROVE DaemonInv'
  BY <1>17, DaemonFrame DEF RestartForgotten
<1>18. ASSUME ServerRestart PROVE DaemonInv'
  <2>1. exits' = exits
    BY <1>18 DEF ServerRestart, DaemonInv
  <2>2. QED
    BY <2>1, <1>18, LossKeeps DEF ServerRestart, TypeOK
<1>19. ASSUME ListPtys PROVE DaemonInv'
  BY <1>19, DaemonFrame DEF ListPtys
<1>20. ASSUME Reattach PROVE DaemonInv'
  BY <1>20, DaemonFrame DEF Reattach
<1>21. ASSUME UNCHANGED vars PROVE DaemonInv'
  BY <1>21, DaemonFrame DEF vars
<1>22. ASSUME NEW c \in Calls, RequestTimeout(c) PROVE DaemonInv'
  BY <1>22, TimeoutKeeps
<1>23. QED
  BY <1>1, <1>2, <1>3, <1>4, <1>5, <1>6, <1>7, <1>8, <1>9, <1>10, <1>11, <1>12, <1>13, <1>14,
     <1>15, <1>16, <1>17, <1>18, <1>19, <1>20, <1>21, <1>22 DEF Next

\* Whether the terminals live in the daemon is settled at the start.
LEMMA ModeIsFixed == [Next]_vars => (daemon' <=> daemon)
<1> SUFFICES ASSUME [Next]_vars PROVE daemon' <=> daemon
  OBVIOUS
<1> USE DEF boot
<1>1. ASSUME NEW c \in Calls, \/ RestStart(c) \/ WechatStart(c) \/ SpawnLocally(c)
                              \/ RequestSpawn(c) \/ StartFails(c) \/ RequestTimeout(c)
      PROVE  daemon' <=> daemon
  BY <1>1 DEF RestStart, WechatStart, SpawnLocally, RequestSpawn, StartFails, RequestTimeout
<1>2. ASSUME NEW p \in Procs, Die(p) \/ LocalExit(p) \/ Connect(p) \/ Disconnect(p)
      PROVE  daemon' <=> daemon
  BY <1>2 DEF Die, LocalExit, Connect, Disconnect
<1>3. ASSUME NEW k \in 1..Len(toServer), ReceiveChunk(k) PROVE daemon' <=> daemon
  BY <1>3 DEF ReceiveChunk
<1>4. CASE Stop \/ HandleKill \/ DaemonExit \/ LinkLost
  BY <1>4 DEF Stop, HandleKill, DaemonExit, LinkLost
<1>5. CASE CrashTimerSkips \/ CrashDeclared \/ RestartForgotten
  BY <1>5 DEF CrashTimerSkips, CrashDeclared, RestartForgotten
<1>6. CASE ServerRestart \/ ListPtys \/ Reattach
  BY <1>6 DEF ServerRestart, ListPtys, Reattach
<1>7. CASE UNCHANGED vars
  BY <1>7 DEF vars
<1>8. ASSUME NEW c \in Calls \cup {NoCall}, HandleSpawn(c) PROVE daemon' <=> daemon
  BY <1>8 DEF HandleSpawn
<1>9. QED
  BY <1>1, <1>2, <1>3, <1>4, <1>5, <1>6, <1>7, <1>8 DEF Next

----------------------------------------------------------------------------
(* The theorems *)

LEMMA InvInit == Init => AgentInv
<1> SUFFICES ASSUME Init PROVE AgentInv
  OBVIOUS
<1>1. PresenceInv
  BY DEF Init, PresenceInv, CrashTimerMeansOffline, LossIsWatched
<1>2. DaemonInv
  BY DEF Init, DaemonInv
<1>3. QED
  BY <1>1, <1>2, TypeInit DEF AgentInv

LEMMA InvNext == AgentInv /\ [Next]_vars => AgentInv'
<1> SUFFICES ASSUME AgentInv, [Next]_vars PROVE AgentInv'
  OBVIOUS
<1>1. TypeOK' /\ PresenceInv'
  BY TypeNext, PresenceNext DEF AgentInv
<1>2. daemon' => DaemonInv'
  BY ModeIsFixed, DaemonNext
<1>3. QED
  BY <1>1, <1>2 DEF AgentInv

\* The inductive invariant holds.
THEOREM InvCorrect == Spec => []AgentInv
BY InvInit, InvNext, PTL DEF Spec

\* sse.mjs, removeConnection and addConnection: whatever the order in which the streams
\* of several processes of an agent open and close, the crash timer never runs while
\* one of them is open.
THEOREM TimersAreForOffline == Spec => []CrashTimerMeansOffline
<1>1. AgentInv => CrashTimerMeansOffline
  BY DEF AgentInv, PresenceInv
<1>2. QED
  BY <1>1, InvCorrect, PTL

\* sse.mjs: no start, failed start, message of the daemon or late close event takes the
\* timer away from an agent whose last stream went away without a stop.
THEOREM LossesAreWatched == Spec => []LossIsWatched
<1>1. AgentInv => LossIsWatched
  BY DEF AgentInv, PresenceInv
<1>2. QED
  BY <1>1, InvCorrect, PTL

\* pty-daemon.mjs, spawnAgent: whatever restarts crash detection begins, however often
\* the connection breaks and the server restarts, the daemon runs one terminal per agent.
THEOREM OnePtyPerAgent == Spec => []OnePty
<1>1. AgentInv => OnePty
  BY DEF AgentInv, DaemonInv, OnePty
<1>2. QED
  BY <1>1, InvCorrect, PTL

\* process-manager-impl-win.mjs, stopAgent and the PID file: a terminal in the daemon is
\* named by the file or by an answer that a call waits for, unless the answer to its
\* spawn did not find its call (a broken connection, a restart, the ten seconds).
THEOREM StopAlwaysReaches == Spec => []StopReaches
<1>1. TypeOK /\ DaemonInv => alive \subseteq {pidFile} \cup Unanswered \cup orphans
  <2> SUFFICES ASSUME TypeOK, DaemonInv, NEW p \in alive, p # pidFile, p \notin orphans
               PROVE  p \in Unanswered
    OBVIOUS
  <2>1. AnsweredAfter(0, p)
    BY DEF DaemonInv
  <2>2. QED
    BY <2>1 DEF AnsweredAfter, Unanswered, TypeOK, Told, DaemonInv
<1>2. AgentInv => StopReaches
  BY <1>1 DEF AgentInv, StopReaches
<1>3. QED
  BY <1>2, InvCorrect, PTL
=============================================================================
