------------------------- MODULE CoordinatorProofs -------------------------
(* Leases, for any number of tasks and daemons and any times in the order of  *)
(* TimesAssumption: when a lease is kept, which ones a stop leaves behind, and *)
(* that overlapping tasks are told of each other.                             *)
EXTENDS Coordinator, NaturalsInduction, WellFoundedInduction, TLAPS

Opening(m) == m.action \in {"begin", "granted"}

\* What can be under way of a task follows from the state of its scope: one opening
\* request while it begins, heartbeats and one farewell once it is held.
WireInv ==
    /\ \A t \in Tasks : task[t] = "new" => scope[t].state = "none"
    /\ \A t \in Tasks : scope[t].timer => scope[t].state = "held"
    /\ \A m \in wire :
        /\ scope[m.task].state # "none"
        /\ Opening(m) => scope[m.task].state \in {"beginning", "unavailable"}
        /\ m.action = "heartbeat" => scope[m.task].state = "held"
        /\ m.action = "finish" =>
              scope[m.task].state \in {"held", "late"} /\ scope[m.task].end # "none"
    /\ \A m, n \in wire : m.task = n.task /\ Opening(m) /\ Opening(n) => m = n

\* Requests end with the daemon that sent them.
SentInv == \A m \in wire : Running(m.task)

\* The holder of a lease that still renews it.
Keeping(t) == Running(t) /\ scope[t].state = "held" /\ scope[t].end = "none"
Beating(t) == \E m \in wire : m.task = t /\ m.action = "heartbeat"

\* How long ago, at most, the lease was renewed: the way of the request that did it,
\* the intervals of the heartbeats that were lost since, the part of the present one
\* that is over, and the interval before the heartbeat that is under way.
Since(t) == Delay + lost[t] * Beat + (Beat - scope[t].due) + (IF Beating(t) THEN Beat ELSE 0)

\* The lease outlives the losses so far, and the time until the next renewal.
Outlives(t) == lost[t] <= MaxLost /\ Ttl[t] > (lost[t] + 1) * Beat + 2 * Delay

KeptOf(t) ==
    /\ \A m \in wire : m.task = t /\ m.action = "granted" =>
          lease[t].row = "open" /\ lease[t].left + m.age >= Ttl[t]
    /\ Keeping(t) =>
        /\ scope[t].timer
        /\ \A m \in wire : m.task = t /\ m.action = "heartbeat" => m.age + scope[t].due = Beat
        /\ Outlives(t) => lease[t].row = "open" /\ lease[t].left + Since(t) >= Ttl[t]

KeptInv == \A t \in Tasks : KeptOf(t)

\* A held lease that is given back has its farewell under way until it ends or the
\* connections are closed. A stop waits for those it sent itself.
Parted(t) == scope[t].state = "held" /\ scope[t].end # "none" /\ lost[t] = 0

FarewellOf(t) ==
    /\ Parted(t) /\ Active(t) =>
          t \in cut \/ \E m \in wire : m.task = t /\ m.action = "finish"
    /\ t \in cut => ~Running(t)
    /\ t \in cut /\ daemon[Owner[t]] = "stopped" /\ scope[t].state = "held" =>
          scope[t].end = "finished"

FarewellInv == \A t \in Tasks : FarewellOf(t)

IInv == TypeOK /\ WireInv /\ SentInv /\ KeptInv /\ FarewellInv

\* Overlapping workspaces whose leases are active: one holder knows of the other.
OverlapsAreTold ==
    \A t, u \in Tasks :
        t # u /\ Active(t) /\ Active(u) /\ WorkspacesOverlap(Workspace[t], Workspace[u])
            => Told(t, u)

-----------------------------------------------------------------------------
(* Times *)

LEMMA ProductGrows ==
    /\ \A n \in Nat : (n + 1) * Beat = n * Beat + Beat
    /\ \A n \in Nat : n * Beat \in Nat
BY TimesAssumption, SMT

\* A lease renewed no longer ago than Since says is not over.
LEMMA LeaseIsAlive ==
    ASSUME TypeOK, KeptInv, NEW t \in Tasks, Keeping(t), Outlives(t)
    PROVE Active(t)
<1>1. /\ lease[t].row = "open" /\ lease[t].left \in Nat
      /\ lease[t].left + Since(t) >= Ttl[t]
  BY DEF TypeOK, Lease, KeptInv, KeptOf
<1>2. scope[t].due \in 0..Beat /\ lost[t] \in Nat  BY DEF TypeOK, Scope
<1>3. lost[t] * Beat \in Nat /\ (lost[t] + 1) * Beat = lost[t] * Beat + Beat
  BY <1>2, ProductGrows
<1>4. Ttl[t] \in Nat /\ Ttl[t] > lost[t] * Beat + Beat + 2 * Delay
  BY <1>3, TtlAssumption DEF Outlives
<1>5. CASE Beating(t)
  <2>1. PICK m \in wire : m.task = t /\ m.action = "heartbeat"  BY <1>5 DEF Beating
  <2>2. m.age \in 0..Delay /\ m.age + scope[t].due = Beat
    BY <2>1 DEF TypeOK, Message, KeptInv, KeptOf
  <2>3. Since(t) = Delay + lost[t] * Beat + (Beat - scope[t].due) + Beat
    BY <1>5 DEF Since
  <2> QED  BY <1>1, <1>2, <1>3, <1>4, <2>2, <2>3, TimesAssumption DEF Active
<1>6. CASE ~Beating(t)
  <2>1. Since(t) = Delay + lost[t] * Beat + (Beat - scope[t].due)
    BY <1>2, <1>3, <1>6, TimesAssumption DEF Since
  <2> QED  BY <1>1, <1>2, <1>3, <1>4, <2>1, TimesAssumption DEF Active
<1> QED  BY <1>5, <1>6

-----------------------------------------------------------------------------
(* Type correctness *)

LEMMA InitTypeOK == Init => TypeOK
BY TimesAssumption DEF Init, TypeOK, Scope, Lease

LEMMA FinishedTypes ==
    ASSUME TypeOK, NEW T \in SUBSET Tasks, NEW end \in {"finished", "disposed"}
    PROVE  Finished(T, end) \in [Tasks -> Scope] /\ GivenBack(T) \subseteq Message
<1> USE TimesAssumption DEF TypeOK
<1>1. Finished(T, end) \in [Tasks -> Scope]
  <2>1. 0 \in 0..Beat  OBVIOUS
  <2>2. ASSUME NEW r \in Scope
        PROVE [r EXCEPT !.end = end, !.timer = FALSE, !.due = 0] \in Scope
    BY <2>1, Zenon DEF Scope
  <2> QED  BY <2>2 DEF Finished
<1>2. GivenBack(T) \subseteq Message  BY DEF GivenBack, Message
<1> QED  BY <1>1, <1>2

\* The scope of a task that is finished with others, field by field.
LEMMA FinishedFields ==
    ASSUME TypeOK, NEW T \in SUBSET Tasks, NEW end \in {"finished", "disposed"},
           NEW t \in Tasks
    PROVE  IF t \in T /\ scope[t].end = "none"
           THEN /\ Finished(T, end)[t].state = scope[t].state
                /\ Finished(T, end)[t].end = end
                /\ Finished(T, end)[t].timer = FALSE
                /\ Finished(T, end)[t].due = 0
           ELSE Finished(T, end)[t] = scope[t]
<1>1. \A r \in Scope : LET f == [r EXCEPT !.end = end, !.timer = FALSE, !.due = 0]
                       IN  f.state = r.state /\ f.end = end /\ f.timer = FALSE /\ f.due = 0
  BY DEF Scope
<1>2. scope[t] \in Scope  BY DEF TypeOK
<1> QED  BY <1>1, <1>2 DEF Finished

\* What becomes of the scopes when some are finished by the hook and others disposed of.
LEMMA ReleasedFields ==
    ASSUME TypeOK, NEW E \in SUBSET Tasks, NEW D \in SUBSET Tasks,
           NEW t \in Tasks
    PROVE  /\ Released(E, D)[t] \in Scope
           /\ Released(E, D)[t].state = scope[t].state
           /\ t \in E \cup D => Released(E, D)[t].end # "none"
           /\ \/ /\ t \in E \cup D /\ scope[t].end = "none"
                 /\ Released(E, D)[t].end # "none"
                 /\ Released(E, D)[t].timer = FALSE /\ Released(E, D)[t].due = 0
              \/ /\ t \notin E \cup D \/ scope[t].end # "none"
                 /\ Released(E, D)[t].end = scope[t].end
                 /\ Released(E, D)[t].timer = scope[t].timer
                 /\ Released(E, D)[t].due = scope[t].due
<1>1. \A r \in Scope : LET f == [r EXCEPT !.mapped = FALSE]
                       IN  /\ f \in Scope /\ f.state = r.state /\ f.end = r.end
                           /\ f.timer = r.timer /\ f.due = r.due
  BY DEF Scope
<1>2. CASE t \in E
  <2> DEFINE f == Finished(E, "finished")[t]
  <2>1. Released(E, D)[t] = [f EXCEPT !.mapped = FALSE]
    BY <1>2 DEF Released
  <2>2. f \in Scope  BY FinishedTypes
  <2>3. IF t \in E /\ scope[t].end = "none"
        THEN f.state = scope[t].state /\ f.end = "finished" /\ f.timer = FALSE /\ f.due = 0
        ELSE f = scope[t]
    BY FinishedFields
  <2> HIDE DEF f
  <2> QED  BY <1>1, <1>2, <2>1, <2>2, <2>3
<1>3. CASE t \notin E
  <2> DEFINE f == Finished(D, "disposed")[t]
  <2>1. Released(E, D)[t] = f
    BY <1>3 DEF Released
  <2>2. f \in Scope  BY FinishedTypes
  <2>3. IF t \in D /\ scope[t].end = "none"
        THEN f.state = scope[t].state /\ f.end = "disposed" /\ f.timer = FALSE /\ f.due = 0
        ELSE f = scope[t]
    BY FinishedFields
  <2> HIDE DEF f
  <2> QED  BY <1>3, <2>1, <2>2, <2>3
<1> QED  BY <1>2, <1>3

\* The same of the next state, as the invariants need it.
LEMMA ReleasedKeeps ==
    ASSUME TypeOK, NEW E \in SUBSET Tasks, NEW D \in SUBSET Tasks,
           scope' = Released(E, D), NEW t \in Tasks
    PROVE  /\ scope'[t].state = scope[t].state
           /\ scope[t].end # "none" => scope'[t].end = scope[t].end
           /\ t \in E \cup D => scope'[t].end # "none"
           /\ t \notin E \cup D => scope'[t].end = scope[t].end
           /\ scope'[t].timer => scope[t].timer
           /\ scope'[t].end = "none" =>
                 scope'[t].timer = scope[t].timer /\ scope'[t].due = scope[t].due
<1> DEFINE r == Released(E, D)[t]
<1>1. /\ r.state = scope[t].state
      /\ t \in E \cup D => r.end # "none"
      /\ \/ /\ t \in E \cup D /\ scope[t].end = "none"
            /\ r.end # "none"
            /\ r.timer = FALSE /\ r.due = 0
         \/ /\ t \notin E \cup D \/ scope[t].end # "none"
            /\ r.end = scope[t].end
            /\ r.timer = scope[t].timer
            /\ r.due = scope[t].due
  BY ReleasedFields
<1>2. scope'[t] = r  OBVIOUS
<1> HIDE DEF r
<1> QED  BY <1>1, <1>2

LEMMA ReleasedTypes ==
    ASSUME TypeOK, NEW E \in SUBSET Tasks, NEW D \in SUBSET Tasks
    PROVE  Released(E, D) \in [Tasks -> Scope] /\ GivenBack(E \cup D) \subseteq Message
<1>1. Released(E, D) = [t \in Tasks |-> Released(E, D)[t]]  BY DEF Released
<1> QED  BY <1>1, ReleasedFields, FinishedTypes

\* The end of a task finishes its scope, if it has one.
LEMMA FinishReleases ==
    ASSUME NEW t \in Tasks, Finish(t)
    PROVE  \E E \in SUBSET Tasks, D \in SUBSET Tasks :
              /\ scope' = Released(E, D) /\ wire' = wire \cup GivenBack(E \cup D)
              /\ \A u \in E \cup D : u = t
<1> DEFINE T == {u \in {t} : scope[u].mapped}
<1>1. scope' = Released(T, {}) /\ wire' = wire \cup GivenBack(T \cup {})
  BY DEF Finish
<1>2. T \in SUBSET Tasks /\ {} \in SUBSET Tasks /\ \A u \in T \cup {} : u = t
  OBVIOUS
<1> HIDE DEF T
<1> QED  BY <1>1, <1>2

\* A stop finishes the scopes of some of its tasks and disposes of those of others.
LEMMA StopReleases ==
    ASSUME NEW d \in Daemons, Stop(d)
    PROVE  \E E \in SUBSET Tasks, D \in SUBSET Tasks :
              /\ scope' = Released(E, D) /\ wire' = wire \cup GivenBack(E \cup D)
              /\ \A u \in E \cup D : Owner[u] = d
<1> DEFINE own == {t \in Tasks : Owner[t] = d}
           stopped == {t \in own \cap Background : task[t] = "running"}
           S == {t \in own : scope[t].mapped}
<1>1. /\ scope' = Released(S \cap stopped, S \ stopped)
      /\ wire' = wire \cup GivenBack(S)
  BY DEF Stop
<1>2. /\ S \subseteq Tasks /\ (S \cap stopped) \cup (S \ stopped) = S
      /\ \A u \in S : Owner[u] = d
  OBVIOUS
<1> HIDE DEF S, stopped
<1> QED  BY <1>1, <1>2

\* What a daemon that stops or crashes leaves of its scopes.
LEMMA DisconnectedFields ==
    ASSUME TypeOK, NEW d \in Daemons, Disconnected(d), NEW t \in Tasks
    PROVE  /\ Owner[t] # d => scope'[t] = scope[t]
           /\ Owner[t] = d => ~scope'[t].timer
           /\ scope'[t].state = scope[t].state
           /\ scope'[t].end = scope[t].end
<1>1. \A r \in Scope : LET f == [r EXCEPT !.timer = FALSE, !.due = 0, !.mapped = FALSE]
                       IN  f.state = r.state /\ f.end = r.end /\ f.timer = FALSE
  BY DEF Scope
<1>2. scope[t] \in Scope  BY DEF TypeOK
<1>3. CASE Owner[t] # d  BY <1>3 DEF Disconnected
<1>4. CASE Owner[t] = d
  <2>1. scope'[t] = [scope[t] EXCEPT !.timer = FALSE, !.due = 0, !.mapped = FALSE]
    BY <1>4 DEF Disconnected
  <2> QED  BY ONLY <1>1, <1>2, <1>4, <2>1
<1> QED  BY <1>3, <1>4

LEMMA NextTypeOK == TypeOK /\ [Next]_vars => TypeOK'
<1> SUFFICES ASSUME TypeOK, [Next]_vars PROVE TypeOK'  OBVIOUS
<1> USE TimesAssumption DEF TypeOK
<1>1. ASSUME NEW t \in Tasks, Start(t) PROVE TypeOK'
  <2>1. scope' \in [Tasks -> Scope]
    <3>1. [scope[t] EXCEPT !.state = "beginning", !.mapped = TRUE] \in Scope  BY DEF Scope
    <3> QED  BY <1>1, <3>1 DEF Start
  <2>2. wire' \subseteq Message  BY <1>1 DEF Start, Send, Message
  <2> QED  BY <1>1, <2>1, <2>2 DEF Start
<1>2. ASSUME NEW t \in Tasks, StartAlone(t) \/ Cancel(t) PROVE TypeOK'
  BY <1>2 DEF StartAlone, Cancel
<1>3. ASSUME NEW t \in Tasks, BeginAnswered(t) PROVE TypeOK'
  <2>1. Beat \in 0..Beat  OBVIOUS
  <2>2. scope' \in [Tasks -> Scope]
    <3>1. ASSUME NEW r \in Scope
          PROVE  [r EXCEPT !.state = "held", !.timer = TRUE, !.due = Beat] \in Scope
      BY <2>1, Zenon DEF Scope
    <3>2. ASSUME NEW r \in Scope PROVE [r EXCEPT !.state = "late"] \in Scope
      BY DEF Scope
    <3>3. \/ scope' = [scope EXCEPT ![t] =
                [@ EXCEPT !.state = "held", !.timer = TRUE, !.due = Beat]]
          \/ scope' = [scope EXCEPT ![t] = [@ EXCEPT !.state = "late"]]
      BY <1>3 DEF BeginAnswered
    <3>4. PICK r \in Scope : scope' = [scope EXCEPT ![t] = r]
      BY <3>1, <3>2, <3>3
    <3> QED  BY <3>4
  <2>3. wire' \subseteq Message  BY <1>3 DEF BeginAnswered, Message
  <2> QED  BY <1>3, <2>2, <2>3 DEF BeginAnswered
<1>4. ASSUME NEW t \in Tasks, BeginFails(t) PROVE TypeOK'
  BY <1>4 DEF BeginFails, Scope
<1>5. ASSUME NEW t \in Tasks, Heartbeat(t) PROVE TypeOK'
  BY <1>5 DEF Heartbeat, Send, Scope, Message
<1>7. ASSUME NEW t \in Tasks, Finish(t) PROVE TypeOK'
  <2> DEFINE T == {u \in {t} : scope[u].mapped}
  <2>1. Released(T, {}) \in [Tasks -> Scope] /\ GivenBack(T) \subseteq Message
    BY ReleasedTypes, FinishedTypes
  <2> QED  BY <1>7, <2>1 DEF Finish
<1>8. ASSUME NEW d \in Daemons, Stop(d) PROVE TypeOK'
  <2> DEFINE own == {t \in Tasks : Owner[t] = d}
             stopped == {t \in own \cap Background : task[t] = "running"}
             S == {t \in own : scope[t].mapped}
  <2>0. S \in SUBSET Tasks /\ S \cap stopped \in SUBSET Tasks /\ S \ stopped \in SUBSET Tasks
    OBVIOUS
  <2>2. /\ scope' = Released(S \cap stopped, S \ stopped)
        /\ wire' = wire \cup GivenBack(S)
        /\ task' = [t \in Tasks |-> IF t \in stopped THEN "ended" ELSE task[t]]
        /\ daemon' = [daemon EXCEPT ![d] = "stopping"]
        /\ UNCHANGED <<lease, lost, cut>>
    BY <1>8 DEF Stop
  <2> HIDE DEF S, stopped
  <2>1. /\ Released(S \cap stopped, S \ stopped) \in [Tasks -> Scope]
        /\ GivenBack(S) \subseteq Message
    BY ONLY TypeOK, <2>0, ReleasedTypes, FinishedTypes
  <2> QED  BY <2>1, <2>2
<1>9. ASSUME NEW d \in Daemons, Stopped(d) \/ Crash(d) PROVE TypeOK'
  <2>1. Disconnected(d)  BY <1>9 DEF Stopped, Crash
  <2>2. scope' \in [Tasks -> Scope]
    <3>1. 0 \in 0..Beat  OBVIOUS
    <3>2. ASSUME NEW r \in Scope
          PROVE [r EXCEPT !.timer = FALSE, !.due = 0, !.mapped = FALSE] \in Scope
      BY <3>1, Zenon DEF Scope
    <3> QED  BY <2>1, <3>2 DEF Disconnected
  <2>3. wire' \subseteq Message  BY <2>1 DEF Disconnected
  <2>4. cut' \subseteq Tasks  BY <2>1 DEF Disconnected, Message
  <2> QED  BY <1>9, <2>2, <2>3, <2>4 DEF Stopped, Crash
<1>10. Cleaned \in [Tasks -> Lease]  BY DEF Cleaned, Lease
<1>11. ASSUME NEW m \in wire, BeginTask(m) PROVE TypeOK'
  <2>1. m.task \in Tasks /\ [m EXCEPT !.action = "granted"] \in Message
    BY DEF Message
  <2>2. wire' \subseteq Message  BY <1>11, <2>1 DEF BeginTask
  <2>3. [row |-> "open", left |-> Ttl[m.task], told |-> Conflicts(m.task)] \in Lease
    BY <2>1, TtlAssumption DEF Lease, Conflicts
  <2>4. lease' \in [Tasks -> Lease]  BY <1>10, <1>11, <2>1, <2>3 DEF BeginTask
  <2> QED  BY <1>11, <2>2, <2>4 DEF BeginTask
<1>12. ASSUME NEW m \in wire, RenewLease(m) PROVE TypeOK'
  <2>1. m.task \in Tasks /\ Ttl[m.task] \in Nat  BY TtlAssumption DEF Message
  <2>2. lease' \in [Tasks -> Lease]
    <3>1. [lease[m.task] EXCEPT !.left = Ttl[m.task]] \in Lease  BY <2>1 DEF Lease
    <3> QED  BY <1>12, <2>1, <3>1 DEF RenewLease
  <2>3. lost' \in [Tasks -> Nat]  BY <1>12, <2>1 DEF RenewLease
  <2> QED  BY <1>12, <2>2, <2>3 DEF RenewLease
<1>13. ASSUME NEW m \in wire, FinishTask(m) PROVE TypeOK'
  <2>1. m.task \in Tasks  BY DEF Message
  <2>2. ASSUME NEW r \in Lease PROVE [r EXCEPT !.row = "over", !.left = 0] \in Lease
    <3>1. 0 \in Nat  OBVIOUS
    <3> QED  BY <3>1, Zenon DEF Lease
  <2>3. lease' \in [Tasks -> Lease]  BY <1>13, <2>1, <2>2 DEF FinishTask
  <2> QED  BY <1>13, <2>3 DEF FinishTask
<1>14. ASSUME NEW m \in wire, Lose(m) PROVE TypeOK'
  BY <1>14 DEF Lose, Message
<1>15. CASE ListActive
  BY <1>10, <1>15 DEF ListActive
<1>16. CASE Tick
  <2>1. ASSUME NEW m \in wire PROVE [m EXCEPT !.age = @ + 1] \in Message
    <3>1. m.age \in 0..Delay /\ m.age < Delay  BY <1>16 DEF Tick, Message
    <3>2. m.age + 1 \in 0..Delay  BY <3>1
    <3> QED  BY <3>2 DEF Message
  <2>2. wire' \subseteq Message  BY <1>16, <2>1 DEF Tick
  <2>3. scope' \in [Tasks -> Scope]
    <3>1. ASSUME NEW t \in Tasks
          PROVE [scope[t] EXCEPT !.due = IF @ > 0 THEN @ - 1 ELSE 0] \in Scope
      <4>1. scope[t].due \in 0..Beat  BY DEF Scope
      <4>2. (IF scope[t].due > 0 THEN scope[t].due - 1 ELSE 0) \in 0..Beat  BY <4>1
      <4> QED  BY <4>2 DEF Scope
    <3> QED  BY <1>16, <3>1 DEF Tick
  <2>4. lease' \in [Tasks -> Lease]
    <3>1. ASSUME NEW t \in Tasks
          PROVE [lease[t] EXCEPT !.left = IF @ > 0 THEN @ - 1 ELSE 0] \in Lease
      <4>1. lease[t].left \in Nat  BY DEF Lease
      <4>2. (IF lease[t].left > 0 THEN lease[t].left - 1 ELSE 0) \in Nat  BY <4>1
      <4> QED  BY <4>2 DEF Lease
    <3> QED  BY <1>16, <3>1 DEF Tick
  <2> QED  BY <1>16, <2>2, <2>3, <2>4 DEF Tick
<1>17. CASE UNCHANGED vars  BY <1>17 DEF vars
<1> QED
  BY <1>1, <1>2, <1>3, <1>4, <1>5, <1>7, <1>8, <1>9, <1>11, <1>12, <1>13, <1>14,
     <1>15, <1>16, <1>17 DEF Next, Serve

-----------------------------------------------------------------------------
(* What is under way *)

LEMMA InitWireInv == Init => WireInv
BY DEF Init, WireInv

LEMMA NextWireInv == TypeOK /\ WireInv /\ [Next]_vars => WireInv'
<1> SUFFICES ASSUME TypeOK, WireInv, [Next]_vars PROVE WireInv'  OBVIOUS
<1>0. \A m \in wire : m \in Message /\ m.task \in Tasks  BY DEF TypeOK, Message
<1>1. ASSUME NEW t \in Tasks, Start(t) PROVE WireInv'
  <2> DEFINE b == [task |-> t, action |-> "begin", age |-> 0]
  <2>1. wire' = wire \cup {b} /\ task' = [task EXCEPT ![t] = "running"]
    BY <1>1 DEF Start, Send
  <2>2. b.task = t /\ b.action = "begin"  OBVIOUS
  <2>3. scope[t].state = "none" /\ ~scope[t].timer /\ \A m \in wire : m.task # t
    BY <1>1 DEF Start, WireInv
  <2>4. /\ \A u \in Tasks : u # t => scope'[u] = scope[u]
        /\ scope'[t].state = "beginning" /\ scope'[t].timer = scope[t].timer
    BY <1>1 DEF Start, TypeOK, Scope
  <2> HIDE DEF b
  <2> QED  BY <1>0, <2>1, <2>2, <2>3, <2>4 DEF WireInv, TypeOK, Opening
<1>2. ASSUME NEW t \in Tasks, StartAlone(t) \/ Cancel(t) PROVE WireInv'
  BY <1>2 DEF StartAlone, Cancel, WireInv, TypeOK
<1>3. ASSUME NEW t \in Tasks, BeginAnswered(t) PROVE WireInv'
  <2>1. PICK g \in Under(t) :
          /\ g.action = "granted"
          /\ IF scope[t].end = "none"
             THEN /\ scope' = [scope EXCEPT ![t].state = "held",
                                            ![t].timer = TRUE, ![t].due = Beat]
                  /\ wire' = wire \ {g}
             ELSE /\ scope' = [scope EXCEPT ![t].state = "late"]
                  /\ wire' = (wire \ {g}) \cup
                       {[task |-> t, action |-> "finish", age |-> 0]}
    BY <1>3 DEF BeginAnswered
  <2>2. g \in wire /\ g.task = t  BY <2>1 DEF Under
  <2>3. \A m \in wire \ {g} : m.task = t => ~Opening(m) /\ m.action \notin {"heartbeat", "finish"}
    BY <1>3, <2>1, <2>2 DEF BeginAnswered, WireInv, Opening
  <2>4. \A m \in wire \ {g} : m.task # t
    BY <1>0, <2>3 DEF Opening, Message
  <2>5. /\ task' = task /\ scope[t].state = "beginning"
        /\ \A u \in Tasks : u # t => scope'[u] = scope[u]
        /\ scope'[t].end = scope[t].end
        /\ scope'[t].state = IF scope[t].end = "none" THEN "held" ELSE "late"
        /\ scope[t].end # "none" => scope'[t].timer = scope[t].timer
    BY <1>3, <2>1 DEF BeginAnswered, TypeOK, Scope
  <2>6. CASE scope[t].end = "none"
    BY <1>0, <2>1, <2>4, <2>5, <2>6 DEF WireInv, Opening
  <2>7. CASE scope[t].end # "none"
    <3> DEFINE f == [task |-> t, action |-> "finish", age |-> 0]
    <3>1. wire' = (wire \ {g}) \cup {f} /\ f.task = t /\ f.action = "finish"
      BY <2>1, <2>7
    <3> HIDE DEF f
    <3> QED  BY <1>0, <2>4, <2>5, <2>7, <3>1 DEF WireInv, Opening
  <2> QED  BY <2>6, <2>7
<1>4. ASSUME NEW t \in Tasks, BeginFails(t) PROVE WireInv'
  <2>1. /\ \A u \in Tasks : scope'[u].end = scope[u].end /\ scope'[u].timer = scope[u].timer
        /\ \A u \in Tasks : u # t => scope'[u] = scope[u]
        /\ scope[t].state = "beginning" /\ scope'[t].state = "unavailable"
    BY <1>4 DEF BeginFails, TypeOK, Scope
  <2> QED  BY <1>0, <1>4, <2>1 DEF BeginFails, WireInv, Opening
<1>5. ASSUME NEW t \in Tasks, Heartbeat(t) PROVE WireInv'
  <2> DEFINE h == [task |-> t, action |-> "heartbeat", age |-> 0]
  <2>1. /\ task' = task /\ scope[t].timer
        /\ wire' = wire \/ wire' = wire \cup {h}
    BY <1>5 DEF Heartbeat, Send
  <2>2. h.task = t /\ h.action = "heartbeat"  OBVIOUS
  <2>3. \A u \in Tasks : /\ scope'[u].state = scope[u].state
                         /\ scope'[u].end = scope[u].end
                         /\ scope'[u].timer = scope[u].timer
    BY <1>5 DEF Heartbeat, TypeOK, Scope
  <2> HIDE DEF h
  <2> QED  BY <1>0, <2>1, <2>2, <2>3 DEF WireInv, Opening
\* Scopes are finished and disposed of: what changes of them, and what is sent.
<1>6. ASSUME NEW E \in SUBSET Tasks, NEW D \in SUBSET Tasks,
             \A u \in Tasks : task'[u] = "new" => task[u] = "new",
             scope' = Released(E, D), wire' = wire \cup GivenBack(E \cup D)
      PROVE WireInv'
  <2>1. ASSUME NEW u \in Tasks
        PROVE  /\ scope'[u].state = scope[u].state
               /\ scope[u].end # "none" => scope'[u].end # "none"
               /\ scope'[u].timer => scope[u].timer
               /\ u \in E \cup D => scope'[u].end # "none"
    BY <1>6, ReleasedKeeps
  <2>2. \A m \in GivenBack(E \cup D) :
            m.task \in E \cup D /\ m.action = "finish" /\ scope[m.task].state = "held"
    BY DEF GivenBack
  <2>3. \A m \in wire' : m \in wire \/
            (m.task \in Tasks /\ m.action = "finish" /\ scope'[m.task].state = "held"
                              /\ scope'[m.task].end # "none")
    BY <1>6, <2>1, <2>2
  <2>4. \A m \in wire' : Opening(m) => m \in wire  BY <2>3 DEF Opening
  <2>5. \A m \in wire' :
          /\ scope'[m.task].state # "none"
          /\ Opening(m) => scope'[m.task].state \in {"beginning", "unavailable"}
          /\ m.action = "heartbeat" => scope'[m.task].state = "held"
          /\ m.action = "finish" =>
                scope'[m.task].state \in {"held", "late"} /\ scope'[m.task].end # "none"
    BY <1>0, <2>1, <2>3 DEF WireInv, Opening
  <2>6. \A m, n \in wire' : m.task = n.task /\ Opening(m) /\ Opening(n) => m = n
    BY <2>4 DEF WireInv
  <2> QED  BY <1>6, <2>1, <2>5, <2>6 DEF WireInv, Opening
<1>7. ASSUME NEW t \in Tasks, Finish(t) PROVE WireInv'
  <2>1. PICK E \in SUBSET Tasks, D \in SUBSET Tasks :
          /\ scope' = Released(E, D) /\ wire' = wire \cup GivenBack(E \cup D)
    BY <1>7, FinishReleases
  <2>2. \A u \in Tasks : task'[u] = "new" => task[u] = "new"
    BY <1>7 DEF Finish, TypeOK
  <2> QED  BY <1>6, <2>1, <2>2
<1>8. ASSUME NEW d \in Daemons, Stop(d) PROVE WireInv'
  <2>1. PICK E \in SUBSET Tasks, D \in SUBSET Tasks :
          /\ scope' = Released(E, D) /\ wire' = wire \cup GivenBack(E \cup D)
    BY <1>8, StopReleases
  <2>2. \A u \in Tasks : task'[u] = "new" => task[u] = "new"
    BY <1>8 DEF Stop, TypeOK
  <2> QED  BY <1>6, <2>1, <2>2
<1>9. ASSUME NEW d \in Daemons, Stopped(d) \/ Crash(d) PROVE WireInv'
  <2>1. task' = task /\ wire' \subseteq wire
    BY <1>9 DEF Stopped, Crash, Disconnected
  <2>2. \A u \in Tasks : /\ scope'[u].state = scope[u].state
                         /\ scope'[u].end = scope[u].end
                         /\ scope'[u].timer => scope[u].timer
    BY <1>9, DisconnectedFields DEF Stopped, Crash
  <2> QED  BY <1>0, <2>1, <2>2 DEF WireInv
<1>10. ASSUME NEW m \in wire, BeginTask(m) PROVE WireInv'
  <2> DEFINE g == [m EXCEPT !.action = "granted"]
  <2>1. /\ task' = task /\ scope' = scope /\ m.action = "begin"
        /\ wire' = wire \ {m} \/ wire' = (wire \ {m}) \cup {g}
    BY <1>10 DEF BeginTask
  <2>2. g.task = m.task /\ g.action = "granted"  BY <1>0 DEF Message
  <2> HIDE DEF g
  <2>3. \A n \in wire \ {m} : n.task = m.task => ~Opening(n)
    BY <2>1 DEF WireInv, Opening
  <2> QED  BY <1>0, <2>1, <2>2, <2>3 DEF WireInv, Opening
<1>11. ASSUME NEW m \in wire, RenewLease(m) \/ FinishTask(m) \/ Lose(m) PROVE WireInv'
  <2>1. task' = task /\ scope' = scope /\ wire' = wire \ {m}
    BY <1>11 DEF RenewLease, FinishTask, Lose
  <2> QED  BY <2>1 DEF WireInv
<1>12. CASE Tick
  <2>1. \A u \in Tasks : /\ scope'[u].state = scope[u].state
                         /\ scope'[u].end = scope[u].end
                         /\ scope'[u].timer = scope[u].timer
    BY <1>12 DEF Tick, TypeOK, Scope
  <2>2. task' = task /\ wire' = {[m EXCEPT !.age = @ + 1] : m \in wire}
    BY <1>12 DEF Tick
  <2>3. \A m \in wire : /\ [m EXCEPT !.age = @ + 1].task = m.task
                        /\ [m EXCEPT !.age = @ + 1].action = m.action
    BY <1>0 DEF Message
  <2>4. \A n \in wire' : \E m \in wire :
            n = [m EXCEPT !.age = @ + 1] /\ n.task = m.task /\ n.action = m.action
    BY <2>2, <2>3
  <2> QED  BY <1>0, <2>1, <2>2, <2>4 DEF WireInv, Opening
<1>13. CASE ListActive \/ UNCHANGED vars
  BY <1>13 DEF ListActive, vars, WireInv
<1> QED
  BY <1>1, <1>2, <1>3, <1>4, <1>5, <1>7, <1>8, <1>9, <1>10, <1>11, <1>12, <1>13
     DEF Next, Serve

LEMMA InitSentInv == Init => SentInv
BY DEF Init, SentInv

LEMMA NextSentInv == TypeOK /\ SentInv /\ [Next]_vars => SentInv'
<1> SUFFICES ASSUME TypeOK, SentInv, [Next]_vars PROVE SentInv'  OBVIOUS
<1>0. \A m \in wire : m \in Message /\ m.task \in Tasks  BY DEF TypeOK, Message
\* A running task sends, or a message is answered or lost.
<1>1. ASSUME NEW t \in Tasks, Running(t), daemon' = daemon,
             \A m \in wire' : m \in wire \/ m.task = t
      PROVE SentInv'
  BY <1>1 DEF SentInv, Running
<1>2. ASSUME daemon' = daemon, \A n \in wire' : \E m \in wire : n.task = m.task
      PROVE SentInv'
  BY <1>2 DEF SentInv, Running
<1>3. ASSUME NEW t \in Tasks,
             Start(t) \/ BeginAnswered(t) \/ Heartbeat(t) \/ Finish(t)
      PROVE SentInv'
  BY <1>1, <1>3 DEF Start, BeginAnswered, Heartbeat, Finish, Send, GivenBack
<1>4. ASSUME NEW t \in Tasks, StartAlone(t) \/ BeginFails(t) \/ Cancel(t) PROVE SentInv'
  BY <1>2, <1>4 DEF StartAlone, BeginFails, Cancel
<1>5. ASSUME NEW d \in Daemons, Stop(d) PROVE SentInv'
  <2>1. PICK E \in SUBSET Tasks, D \in SUBSET Tasks :
          wire' = wire \cup GivenBack(E \cup D) /\ \A u \in E \cup D : Owner[u] = d
    BY <1>5, StopReleases
  <2>2. \A m \in wire' : m \in wire \/ m.task \in E \cup D
    BY <2>1 DEF GivenBack
  <2>3. daemon' = [daemon EXCEPT ![d] = "stopping"] /\ daemon[d] = "up"  BY <1>5 DEF Stop
  <2>4. \A u \in Tasks : Running(u) \/ Owner[u] = d => Running(u)'
    BY <2>3, OwnerAssumption DEF Running, TypeOK
  <2> QED  BY <1>0, <2>1, <2>2, <2>4 DEF SentInv
<1>6. ASSUME NEW d \in Daemons, Stopped(d) \/ Crash(d) PROVE SentInv'
  <2>1. \A m \in wire' : m \in wire /\ Owner[m.task] # d
    BY <1>6 DEF Stopped, Crash, Disconnected
  <2>2. \A u \in Tasks : Owner[u] # d => daemon'[Owner[u]] = daemon[Owner[u]]
    BY <1>6, OwnerAssumption DEF Stopped, Crash, TypeOK
  <2> QED  BY <1>0, <2>1, <2>2 DEF SentInv, Running
<1>7. ASSUME NEW m \in wire, Serve(m) \/ Lose(m) PROVE SentInv'
  <2>1. [m EXCEPT !.action = "granted"].task = m.task  BY <1>0 DEF Message
  <2>2. daemon' = daemon /\ \A n \in wire' : n \in wire \/ n.task = m.task
    BY <1>7, <2>1 DEF Serve, BeginTask, RenewLease, FinishTask, Lose
  <2> QED  BY <1>2, <2>2
<1>8. CASE ListActive \/ UNCHANGED vars
  BY <1>2, <1>8 DEF ListActive, vars
<1>9. CASE Tick
  <2>1. \A m \in wire : [m EXCEPT !.age = @ + 1].task = m.task  BY <1>0 DEF Message
  <2>2. daemon' = daemon /\ \A n \in wire' : \E m \in wire : n.task = m.task
    BY <1>9, <2>1 DEF Tick
  <2> QED  BY <1>2, <2>2
<1> QED  BY <1>3, <1>4, <1>5, <1>6, <1>7, <1>8, <1>9 DEF Next

-----------------------------------------------------------------------------
(* A lease is kept *)

LEMMA SinceIsNatural ==
    ASSUME TypeOK, NEW t \in Tasks
    PROVE  Since(t) \in Nat /\ Since(t) >= Delay
<1>1. scope[t].due \in 0..Beat /\ lost[t] * Beat \in Nat
  BY ProductGrows DEF TypeOK, Scope
<1> QED  BY <1>1, TimesAssumption DEF Since

\* What does not bear on the lease of a task: messages of other kinds, and a cleanup,
\* which finds no lease that is kept or just granted.
LEMMA KeptUntouched ==
    ASSUME TypeOK, KeptInv, NEW t \in Tasks,
           \A m : m.task = t /\ m.action \in {"granted", "heartbeat"} =>
                    (m \in wire' <=> m \in wire),
           lease'[t] \in {lease[t], Cleaned[t]},
           Keeping(t)' => /\ Keeping(t)
                          /\ scope'[t].timer = scope[t].timer
                          /\ scope'[t].due = scope[t].due
                          /\ lost'[t] = lost[t]
    PROVE  KeptOf(t)'
<1> USE DEF KeptInv
<1>1. Beating(t)' <=> Beating(t)  BY DEF Beating
<1>2. lease[t].left \in Nat /\ lease[t].row = "open" /\ lease[t].left > 0 => lease'[t] = lease[t]
  BY DEF Cleaned
<1>3. ASSUME NEW m \in wire, m.task = t, m.action = "granted" PROVE lease'[t] = lease[t]
  <2>1. m.age \in 0..Delay /\ lease[t].left \in Nat  BY DEF TypeOK, Message, Lease
  <2>2. lease[t].row = "open" /\ lease[t].left + m.age >= Ttl[t]  BY <1>3 DEF KeptOf
  <2>3. Ttl[t] \in Nat /\ Ttl[t] > Delay
    BY TimesAssumption, TtlAssumption
  <2> QED  BY <1>2, <2>1, <2>2, <2>3, TimesAssumption
<1>4. ASSUME Keeping(t), Outlives(t) PROVE lease'[t] = lease[t]
  BY <1>2, <1>4, LeaseIsAlive DEF Active, TypeOK, Lease
<1>5. ASSUME Keeping(t)' PROVE Since(t)' = Since(t)  BY <1>1, <1>5 DEF Since
<1>6. Keeping(t)' => (Outlives(t)' <=> Outlives(t))  BY DEF Outlives
<1> QED  BY <1>3, <1>4, <1>5, <1>6 DEF KeptOf

LEMMA InitKeptInv == Init => KeptInv
BY DEF Init, KeptInv, KeptOf, Keeping

LEMMA NextKeptInv == TypeOK /\ WireInv /\ KeptInv /\ [Next]_vars => KeptInv'
<1> SUFFICES ASSUME TypeOK, WireInv, KeptInv, [Next]_vars, NEW u \in Tasks PROVE KeptOf(u)'
  BY DEF KeptInv
<1> USE TimesAssumption
<1>0. /\ \A m \in wire : m \in Message /\ m.task \in Tasks /\ m.age \in 0..Delay
      /\ lease[u].left \in Nat /\ lost[u] \in Nat /\ scope[u].due \in 0..Beat
      /\ Ttl[u] \in Nat
  BY TtlAssumption DEF TypeOK, Message, Lease, Scope
<1>1. ASSUME NEW t \in Tasks, Start(t) PROVE KeptOf(u)'
  <2> DEFINE b == [task |-> t, action |-> "begin", age |-> 0]
  <2>1. wire' = wire \cup {b} /\ lease' = lease /\ lost' = lost /\ daemon' = daemon
    BY <1>1 DEF Start, Send
  <2>2. b.task = t /\ b.action = "begin"  OBVIOUS
  <2>3. /\ u # t => scope'[u] = scope[u]
        /\ scope'[t].state = "beginning"
    BY <1>1 DEF Start, TypeOK, Scope
  <2> HIDE DEF b
  <2> QED  BY <2>1, <2>2, <2>3, KeptUntouched DEF Keeping, Running
<1>2. ASSUME NEW t \in Tasks, StartAlone(t) \/ Cancel(t) PROVE KeptOf(u)'
  BY <1>2, KeptUntouched DEF StartAlone, Cancel, Keeping, Running
<1>3. ASSUME NEW t \in Tasks, BeginAnswered(t) PROVE KeptOf(u)'
  <2>1. PICK g \in Under(t) :
          /\ g.action = "granted"
          /\ IF scope[t].end = "none"
             THEN /\ scope' = [scope EXCEPT ![t].state = "held",
                                            ![t].timer = TRUE, ![t].due = Beat]
                  /\ wire' = wire \ {g}
             ELSE /\ scope' = [scope EXCEPT ![t].state = "late"]
                  /\ wire' = (wire \ {g}) \cup
                       {[task |-> t, action |-> "finish", age |-> 0]}
    BY <1>3 DEF BeginAnswered
  <2>2. g \in wire /\ g.task = t  BY <2>1 DEF Under
  <2>3. \A m \in wire \ {g} : m.task = t => m.action \notin {"granted", "heartbeat"}
    BY <1>3, <2>1, <2>2 DEF BeginAnswered, WireInv, Opening
  <2>4. UNCHANGED <<daemon, lease, lost>>  BY <1>3 DEF BeginAnswered
  <2>5. /\ u # t => scope'[u] = scope[u]
        /\ scope'[t].end = scope[t].end
        /\ scope[t].end = "none" => scope'[t].timer /\ scope'[t].due = Beat
        /\ scope[t].end # "none" => scope'[t].state = "late"
    BY <2>1 DEF TypeOK, Scope
  <2> DEFINE f == [task |-> t, action |-> "finish", age |-> 0]
  <2>6. wire' \subseteq (wire \ {g}) \cup {f} /\ wire \ {g} \subseteq wire'
    BY <2>1
  <2>7. f.task = t /\ f.action = "finish"  OBVIOUS
  <2> HIDE DEF f
  <2>8. CASE u # t
    BY <2>2, <2>4, <2>5, <2>6, <2>7, <2>8, KeptUntouched DEF Keeping, Running
  <2>9. CASE u = t
    <3>1. \A m \in wire' : m.task = t => m.action \notin {"granted", "heartbeat"}
      BY <2>3, <2>6, <2>7
    <3>2. CASE scope[t].end # "none"
      BY <2>5, <2>9, <3>1, <3>2 DEF KeptOf, Keeping
    <3>3. CASE scope[t].end = "none"
      <4>1. lease[t].row = "open" /\ lease[t].left + g.age >= Ttl[t]
        BY <2>1, <2>2 DEF KeptInv, KeptOf
      <4>2. ~Beating(t)'  BY <3>1 DEF Beating
      <4>3. Since(t)' = Delay + lost[t] * Beat + (Beat - Beat) + 0
        BY <2>4, <2>5, <3>3, <4>2 DEF Since
      <4>4. lost[t] * Beat \in Nat  BY <1>0, <2>9, ProductGrows
      <4>5. lease[t].left + Since(t)' >= Ttl[t]
        BY <1>0, <2>2, <2>9, <4>1, <4>3, <4>4
      <4> QED  BY <2>4, <2>5, <2>9, <3>1, <3>3, <4>1, <4>5 DEF KeptOf
    <3> QED  BY <3>2, <3>3
  <2> QED  BY <2>8, <2>9
<1>4. ASSUME NEW t \in Tasks, BeginFails(t) PROVE KeptOf(u)'
  <2>1. /\ u # t => scope'[u] = scope[u]
        /\ scope'[t].state = "unavailable"
    BY <1>4 DEF BeginFails, TypeOK, Scope
  <2> QED  BY <1>4, <2>1, KeptUntouched DEF BeginFails, Keeping, Running
<1>5. ASSUME NEW t \in Tasks, Heartbeat(t) PROVE KeptOf(u)'
  <2> DEFINE h == [task |-> t, action |-> "heartbeat", age |-> 0]
  <2>1. /\ UNCHANGED <<daemon, lease, lost>> /\ scope[t].timer /\ scope[t].due = 0
        /\ wire' = IF scope[t].end = "none" THEN wire \cup {h} ELSE wire
    BY <1>5 DEF Heartbeat, Send
  <2>2. h.task = t /\ h.action = "heartbeat" /\ h.age = 0  OBVIOUS
  <2>3. /\ u # t => scope'[u] = scope[u]
        /\ scope'[t].state = scope[t].state /\ scope'[t].end = scope[t].end
        /\ scope'[t].timer /\ scope'[t].due = Beat
    BY <1>5 DEF Heartbeat, TypeOK, Scope
  <2> HIDE DEF h
  <2>4. CASE u # t \/ scope[t].end # "none"
    BY <2>1, <2>2, <2>3, <2>4, KeptUntouched DEF Keeping, Running
  <2>5. CASE u = t /\ scope[t].end = "none"
    <3>1. Keeping(t)  BY <1>5, <2>1, <2>5 DEF Heartbeat, WireInv, Keeping
    <3>2. \A m \in wire : m.task = t => m.action # "heartbeat"
      BY <1>0, <2>1, <3>1 DEF KeptInv, KeptOf
    <3>3. \A m \in wire : m.task = t => m.action # "granted"
      BY <3>1 DEF WireInv, Opening, Keeping
    <3>4. ~Beating(t) /\ Beating(t)'  BY <2>1, <2>2, <2>5, <3>2 DEF Beating
    <3>5. Since(t) = Delay + lost[t] * Beat + (Beat - 0) + 0
      BY <2>1, <3>4 DEF Since
    <3>6. Since(t)' = Delay + lost[t] * Beat + (Beat - Beat) + Beat
      BY <2>1, <2>3, <3>4 DEF Since
    <3>7. lost[t] * Beat \in Nat  BY <1>0, <2>5, ProductGrows
    <3>8. Since(t)' = Since(t)  BY <3>5, <3>6, <3>7
    <3>9. \A m \in wire' : m.task = t => m = h
      BY <1>0, <2>1, <2>5, <3>1, <3>2, <3>3 DEF WireInv, Keeping, Opening, Message
    <3> QED
      <4>1. Keeping(u) /\ (Outlives(u)' <=> Outlives(u))
        BY <2>1, <2>5, <3>1 DEF Outlives
      <4>2. Outlives(u)' => lease'[u].row = "open" /\ lease'[u].left + Since(u)' >= Ttl[u]
        BY <2>1, <2>5, <3>8, <4>1 DEF KeptOf, KeptInv
      <4>3. \A m \in wire' : m.task = u =>
                m.action # "granted" /\ m.age + scope'[u].due = Beat
        BY <2>2, <2>3, <2>5, <3>9
      <4> QED  BY <2>3, <2>5, <4>2, <4>3 DEF KeptOf
  <2> QED  BY <2>4, <2>5
<1>6. ASSUME NEW E \in SUBSET Tasks, NEW D \in SUBSET Tasks,
             lease' = lease, lost' = lost, wire' = wire \cup GivenBack(E \cup D),
             Running(u)' => Running(u), scope' = Released(E, D)
      PROVE KeptOf(u)'
  <2>1. \A m \in GivenBack(E \cup D) : m.action = "finish"  BY DEF GivenBack
  <2>2. Keeping(u)' => Keeping(u) /\ scope'[u].timer = scope[u].timer
                                  /\ scope'[u].due = scope[u].due
    BY <1>6, ReleasedKeeps DEF Keeping
  <2> QED  BY <1>6, <2>1, <2>2, KeptUntouched
<1>7. ASSUME NEW t \in Tasks, Finish(t) PROVE KeptOf(u)'
  <2>1. PICK E \in SUBSET Tasks, D \in SUBSET Tasks :
          scope' = Released(E, D) /\ wire' = wire \cup GivenBack(E \cup D)
    BY <1>7, FinishReleases
  <2>2. UNCHANGED <<daemon, lease, lost>>  BY <1>7 DEF Finish
  <2> QED  BY <1>6, <2>1, <2>2 DEF Running
<1>8. ASSUME NEW d \in Daemons, Stop(d) PROVE KeptOf(u)'
  <2>1. PICK E \in SUBSET Tasks, D \in SUBSET Tasks :
          scope' = Released(E, D) /\ wire' = wire \cup GivenBack(E \cup D)
    BY <1>8, StopReleases
  <2>2. /\ UNCHANGED <<lease, lost>>
        /\ daemon[d] = "up" /\ daemon' = [daemon EXCEPT ![d] = "stopping"]
    BY <1>8 DEF Stop
  <2>3. Running(u)' => Running(u)  BY <2>2 DEF Running, TypeOK
  <2> QED  BY <1>6, <2>1, <2>2, <2>3
<1>9. ASSUME NEW d \in Daemons, Stopped(d) \/ Crash(d) PROVE KeptOf(u)'
  <2>1. /\ UNCHANGED <<lease, lost>> /\ Disconnected(d)
        /\ daemon' = [daemon EXCEPT ![d] = "stopped"]
              \/ daemon' = [daemon EXCEPT ![d] = "crashed"]
    BY <1>9 DEF Stopped, Crash
  <2>2. CASE Owner[u] = d
    <3>1. ~Keeping(u)'  BY <2>1, <2>2 DEF Keeping, Running, TypeOK
    <3>2. \A m \in wire' : m.task # u  BY <2>1, <2>2 DEF Disconnected
    <3> QED  BY <3>1, <3>2 DEF KeptOf
  <2>3. CASE Owner[u] # d
    <3>1. \A m : m.task = u => (m \in wire' <=> m \in wire)
      BY <2>1, <2>3 DEF Disconnected
    <3>2. Running(u)' <=> Running(u)
      BY <2>1, <2>3, OwnerAssumption DEF Running, TypeOK
    <3>3. scope'[u] = scope[u]  BY <2>1, <2>3, DisconnectedFields
    <3> QED  BY <2>1, <3>1, <3>2, <3>3, KeptUntouched DEF Keeping
  <2> QED  BY <2>2, <2>3
<1>10. ASSUME NEW m \in wire, BeginTask(m) PROVE KeptOf(u)'
  <2> DEFINE g == [m EXCEPT !.action = "granted"]
             t == m.task
  <2>1. /\ UNCHANGED <<daemon, scope, lost>> /\ m.action = "begin"
        /\ \/ wire' = wire \ {m} /\ lease' = lease
           \/ /\ wire' = (wire \ {m}) \cup {g}
              /\ lease' = [Cleaned EXCEPT ![t] =
                    [row |-> "open", left |-> Ttl[t], told |-> Conflicts(t)]]
    BY <1>10 DEF BeginTask
  <2>2. /\ g.task = t /\ g.action = "granted" /\ g.age = m.age /\ m.age \in 0..Delay
    BY <1>0 DEF Message
  <2> HIDE DEF g
  <2>3. CASE u # t \/ (lease' = lease /\ wire' = wire \ {m})
    <3>1. lease'[u] \in {lease[u], Cleaned[u]}
      BY <1>0, <2>1, <2>3 DEF Cleaned
    <3> QED  BY <1>0, <2>1, <2>2, <2>3, <3>1, KeptUntouched DEF Keeping, Running
  <2>4. CASE u = t /\ wire' = (wire \ {m}) \cup {g}
                   /\ lease' = [Cleaned EXCEPT ![t] =
                         [row |-> "open", left |-> Ttl[t], told |-> Conflicts(t)]]
    <3>1. \A n \in wire' : n.task = t /\ n.action = "granted" => n = g
      BY <1>10, <2>1, <2>4 DEF WireInv, Opening
    <3>2. lease'[t].row = "open" /\ lease'[t].left = Ttl[t]
      BY <1>0, <2>4 DEF Cleaned
    <3>3. ~Keeping(t)'  BY <2>1 DEF WireInv, Opening, Keeping
    <3>4. lease'[u].row = "open" /\ lease'[u].left + g.age >= Ttl[u]
      BY <1>0, <2>2, <2>4, <3>2
    <3> QED  BY <2>4, <3>1, <3>3, <3>4 DEF KeptOf
  <2> QED  BY <2>1, <2>3, <2>4
<1>11. ASSUME NEW m \in wire, RenewLease(m) PROVE KeptOf(u)'
  <2>1. /\ m.action = "heartbeat" /\ wire' = wire \ {m} /\ UNCHANGED <<daemon, scope>>
        /\ u # m.task => lease'[u] = lease[u] /\ lost'[u] = lost[u]
    BY <1>0, <1>11 DEF RenewLease, TypeOK
  <2>2. CASE u # m.task
    BY <2>1, <2>2, KeptUntouched DEF Keeping, Running
  <2>3. CASE u = m.task
    <3>1. \A n \in wire : n.task = u => n.action # "granted"
      BY <2>1, <2>3 DEF WireInv, Opening
    <3>2. CASE Active(u)
      <4>1. lease'[u].left = Ttl[u] /\ lease'[u].row = "open"
        BY <1>0, <1>11, <2>3, <3>2 DEF RenewLease, Active, TypeOK, Lease
      <4>2. Since(u)' \in Nat
        <5>1. lost'[u] \in Nat /\ scope'[u].due \in 0..Beat
          BY <1>0, <1>11, <2>1 DEF RenewLease, TypeOK
        <5>2. lost'[u] * Beat \in Nat  BY <5>1, ProductGrows
        <5> QED  BY <5>1, <5>2 DEF Since
      <4>3. lease'[u].left + Since(u)' >= Ttl[u]  BY <1>0, <4>1, <4>2
      <4> QED  BY <2>1, <3>1, <4>1, <4>3 DEF KeptInv, KeptOf, Keeping, Running
    <3>3. CASE ~Active(u)
      <4>1. lease' = lease /\ lost' = lost  BY <1>11, <2>3, <3>3 DEF RenewLease
      <4>2. ~(Keeping(u) /\ Outlives(u))  BY <3>3, LeaseIsAlive
      <4> QED
        BY <2>1, <3>1, <4>1, <4>2 DEF KeptInv, KeptOf, Keeping, Running, Outlives
    <3> QED  BY <3>2, <3>3
  <2> QED  BY <2>2, <2>3
<1>12. ASSUME NEW m \in wire, FinishTask(m) PROVE KeptOf(u)'
  <2>1. /\ m.action = "finish" /\ wire' = wire \ {m} /\ UNCHANGED <<daemon, scope, lost>>
        /\ u # m.task => lease'[u] = lease[u]
    BY <1>0, <1>12 DEF FinishTask, TypeOK
  <2>2. CASE u # m.task
    BY <2>1, <2>2, KeptUntouched DEF Keeping, Running
  <2>3. CASE u = m.task
    <3>1. \A n \in wire : n.task = u => n.action # "granted"
      BY <2>1, <2>3 DEF WireInv, Opening
    <3>2. ~Keeping(u)'  BY <2>1, <2>3 DEF WireInv, Keeping
    <3> QED  BY <2>1, <3>1, <3>2 DEF KeptOf
  <2> QED  BY <2>2, <2>3
<1>13. ASSUME NEW m \in wire, Lose(m) PROVE KeptOf(u)'
  <2>1. /\ wire' = wire \ {m} /\ UNCHANGED <<daemon, scope, lease>>
        /\ lost' = [lost EXCEPT ![m.task] =
              IF m.action \in {"heartbeat", "finish"} /\ @ <= MaxLost THEN @ + 1 ELSE @]
    BY <1>13 DEF Lose
  <2>2. CASE u # m.task
    BY <1>0, <2>1, <2>2, KeptUntouched DEF Keeping, Running, TypeOK
  <2>3. CASE u = m.task /\ m.action = "heartbeat" /\ lost[u] <= MaxLost /\ Keeping(u)
    <3>1. lost'[u] = lost[u] + 1 /\ lost'[u] * Beat = lost[u] * Beat + Beat
      BY <1>0, <2>1, <2>3, ProductGrows DEF TypeOK
    <3>2. Beating(u)  BY <2>3 DEF Beating
    <3>3. Since(u) = Delay + lost[u] * Beat + (Beat - scope[u].due) + Beat
      BY <3>2 DEF Since
    <3>4. Since(u)' = Delay + (lost[u] * Beat + Beat) + (Beat - scope[u].due)
                        + (IF Beating(u)' THEN Beat ELSE 0)
      BY <2>1, <3>1 DEF Since
    <3>5. lost[u] * Beat \in Nat  BY <1>0, ProductGrows
    <3>6. Since(u)' >= Since(u) /\ Since(u) \in Nat /\ Since(u)' \in Nat
      BY <1>0, <3>3, <3>4, <3>5
    <3>7. Outlives(u)' => Outlives(u)
      <4>1. (lost[u] + 1) * Beat = lost[u] * Beat + Beat
        BY <1>0, ProductGrows
      <4>2. lost'[u] \in Nat /\ (lost'[u] + 1) * Beat = lost[u] * Beat + Beat + Beat
        BY <1>0, <3>1, ProductGrows
      <4> QED  BY <1>0, <2>3, <3>5, <4>1, <4>2 DEF Outlives
    <3>8. Outlives(u)' => lease[u].row = "open" /\ lease[u].left + Since(u)' >= Ttl[u]
      <4>1. Outlives(u) => lease[u].row = "open" /\ lease[u].left + Since(u) >= Ttl[u]
        BY <2>3 DEF KeptInv, KeptOf
      <4> QED  BY <1>0, <3>6, <3>7, <4>1
    <3> QED
      BY <2>1, <2>3, <3>8 DEF KeptInv, KeptOf, Keeping, Running
  <2>4. CASE u = m.task /\ ~(lost[u] <= MaxLost)
    <3>1. lost'[u] = lost[u]  BY <1>0, <2>1, <2>4 DEF TypeOK
    <3> QED  BY <2>1, <2>4, <3>1 DEF KeptInv, KeptOf, Keeping, Running, Outlives
  <2>5. CASE u = m.task /\ ~Keeping(u)
    BY <2>1, <2>5 DEF KeptInv, KeptOf, Keeping, Running
  <2>6. CASE u = m.task /\ m.action # "heartbeat" /\ Keeping(u)
    BY <1>0, <2>6 DEF WireInv, Opening, Keeping, Message
  <2> QED  BY <2>2, <2>3, <2>4, <2>5, <2>6
<1>14. CASE ListActive
  BY <1>14, KeptUntouched DEF ListActive, Keeping, Running
<1>15. CASE Tick
  <2>1. /\ UNCHANGED <<daemon, lost>>
        /\ wire' = {[m EXCEPT !.age = @ + 1] : m \in wire}
        /\ \A m \in wire : m.age < Delay
        /\ Running(u) => (scope[u].timer => scope[u].due > 0)
    BY <1>15 DEF Tick
  <2>2. /\ scope'[u].state = scope[u].state /\ scope'[u].end = scope[u].end
        /\ scope'[u].timer = scope[u].timer
        /\ scope'[u].due = IF scope[u].due > 0 THEN scope[u].due - 1 ELSE 0
    BY <1>15 DEF Tick, TypeOK, Scope
  <2>3. /\ lease'[u].row = lease[u].row
        /\ lease'[u].left = IF lease[u].left > 0 THEN lease[u].left - 1 ELSE 0
    BY <1>15 DEF Tick, TypeOK, Lease
  <2>4. \A m \in wire : LET n == [m EXCEPT !.age = @ + 1]
                        IN  n.task = m.task /\ n.action = m.action /\ n.age = m.age + 1
    BY <1>0 DEF Message
  <2>5. \A n \in wire' : \E m \in wire :
            n.task = m.task /\ n.action = m.action /\ n.age = m.age + 1
    BY <2>1, <2>4
  <2>6. \A m \in wire : \E n \in wire' : n.task = m.task /\ n.action = m.action
    BY <2>1, <2>4
  <2>7. Beating(u)' <=> Beating(u)  BY <2>5, <2>6 DEF Beating
  <2>8. ASSUME NEW n \in wire', n.task = u, n.action = "granted"
        PROVE lease'[u].row = "open" /\ lease'[u].left + n.age >= Ttl[u]
    <3>1. PICK m \in wire : m.task = u /\ m.action = "granted" /\ n.age = m.age + 1
      BY <2>5, <2>8
    <3>2. lease[u].row = "open" /\ lease[u].left + m.age >= Ttl[u] /\ m.age < Delay
      BY <2>1, <3>1 DEF KeptInv, KeptOf
    <3>3. Ttl[u] \in Nat /\ Ttl[u] > Delay  BY TtlAssumption
    <3> QED  BY <1>0, <2>3, <3>1, <3>2, <3>3
  <2>9. ASSUME Keeping(u)' PROVE Keeping(u) /\ scope'[u].timer /\ scope'[u].due = scope[u].due - 1
    BY <1>0, <2>1, <2>2, <2>9 DEF KeptInv, KeptOf, Keeping, Running
  <2>10. ASSUME Keeping(u)', NEW n \in wire', n.task = u, n.action = "heartbeat"
         PROVE n.age + scope'[u].due = Beat
    <3>1. PICK m \in wire : m.task = u /\ m.action = "heartbeat" /\ n.age = m.age + 1
      BY <2>5, <2>10
    <3>2. m.age + scope[u].due = Beat  BY <2>9, <2>10, <3>1 DEF KeptInv, KeptOf
    <3> QED  BY <1>0, <2>9, <2>10, <3>1, <3>2
  <2>11. ASSUME Keeping(u)', Outlives(u)'
         PROVE lease'[u].row = "open" /\ lease'[u].left + Since(u)' >= Ttl[u]
    <3>1. Keeping(u) /\ Outlives(u)  BY <2>1, <2>9, <2>11 DEF Outlives
    <3>2. /\ lease[u].row = "open" /\ lease[u].left > 0
          /\ lease[u].left + Since(u) >= Ttl[u]
      BY <3>1, LeaseIsAlive DEF KeptInv, KeptOf, Active
    <3>3. lost[u] * Beat \in Nat  BY <1>0, ProductGrows
    <3>4. scope[u].due \in Nat /\ scope'[u].due = scope[u].due - 1
      BY <1>0, <2>9, <2>11
    <3>5. Since(u)' = Since(u) + 1
      BY <2>1, <2>7, <3>3, <3>4 DEF Since
    <3>6. Since(u) \in Nat  BY SinceIsNatural
    <3> QED  BY <1>0, <2>3, <3>2, <3>5, <3>6
  <2> QED  BY <2>8, <2>9, <2>10, <2>11 DEF KeptOf
<1>16. CASE UNCHANGED vars
  BY <1>16, KeptUntouched DEF vars, Keeping, Running
<1> QED
  BY <1>1, <1>2, <1>3, <1>4, <1>5, <1>7, <1>8, <1>9, <1>10, <1>11, <1>12, <1>13, <1>14,
     <1>15, <1>16 DEF Next, Serve

-----------------------------------------------------------------------------
(* A lease is given back *)

\* Tasks whose farewell, lease and scope a step leaves alone, or brings no closer.
LEMMA FarewellUntouched ==
    ASSUME FarewellInv, NEW u \in Tasks,
           Parted(u)' => Parted(u),
           Active(u)' => Active(u),
           cut' = cut,
           u \in cut => scope'[u].state = scope[u].state /\ scope'[u].end = scope[u].end,
           daemon'[Owner[u]] = daemon[Owner[u]],
           \A m \in wire : m.task = u /\ m.action = "finish" =>
                \E n \in wire' : n.task = u /\ n.action = "finish"
    PROVE  FarewellOf(u)'
BY DEF FarewellInv, FarewellOf, Running

LEMMA InitFarewellInv == Init => FarewellInv
BY DEF Init, FarewellInv, FarewellOf, Parted

LEMMA CleanedKeepsActive ==
    ASSUME TypeOK, lease' = Cleaned, NEW u \in Tasks
    PROVE  Active(u)' <=> Active(u)
<1>1. \A r \in Lease : [r EXCEPT !.row = "over"].row = "over"  BY DEF Lease
<1>2. lease[u] \in Lease  BY DEF TypeOK
<1>3. CASE lease[u].row = "open" /\ lease[u].left = 0
  <2>1. lease'[u].row = "over"  BY <1>1, <1>2, <1>3 DEF Cleaned
  <2> QED  BY <1>3, <2>1 DEF Active
<1>4. CASE ~(lease[u].row = "open" /\ lease[u].left = 0)
  <2>1. lease'[u] = lease[u]  BY <1>4 DEF Cleaned
  <2> QED  BY <2>1 DEF Active
<1> QED  BY <1>3, <1>4

LEMMA NextFarewellInv == TypeOK /\ WireInv /\ FarewellInv /\ [Next]_vars => FarewellInv'
<1> SUFFICES ASSUME TypeOK, WireInv, FarewellInv, [Next]_vars, NEW u \in Tasks
             PROVE  FarewellOf(u)'
  BY DEF FarewellInv
<1>0. /\ \A m \in wire : m \in Message /\ m.task \in Tasks
      /\ lease[u].left \in Nat /\ lost[u] \in Nat
      /\ u \in cut => ~Running(u)
  BY DEF TypeOK, Message, Lease, FarewellInv, FarewellOf
<1>1. ASSUME NEW t \in Tasks, Start(t) PROVE FarewellOf(u)'
  <2>1. /\ wire \subseteq wire' /\ UNCHANGED <<daemon, lease, lost, cut>>
        /\ Running(t)
    BY <1>1 DEF Start, Send
  <2>2. /\ u # t => scope'[u] = scope[u]
        /\ scope'[t].state = "beginning"
    BY <1>1 DEF Start, TypeOK, Scope
  <2> QED  BY <1>0, <2>1, <2>2, FarewellUntouched DEF Parted, Active
<1>2. ASSUME NEW t \in Tasks, StartAlone(t) \/ Cancel(t) PROVE FarewellOf(u)'
  BY <1>2, FarewellUntouched DEF StartAlone, Cancel, Parted, Active, Running
<1>3. ASSUME NEW t \in Tasks, BeginAnswered(t) PROVE FarewellOf(u)'
  <2>1. /\ UNCHANGED <<daemon, lease, lost, cut>> /\ Running(t)
        /\ \A m \in wire : m.action = "finish" => m \in wire'
    BY <1>3 DEF BeginAnswered
  <2>2. /\ u # t => scope'[u] = scope[u]
        /\ scope'[t].end = scope[t].end
        /\ scope[t].end # "none" => scope'[t].state = "late"
    BY <1>3 DEF BeginAnswered, TypeOK, Scope
  <2> QED  BY <1>0, <2>1, <2>2, FarewellUntouched DEF Parted, Active
<1>4. ASSUME NEW t \in Tasks, BeginFails(t) PROVE FarewellOf(u)'
  <2>1. /\ u # t => scope'[u] = scope[u]
        /\ scope'[t].state = "unavailable"
    BY <1>4 DEF BeginFails, TypeOK, Scope
  <2> QED  BY <1>0, <1>4, <2>1, FarewellUntouched DEF BeginFails, Parted, Active
<1>5. ASSUME NEW t \in Tasks, Heartbeat(t) PROVE FarewellOf(u)'
  <2>1. UNCHANGED <<daemon, lease, lost, cut>> /\ wire \subseteq wire'
    BY <1>5 DEF Heartbeat, Send
  <2>2. scope'[u].state = scope[u].state /\ scope'[u].end = scope[u].end
    BY <1>5 DEF Heartbeat, TypeOK, Scope
  <2> QED  BY <2>1, <2>2, FarewellUntouched DEF Parted, Active, Running
\* Scopes are finished and disposed of: a held lease is given back at once.
<1>6. ASSUME NEW E \in SUBSET Tasks, NEW D \in SUBSET Tasks,
             UNCHANGED <<lease, lost, cut>>,
             daemon'[Owner[u]] = "stopped" => daemon[Owner[u]] = "stopped",
             Running(u)' => Running(u),
             \A v \in E \cup D : v = u => Running(u),
             scope' = Released(E, D), wire' = wire \cup GivenBack(E \cup D)
      PROVE FarewellOf(u)'
  <2> DEFINE f == [task |-> u, action |-> "finish", age |-> 0]
  <2>1. /\ scope'[u].state = scope[u].state
        /\ u \notin E \cup D \/ scope[u].end # "none" => scope'[u].end = scope[u].end
    BY <1>6, ReleasedKeeps
  <2>2. u \in E \cup D /\ scope[u].end = "none" /\ scope[u].state = "held" => f \in wire'
    BY <1>6 DEF GivenBack
  <2>3. f.task = u /\ f.action = "finish"  OBVIOUS
  <2> HIDE DEF f
  <2>4. Parted(u)' => Parted(u) \/ f \in wire'
    BY <1>6, <2>1, <2>2 DEF Parted
  <2>5. u \in cut => scope'[u].end = scope[u].end
    BY <1>6, <2>1 DEF FarewellInv, FarewellOf
  <2> QED
    BY <1>6, <2>1, <2>3, <2>4, <2>5 DEF FarewellInv, FarewellOf, Active
<1>7. ASSUME NEW t \in Tasks, Finish(t) PROVE FarewellOf(u)'
  <2>1. PICK E \in SUBSET Tasks, D \in SUBSET Tasks :
          /\ scope' = Released(E, D) /\ wire' = wire \cup GivenBack(E \cup D)
          /\ \A v \in E \cup D : v = t
    BY <1>7, FinishReleases
  <2>2. UNCHANGED <<daemon, lease, lost, cut>> /\ Running(t)  BY <1>7 DEF Finish
  <2> QED  BY <1>6, <2>1, <2>2 DEF Running
<1>16. ASSUME NEW d \in Daemons, Stop(d) PROVE FarewellOf(u)'
  <2>1. PICK E \in SUBSET Tasks, D \in SUBSET Tasks :
          /\ scope' = Released(E, D) /\ wire' = wire \cup GivenBack(E \cup D)
          /\ \A v \in E \cup D : Owner[v] = d
    BY <1>16, StopReleases
  <2>2. /\ UNCHANGED <<lease, lost, cut>>
        /\ daemon[d] = "up" /\ daemon' = [daemon EXCEPT ![d] = "stopping"]
    BY <1>16 DEF Stop
  <2>3. /\ Running(u)' => Running(u)
        /\ daemon'[Owner[u]] = "stopped" => daemon[Owner[u]] = "stopped"
        /\ Owner[u] = d => Running(u)
    BY <2>2, OwnerAssumption DEF Running, TypeOK
  <2> QED  BY <1>6, <2>1, <2>2, <2>3
<1>8. ASSUME NEW d \in Daemons, Stopped(d) \/ Crash(d) PROVE FarewellOf(u)'
  <2>1. /\ UNCHANGED <<lease, lost>> /\ Disconnected(d)
        /\ \/ /\ daemon[d] = "stopping" /\ Disposals(d) = {}
              /\ daemon' = [daemon EXCEPT ![d] = "stopped"]
           \/ /\ daemon[d] \in {"up", "stopping"}
              /\ daemon' = [daemon EXCEPT ![d] = "crashed"]
    BY <1>8 DEF Stopped, Crash
  <2>2. scope'[u].state = scope[u].state /\ scope'[u].end = scope[u].end
    BY <2>1, DisconnectedFields
  <2>3. CASE Owner[u] # d
    <3>1. /\ \A m \in wire : m.task = u => m \in wire'
          /\ u \in cut' <=> u \in cut
      BY <2>1, <2>3 DEF Disconnected
    <3>2. daemon'[Owner[u]] = daemon[Owner[u]]
      BY <2>1, <2>3, OwnerAssumption DEF TypeOK
    <3> QED
      BY <2>1, <2>2, <3>1, <3>2 DEF FarewellInv, FarewellOf, Parted, Active, Running
  <2>4. CASE Owner[u] = d
    <3>1. Running(u) /\ ~Running(u)'
      BY <2>1, <2>4 DEF Running, TypeOK
    <3>2. u \notin cut  BY <3>1 DEF FarewellInv, FarewellOf
    <3>3. u \in cut' <=> \E m \in wire : m.task = u /\ m.action = "finish"
      BY <2>1, <2>4, <3>2 DEF Disconnected
    <3>4. daemon'[Owner[u]] = "stopped" /\ scope[u].state = "held" =>
             \A m \in wire : m.task = u /\ m.action = "finish" =>
                scope[u].end = "finished"
      <4>1. CASE daemon' = [daemon EXCEPT ![d] = "crashed"]
        BY <2>4, <4>1 DEF TypeOK
      <4>2. CASE Disposals(d) = {}
        BY <2>4, <4>2 DEF Disposals, WireInv, TypeOK, Scope
      <4> QED  BY <2>1, <4>1, <4>2
    <3>5. Parted(u)' /\ Active(u)' => u \in cut'
      BY <2>1, <2>2, <3>2, <3>3 DEF FarewellInv, FarewellOf, Parted, Active
    <3> QED  BY <2>2, <3>1, <3>3, <3>4, <3>5 DEF FarewellOf
  <2> QED  BY <2>3, <2>4
<1>9. ASSUME NEW m \in wire, BeginTask(m) PROVE FarewellOf(u)'
  <2>1. /\ UNCHANGED <<daemon, scope, lost, cut>> /\ m.action = "begin"
        /\ wire \ {m} \subseteq wire'
        /\ \/ lease' = lease
           \/ lease' = [Cleaned EXCEPT ![m.task] =
                    [row |-> "open", left |-> Ttl[m.task], told |-> Conflicts(m.task)]]
    BY <1>9 DEF BeginTask
  <2>2. CASE u = m.task
    <3>1. ~Parted(u)'  BY <2>1, <2>2 DEF WireInv, Opening, Parted
    <3> QED  BY <2>1, <3>1 DEF FarewellInv, FarewellOf, Running
  <2>3. CASE u # m.task
    <3>1. lease'[u] = lease[u] \/ lease'[u] = Cleaned[u]
      BY <2>1, <2>3 DEF Cleaned
    <3>2. \A r \in Lease : [r EXCEPT !.row = "over"].row = "over"  BY DEF Lease
    <3>3. lease[u] \in Lease  BY DEF TypeOK
    <3>4. Active(u)' => Active(u)
      BY <3>1, <3>2, <3>3 DEF Cleaned, Active
    <3> QED  BY <2>1, <2>3, <3>4, FarewellUntouched DEF Parted, Running
  <2> QED  BY <2>2, <2>3
<1>10. ASSUME NEW m \in wire, RenewLease(m) PROVE FarewellOf(u)'
  <2>1. /\ UNCHANGED <<daemon, scope, cut>> /\ m.action = "heartbeat" /\ wire' = wire \ {m}
        /\ u # m.task => lease'[u] = lease[u] /\ lost'[u] = lost[u]
        /\ u = m.task /\ scope[u].end # "none" => lost'[u] = lost[u]
        /\ u = m.task /\ ~Active(u) => lease' = lease
    BY <1>0, <1>10 DEF RenewLease, TypeOK
  <2>2. Parted(u)' => Parted(u)  BY <2>1 DEF Parted
  <2>3. Active(u)' => Active(u)  BY <2>1 DEF Active
  <2> QED  BY <2>1, <2>2, <2>3, FarewellUntouched DEF Running
<1>11. ASSUME NEW m \in wire, FinishTask(m) PROVE FarewellOf(u)'
  <2>1. /\ UNCHANGED <<daemon, scope, lost, cut>> /\ wire' = wire \ {m}
        /\ m.action = "finish"
        /\ u # m.task => lease'[u] = lease[u]
        /\ u = m.task => ~Active(u)'
    BY <1>0, <1>11 DEF FinishTask, TypeOK, Active, Lease
  <2>2. CASE u = m.task
    BY <2>1, <2>2 DEF FarewellInv, FarewellOf, Running
  <2>3. CASE u # m.task
    BY <2>1, <2>3, FarewellUntouched DEF Parted, Active
  <2> QED  BY <2>2, <2>3
<1>12. ASSUME NEW m \in wire, Lose(m) PROVE FarewellOf(u)'
  <2>1. /\ wire' = wire \ {m} /\ UNCHANGED <<daemon, scope, lease, cut>>
        /\ lost' = [lost EXCEPT ![m.task] =
              IF m.action \in {"heartbeat", "finish"} /\ @ <= MaxLost THEN @ + 1 ELSE @]
    BY <1>12 DEF Lose
  <2>2. Parted(u)' => Parted(u) /\ ~(m.task = u /\ m.action = "finish")
    BY <1>0, <2>1, TimesAssumption DEF Parted, TypeOK
  <2> QED  BY <2>1, <2>2 DEF FarewellInv, FarewellOf, Active, Running
<1>13. CASE ListActive
  <2>1. lease' = Cleaned /\ UNCHANGED <<daemon, scope, wire, lost, cut>>  BY <1>13 DEF ListActive
  <2>2. Active(u)' <=> Active(u)  BY <2>1, CleanedKeepsActive
  <2> QED  BY <2>1, <2>2, FarewellUntouched DEF Parted, Running
<1>14. CASE Tick
  <2>1. /\ UNCHANGED <<daemon, lost, cut>>
        /\ wire' = {[m EXCEPT !.age = @ + 1] : m \in wire}
    BY <1>14 DEF Tick
  <2>2. scope'[u].state = scope[u].state /\ scope'[u].end = scope[u].end
    BY <1>14 DEF Tick, TypeOK, Scope
  <2>3. /\ lease'[u].row = lease[u].row
        /\ lease'[u].left = IF lease[u].left > 0 THEN lease[u].left - 1 ELSE 0
    BY <1>14 DEF Tick, TypeOK, Lease
  <2>4. \A m \in wire : LET n == [m EXCEPT !.age = @ + 1]
                        IN  n.task = m.task /\ n.action = m.action
    BY <1>0 DEF Message
  <2>5. \A m \in wire : \E n \in wire' : n.task = m.task /\ n.action = m.action
    BY <2>1, <2>4
  <2>6. Active(u)' => Active(u)  BY <1>0, <2>3 DEF Active
  <2>7. Parted(u)' => Parted(u)  BY <2>1, <2>2 DEF Parted
  <2> QED  BY <2>1, <2>2, <2>5, <2>6, <2>7, FarewellUntouched
<1>15. CASE UNCHANGED vars
  BY <1>15, FarewellUntouched DEF vars, Parted, Active, Running
<1> QED
  BY <1>1, <1>2, <1>3, <1>4, <1>5, <1>7, <1>16, <1>8, <1>9, <1>10, <1>11, <1>12, <1>13, <1>14,
     <1>15 DEF Next, Serve

-----------------------------------------------------------------------------
(* Overlapping tasks *)

LEMMA OverlapIsSymmetric ==
    ASSUME NEW v, NEW w PROVE WorkspacesOverlap(v, w) => WorkspacesOverlap(w, v)
BY DEF WorkspacesOverlap

\* A step that lets no lease become active and changes nobody's list of conflicts.
LEMMA ToldUntouched ==
    ASSUME OverlapsAreTold,
           \A t \in Tasks : (Active(t)' => Active(t)) /\ lease'[t].told = lease[t].told
    PROVE  OverlapsAreTold'
BY DEF OverlapsAreTold, Told

LEMMA NextOverlapsAreTold ==
    TypeOK /\ OverlapsAreTold /\ [Next]_vars => OverlapsAreTold'
<1> SUFFICES ASSUME TypeOK, OverlapsAreTold, [Next]_vars PROVE OverlapsAreTold'  OBVIOUS
<1>0. /\ \A m \in wire : m.task \in Tasks
      /\ \A t \in Tasks : lease[t].left \in Nat
  BY DEF TypeOK, Message, Lease
<1>1. ASSUME NEW t \in Tasks
      PROVE  /\ Cleaned[t].told = lease[t].told
             /\ Cleaned[t].row = "open" /\ Cleaned[t].left > 0 => Active(t)
  <2>1. \A r \in Lease : LET c == [r EXCEPT !.row = "over"]
                         IN  c.row = "over" /\ c.told = r.told
    BY DEF Lease
  <2>2. lease[t] \in Lease  BY DEF TypeOK
  <2> QED  BY <2>1, <2>2 DEF Cleaned, Active
<1>2. ASSUME NEW m \in wire, BeginTask(m) PROVE OverlapsAreTold'
  <2> DEFINE t == m.task
             L == [row |-> "open", left |-> Ttl[t], told |-> Conflicts(t)]
  <2>1. CASE lease' = lease
    BY <2>1 DEF OverlapsAreTold, Told, Active
  <2>2. CASE lease' = [Cleaned EXCEPT ![t] = L]
    <3>1. lease'[t].told = Conflicts(t)
      BY <1>0, <2>2 DEF Cleaned
    <3>2. ASSUME NEW u \in Tasks, u # t
          PROVE (Active(u)' => Active(u)) /\ lease'[u].told = lease[u].told
      <4>1. lease'[u] = Cleaned[u]  BY <2>2, <3>2 DEF Cleaned
      <4> QED  BY <1>1, <4>1 DEF Active
    <3> HIDE DEF t
    <3>3. ASSUME NEW u \in Tasks, NEW v \in Tasks, u # v, Active(u)', Active(v)',
                 WorkspacesOverlap(Workspace[u], Workspace[v])
          PROVE Told(u, v)'
      <4>1. CASE u = t
        BY <3>1, <3>2, <3>3, <4>1 DEF Told, Conflicts
      <4>2. CASE v = t
        BY <3>1, <3>2, <3>3, <4>2, OverlapIsSymmetric DEF Told, Conflicts
      <4>3. CASE u # t /\ v # t
        BY <3>2, <3>3, <4>3 DEF OverlapsAreTold, Told
      <4> QED  BY <4>1, <4>2, <4>3
    <3> QED  BY <3>3 DEF OverlapsAreTold
  <2> QED  BY <1>2, <2>1, <2>2 DEF BeginTask
<1>3. ASSUME NEW m \in wire, RenewLease(m) PROVE OverlapsAreTold'
  <2>1. ASSUME NEW t \in Tasks
        PROVE (Active(t)' => Active(t)) /\ lease'[t].told = lease[t].told
    BY <1>0, <1>3 DEF RenewLease, TypeOK, Lease, Active
  <2> QED  BY <2>1, ToldUntouched
<1>4. ASSUME NEW m \in wire, FinishTask(m) PROVE OverlapsAreTold'
  <2>1. ASSUME NEW t \in Tasks
        PROVE (Active(t)' => Active(t)) /\ lease'[t].told = lease[t].told
    BY <1>0, <1>4 DEF FinishTask, TypeOK, Lease, Active
  <2> QED  BY <2>1, ToldUntouched
<1>5. CASE ListActive
  BY <1>1, <1>5, ToldUntouched DEF ListActive, Active
<1>6. CASE Tick
  <2>1. ASSUME NEW t \in Tasks
        PROVE /\ lease'[t].row = lease[t].row /\ lease'[t].told = lease[t].told
              /\ lease'[t].left = IF lease[t].left > 0 THEN lease[t].left - 1 ELSE 0
    BY <1>6 DEF Tick, TypeOK, Lease
  <2>2. \A t \in Tasks : Active(t)' => Active(t)  BY <1>0, <2>1 DEF Active
  <2> QED  BY <2>1, <2>2, ToldUntouched
<1>7. CASE lease' = lease
  BY <1>7, ToldUntouched DEF Active
<1> QED
  BY <1>2, <1>3, <1>4, <1>5, <1>6, <1>7
     DEF Next, Serve, Start, StartAlone, BeginAnswered, BeginFails, Heartbeat, Finish, Cancel,
         Stop, Stopped, Crash, Lose, vars

\* Of two paths that lead to a third one, one leads to the other.
LEMMA PrefixesCompare ==
    ASSUME NEW S, NEW p \in Seq(S), NEW q \in Seq(S), NEW r \in Seq(S),
           IsPrefix(p, r), IsPrefix(q, r), Len(p) <= Len(q)
    PROVE  IsPrefix(p, q)
<1>1. \A i \in 1..Len(p) : p[i] = r[i]
  <2>1. SubSeq(p, 1, Len(p)) = SubSeq(r, 1, Len(p)) /\ Len(p) <= Len(r)
    BY DEF IsPrefix
  <2>2. \A i \in 1..Len(p) : SubSeq(p, 1, Len(p))[i] = p[i] /\ SubSeq(r, 1, Len(p))[i] = r[i]
    BY <2>1
  <2> QED  BY <2>1, <2>2
<1>2. \A i \in 1..Len(q) : q[i] = r[i]
  <2>1. SubSeq(q, 1, Len(q)) = SubSeq(r, 1, Len(q)) /\ Len(q) <= Len(r)
    BY DEF IsPrefix
  <2>2. \A i \in 1..Len(q) : SubSeq(q, 1, Len(q))[i] = q[i] /\ SubSeq(r, 1, Len(q))[i] = r[i]
    BY <2>1
  <2> QED  BY <2>1, <2>2
<1>3. SubSeq(p, 1, Len(p)) = SubSeq(q, 1, Len(p))
  BY <1>1, <1>2
<1> QED  BY <1>3 DEF IsPrefix

\* Induction up to a number, for membership in a set: the library states induction for
\* operators. The least number that is not in the set would be one step behind one that is.
LEMMA CountingUp ==
    ASSUME NEW Good, NEW N \in Nat, 0 \in Good,
           \A n \in 0..(N - 1) : n \in Good => n + 1 \in Good
    PROVE  \A n \in 0..N : n \in Good
<1> DEFINE Bad == (0..N) \ Good
           R == {p \in Nat \X Nat : p[1] < p[2]}
<1>1. IsWellFoundedOn(R, Nat)
  BY NatLessThanWellFounded, Zenon DEF OpToRel
<1>2. \A m, n \in Nat : n < m => <<n, m>> \in R
  OBVIOUS
<1>3. Bad \subseteq Nat  OBVIOUS
<1>4. CASE Bad # {}
  <2> HIDE DEF R, Bad
  <2>1. PICK m \in Bad : \A n \in Bad : ~(<<n, m>> \in R)
    BY <1>1, <1>3, <1>4, WFMin
  <2>2. m \in 1..N  BY <2>1 DEF Bad
  <2>3. m - 1 \in Nat /\ m \in Nat /\ m - 1 < m  BY <2>2
  <2>4. <<m - 1, m>> \in R  BY <1>2, <2>3
  <2>5. m - 1 \notin Bad  BY <2>1, <2>4
  <2>6. m - 1 \in 0..(N - 1) /\ (m - 1) + 1 = m  BY <2>2
  <2>7. m - 1 \in Good  BY <2>5, <2>6 DEF Bad
  <2>8. m \in Good  BY <2>6, <2>7
  <2> QED  BY <2>1, <2>8 DEF Bad
<1> QED  BY <1>4

LEMMA AppendedIsSeq ==
    ASSUME NEW S, NEW s \in Seq(S), NEW e \in S
    PROVE  Append(s, e) \in Seq(S)
OBVIOUS

\* A step along a path leads to a path.
LEMMA WalkToPath ==
    ASSUME NEW path \in Seq(STRING), NEW part \in STRING
    PROVE  WalkTo(path, part) \in Seq(STRING)
<1>1. CASE part = "." \/ path = Escaped
  BY <1>1 DEF WalkTo
<1>2. CASE part # "." /\ path # Escaped /\ part # ".."
  <2>1. WalkTo(path, part) = Append(path, part)  BY <1>2 DEF WalkTo
  <2>2. Append(path, part) \in Seq(STRING)  BY AppendedIsSeq
  <2> QED  BY <2>1, <2>2
<1>3. CASE part = ".." /\ path # Escaped /\ path = <<>>
  BY <1>3 DEF WalkTo, Escaped
<1>4. CASE part = ".." /\ path # Escaped /\ path # <<>>
  BY <1>4 DEF WalkTo, Front
<1> QED  BY <1>1, <1>2, <1>3, <1>4

Walks(w, n, walked) ==
    walked = [i \in 0..n |-> IF i = 0 THEN <<>> ELSE WalkTo(walked[i - 1], w[i])]

\* A walk goes one step further.
LEMMA WalkGoesOn ==
    ASSUME NEW w, NEW n \in Nat, NEW walked, Walks(w, n, walked)
    PROVE  \E next : Walks(w, n + 1, next)
<1> DEFINE next == [i \in 0..(n + 1) |->
                      IF i = n + 1 THEN WalkTo(walked[n], w[n + 1]) ELSE walked[i]]
<1>1. \A i \in 0..n : next[i] = walked[i]
  OBVIOUS
<1>2. \A i \in 0..n : walked[i] = IF i = 0 THEN <<>> ELSE WalkTo(walked[i - 1], w[i])
  BY DEF Walks
<1>3. \A i \in 0..(n + 1) : next[i] = IF i = 0 THEN <<>> ELSE WalkTo(next[i - 1], w[i])
  <2> SUFFICES ASSUME NEW i \in 0..(n + 1)
               PROVE  next[i] = IF i = 0 THEN <<>> ELSE WalkTo(next[i - 1], w[i])
    OBVIOUS
  <2>1. CASE i = n + 1
    <3>1. next[i] = WalkTo(walked[n], w[n + 1])  BY <2>1
    <3>2. next[i - 1] = walked[n]  BY <2>1, <1>1
    <3> QED  BY <2>1, <3>1, <3>2
  <2>2. CASE i \in 1..n
    <3>1. next[i] = walked[i] /\ next[i - 1] = walked[i - 1]  BY <2>2, <1>1
    <3> QED  BY <2>2, <3>1, <1>2
  <2>3. CASE i = 0
    BY <2>3, <1>1, <1>2
  <2> QED  BY <2>1, <2>2, <2>3
<1> HIDE DEF next
<1>4. next = [i \in 0..(n + 1) |-> IF i = 0 THEN <<>> ELSE WalkTo(next[i - 1], w[i])]
  <2>1. next = [i \in 0..(n + 1) |-> next[i]]  BY DEF next
  <2> QED  BY <1>3, <2>1
<1>5. Walks(w, n + 1, next)
  BY <1>4 DEF Walks
<1> QED  BY <1>5

\* A workspace is walked to its end.
LEMMA WalkExists ==
    ASSUME NEW w, Len(w) \in Nat
    PROVE  \E walked : Walks(w, Len(w), walked)
<1> DEFINE Walked == {n \in Nat : \E walked : Walks(w, n, walked)}
<1>1. 0 \in Walked
  <2>1. Walks(w, 0, [i \in 0..0 |-> <<>>])
    BY DEF Walks
  <2> QED  BY <2>1
<1>2. ASSUME NEW n \in 0..(Len(w) - 1), n \in Walked
      PROVE  n + 1 \in Walked
  <2>1. PICK walked : Walks(w, n, walked)  BY <1>2
  <2>2. n \in Nat /\ n + 1 \in Nat  OBVIOUS
  <2> QED  BY <2>1, <2>2, WalkGoesOn
<1> HIDE DEF Walked
<1>3. \A n \in 0..Len(w) : n \in Walked
  BY <1>1, <1>2, CountingUp
<1>4. Len(w) \in Walked
  BY <1>3
<1> QED  BY <1>4 DEF Walked

\* Normalization makes a path of a path.
LEMMA NormalizedIsPath ==
    ASSUME NEW w \in Seq(STRING)
    PROVE  NormalizeWorkspace(w) \in Seq(STRING)
<1> DEFINE walked == CHOOSE f : Walks(w, Len(w), f)
<1>1. NormalizeWorkspace(w) = walked[Len(w)]
  BY DEF NormalizeWorkspace, Walks
<1>2. Walks(w, Len(w), walked)
  BY WalkExists
<1> HIDE DEF walked
<1>3. \A n \in 0..Len(w) : walked[n] = IF n = 0 THEN <<>> ELSE WalkTo(walked[n - 1], w[n])
  BY <1>2 DEF Walks
<1> DEFINE Good == {n \in Nat : walked[n] \in Seq(STRING)}
<1>4. 0 \in Good
  <2>1. 0 \in 0..Len(w)  OBVIOUS
  <2>2. walked[0] = <<>>  BY <1>3, <2>1
  <2>3. <<>> \in Seq(STRING)  OBVIOUS
  <2> QED  BY <2>2, <2>3
<1>5. ASSUME NEW n \in 0..(Len(w) - 1), n \in Good
      PROVE  n + 1 \in Good
  <2>1. n + 1 \in 0..Len(w) /\ n + 1 # 0 /\ (n + 1) - 1 = n  OBVIOUS
  <2>2. walked[n + 1] = WalkTo(walked[n], w[n + 1])  BY <1>3, <2>1
  <2>3. walked[n] \in Seq(STRING) /\ w[n + 1] \in STRING  BY <1>5
  <2>4. WalkTo(walked[n], w[n + 1]) \in Seq(STRING)  BY <2>3, WalkToPath
  <2> QED  BY <2>2, <2>4
<1>6. Len(w) \in Nat
  OBVIOUS
<1> HIDE DEF Good
<1>7. \A n \in 0..Len(w) : n \in Good
  BY <1>4, <1>5, <1>6, CountingUp
<1>8. Len(w) \in Good
  BY <1>6, <1>7
<1> QED  BY <1>1, <1>8 DEF Good

\* The overlap of two workspaces below the root covers the directories they share.
LEMMA SharedOverlaps ==
    ASSUME NEW t \in Tasks, NEW u \in Tasks, SharedDirectory(t, u),
           <<>> \notin {NormalizeWorkspace(Workspace[t]), NormalizeWorkspace(Workspace[u])}
    PROVE  WorkspacesOverlap(Workspace[t], Workspace[u])
<1> DEFINE p == NormalizeWorkspace(Workspace[t])
           q == NormalizeWorkspace(Workspace[u])
<1>1. PICK v \in Tasks : IsPrefix(p, NormalizeWorkspace(Workspace[v]))
                         /\ IsPrefix(q, NormalizeWorkspace(Workspace[v]))
  BY DEF SharedDirectory
<1>2. /\ p \in Seq(STRING) /\ q \in Seq(STRING)
      /\ NormalizeWorkspace(Workspace[v]) \in Seq(STRING)
  BY WorkspaceAssumption, NormalizedIsPath
<1>3. p # <<>> /\ q # <<>>  OBVIOUS
<1>4. Len(p) \in Nat /\ Len(q) \in Nat  BY <1>2
<1>5. WorkspacesOverlap(Workspace[t], Workspace[u]) <=>
          p = q \/ LiesBelow(p, q) \/ LiesBelow(q, p)
  BY DEF WorkspacesOverlap
<1> HIDE DEF p, q
<1>6. IsPrefix(p, q) \/ IsPrefix(q, p)
  BY <1>1, <1>2, <1>4, PrefixesCompare
<1> QED  BY <1>3, <1>5, <1>6 DEF LiesBelow, IsStrictPrefix

-----------------------------------------------------------------------------
LEMMA Invariance == Spec => []IInv
<1>1. Init => IInv
  BY InitTypeOK, InitWireInv, InitSentInv, InitKeptInv, InitFarewellInv DEF IInv
<1>2. IInv /\ [Next]_vars => IInv'
  BY NextTypeOK, NextWireInv, NextSentInv, NextKeptInv, NextFarewellInv DEF IInv
<1> QED  BY <1>1, <1>2, PTL DEF Spec

\* The tables of the coordinator and the scopes of the daemons stay typed, and no message
\* outlives the deadline of its request.
THEOREM TypeCorrect == Spec => []TypeOK
<1>1. IInv => TypeOK  BY DEF IInv
<1> QED  BY Invariance, <1>1, PTL

\* For every task, whatever its ttl, a lease lapses under its holder only when the ttl is
\* no longer than the intervals and deadlines that lie between two renewals.
THEOREM LeasesAreKept == Spec => []LeaseIsKept
<1>1. IInv => LeaseIsKept
  <2> SUFFICES ASSUME IInv, NEW t \in Tasks, Keeping(t), lost[t] <= MaxLost
               PROVE  Active(t) \/ Ttl[t] <= (lost[t] + 1) * Beat + 2 * Delay
    BY DEF LeaseIsKept, Keeping
  <2>1. /\ lost[t] \in Nat /\ lost[t] + 1 \in Nat /\ (lost[t] + 1) * Beat \in Nat
        /\ Ttl[t] \in Nat /\ Delay \in Nat
    BY ProductGrows, TimesAssumption, TtlAssumption DEF IInv, TypeOK
  <2>2. Outlives(t) => Active(t)  BY LeaseIsAlive DEF IInv
  <2> QED  BY <2>1, <2>2 DEF Outlives
<1> QED  BY Invariance, <1>1, PTL

\* A stop with any number of tasks leaves of the leases of ended scopes only those active
\* whose finish it cut off, and never one that it disposed of itself.
THEOREM LeasesAreGivenBack == Spec => []ReleasedBeforeDisconnect
<1>1. IInv => ReleasedBeforeDisconnect
  <2> SUFFICES ASSUME IInv, NEW t \in Tasks, daemon[Owner[t]] = "stopped",
                      Parted(t), Active(t)
               PROVE  t \in cut /\ scope[t].end = "finished"
    BY DEF ReleasedBeforeDisconnect, Parted
  <2>1. \A m \in wire : m.task # t
    BY DEF IInv, SentInv, Running
  <2>2. t \in cut  BY <2>1 DEF IInv, FarewellInv, FarewellOf
  <2> QED  BY <2>2 DEF IInv, FarewellInv, FarewellOf, Parted
<1> QED  BY Invariance, <1>1, PTL

\* Of two active leases on overlapping workspaces one holder was told of the other,
\* for any workspaces and whatever expired or was renewed in between.
THEOREM ConflictsTold == Spec => []ConflictsAreTold
<1>1. Init => OverlapsAreTold
  BY DEF Init, OverlapsAreTold, Active
<1>2. OverlapsAreTold => ConflictsAreTold
  BY SharedOverlaps DEF OverlapsAreTold, ConflictsAreTold
<1> QED  BY <1>1, <1>2, TypeCorrect, NextOverlapsAreTold, PTL DEF Spec
=============================================================================
