-------------------------- MODULE ConnectionProofs --------------------------
(* What runs over one SSH connection. PortForwarding: the dispatcher's       *)
(* routes and the quiet of stopped forwards, for any number of forwards,     *)
(* binds, connections and calls of stopAll. Runner: the channel of a run and *)
(* the first of its ends. The two have no variable in common.                *)
EXTENDS PortForwarding, Runner, TLAPS


TypeInv ==
    /\ starting \subseteq Forwards
    /\ forwards \subseteq Forwards
    /\ bound \subseteq Forwards
    /\ stoppingIds \subseteq Local
    /\ status \in [Forwards -> {"none", "active", "stopped", "error"}]
    /\ remoteRoutes \in [Binds -> Remote \cup {NoForward}]
    /\ tcpConnectionBound \in BOOLEAN
    /\ phase \in [Conns -> Phases]
    /\ through \in [Conns -> MaybeForward]

\* A route leads to a registered forward of its own bind, and while there is a
\* client the port of every registered remote forward is open, so that no second
\* one is registered for its bind, unless that asks for any port.
RouteInv ==
    /\ RoutesMatchForwards
    /\ \A b \in Binds : remoteRoutes[b] # NoForward => Bind[remoteRoutes[b]] = b
    /\ ~clientClosed => forwards \cap Remote \subseteq bound

\* The life of a forward: it is started, then registered; its port is open only
\* while it is registered and not being stopped; a stopped one is neither.
LifeInv ==
    /\ starting \cap forwards = {}
    /\ \A f \in starting : status[f] = "active"
    /\ bound \subseteq forwards
    /\ stoppingIds \subseteq forwards
    /\ stoppingIds \cap bound = {}
    /\ \A f \in forwards : status[f] \in {"active", "error"}
    /\ StoppedIsQuiet

IInv == TypeInv /\ RouteInv /\ LifeInv

-----------------------------------------------------------------------------
\* Any two stops of one forward agree on what they leave alone: this is the part
\* of the invariant a stop can disturb, for Stop and for a step of stopAll.
LEMMA StopKeepsIInv ==
    ASSUME IInv, NEW f \in Forwards, stop(f), UNCHANGED <<clientClosed, connVars>>
    PROVE IInv'
<1> USE ForwardsAssumption DEF Forwards
<1>1. f \in forwards \ stoppingIds  BY DEF stop
<1>2. CASE f \in Remote
  <2>1. /\ stopRemote(f)
        /\ bound' = bound \ {f} /\ forwards' = forwards \ {f}
        /\ status' = [status EXCEPT ![f] = "stopped"]
        /\ remoteRoutes' = [remoteRoutes EXCEPT ![Bind[f]] = NoForward]
        /\ tcpConnectionBound' = (tcpConnectionBound /\ \E b \in Binds : remoteRoutes'[b] # NoForward)
        /\ UNCHANGED <<starting, stoppingIds, clientClosed, phase, through>>
    BY <1>2 DEF stop, stopRemote, unroute, connVars
  <2>2. TypeInv'  BY <2>1 DEF IInv, TypeInv
  <2>3. RouteInv'
    <3>1. \A g \in forwards \cap Remote :
              g # f /\ Bind[g] \notin AnyPort => Bind[g] # Bind[f] /\ Bind[g] \in Binds
      BY <1>1, <1>2 DEF IInv, RouteInv, RoutesMatchForwards
    <3>2. \A b \in Binds : remoteRoutes'[b] = IF b = Bind[f] THEN NoForward ELSE remoteRoutes[b]
      BY <2>1 DEF IInv, TypeInv
    <3>3. \A b \in Binds : b # Bind[f] => remoteRoutes[b] # f
      BY <1>2 DEF IInv, RouteInv
    <3>4. \A g \in forwards' \cap Remote :
              Bind[g] \notin AnyPort => remoteRoutes'[Bind[g]] = g
      BY <1>2, <2>1, <3>1, <3>2 DEF IInv, RouteInv, RoutesMatchForwards
    <3>5. \A b \in Binds : remoteRoutes'[b] # NoForward =>
              remoteRoutes'[b] \in forwards' /\ Bind[remoteRoutes'[b]] = b
      BY <2>1, <3>2, <3>3 DEF IInv, RouteInv, RoutesMatchForwards
    <3>6. tcpConnectionBound' <=> \E b \in Binds : remoteRoutes'[b] # NoForward
      BY <2>1, <3>2 DEF IInv, RouteInv, RoutesMatchForwards
    <3>7. ~clientClosed' => forwards' \cap Remote \subseteq bound'
      BY <2>1 DEF IInv, RouteInv
    <3> QED  BY <3>4, <3>5, <3>6, <3>7 DEF RouteInv, RoutesMatchForwards
  <2>4. LifeInv'
    BY <1>1, <1>2, <2>1 DEF IInv, TypeInv, LifeInv, StoppedIsQuiet, SocketOpen
  <2> QED  BY <2>2, <2>3, <2>4 DEF IInv
<1>3. CASE f \notin Remote
  <2>1. /\ bound' = bound \ {f} /\ stoppingIds' = stoppingIds \cup {f}
        /\ UNCHANGED <<starting, forwards, status, remoteRoutes, tcpConnectionBound,
                       clientClosed, phase, through>>
    BY <1>3 DEF stop, stopLocal, routeVars, connVars
  <2>2. TypeInv'  BY <1>3, <2>1 DEF IInv, TypeInv
  <2>3. RouteInv'  BY <1>3, <2>1 DEF IInv, RouteInv, RoutesMatchForwards
  <2>4. LifeInv'
    BY <1>1, <2>1 DEF IInv, TypeInv, LifeInv, StoppedIsQuiet, SocketOpen
  <2> QED  BY <2>2, <2>3, <2>4 DEF IInv
<1> QED  BY <1>2, <1>3

LEMMA InitIInv == Init => IInv
<1> SUFFICES ASSUME Init PROVE IInv  OBVIOUS
<1> USE ForwardsAssumption DEF Init, Forwards
<1>1. TypeInv  BY DEF TypeInv, Phases, MaybeForward
<1>2. RouteInv  BY DEF RouteInv, RoutesMatchForwards
<1>3. LifeInv  BY DEF LifeInv, StoppedIsQuiet
<1> QED  BY <1>1, <1>2, <1>3 DEF IInv

\* Steps that touch neither forwards nor routes nor the client, and close or leave
\* alone the connections that are open.
LEMMA ConnectionKeepsIInv ==
    ASSUME IInv, UNCHANGED <<forwardVars, routeVars, clientClosed>>,
           phase' \in [Conns -> Phases], through' \in [Conns -> MaybeForward],
           \A c \in Conns : SocketOpen(c)' =>
               (SocketOpen(c) /\ through'[c] = through[c]) \/ through'[c] \in bound \cup Remote
    PROVE IInv'
<1>1. TypeInv'  BY DEF IInv, TypeInv, forwardVars, routeVars
<1>2. RouteInv'  BY DEF IInv, RouteInv, RoutesMatchForwards, forwardVars, routeVars
<1>3. StoppedIsQuiet'
  BY ForwardsAssumption DEF IInv, LifeInv, StoppedIsQuiet, forwardVars, SocketOpen
<1>4. LifeInv'  BY <1>3 DEF IInv, LifeInv, forwardVars
<1> QED  BY <1>1, <1>2, <1>4 DEF IInv

LEMMA NextIInv == IInv /\ [Next]_vars => IInv'
<1> SUFFICES ASSUME IInv, [Next]_vars PROVE IInv'  OBVIOUS
<1> USE ForwardsAssumption DEF Forwards
<1>1. ASSUME NEW f \in Forwards, Start(f) PROVE IInv'
  <2> USE <1>1 DEF Start, routeVars, connVars
  <2>1. TypeInv'  BY DEF IInv, TypeInv
  <2>2. RouteInv'  BY DEF IInv, RouteInv, RoutesMatchForwards
  <2>3. LifeInv'  BY DEF IInv, TypeInv, LifeInv, StoppedIsQuiet, SocketOpen
  <2> QED  BY <2>1, <2>2, <2>3 DEF IInv
<1>2. ASSUME NEW f \in Forwards, ListenDone(f) PROVE IInv'
  <2> USE <1>2 DEF ListenDone, routeVars, connVars
  <2>1. TypeInv'  BY DEF IInv, TypeInv
  <2>2. RouteInv'  BY DEF IInv, RouteInv, RoutesMatchForwards
  <2>3. LifeInv'  BY DEF IInv, TypeInv, LifeInv, StoppedIsQuiet, SocketOpen
  <2> QED  BY <2>1, <2>2, <2>3 DEF IInv
<1>3. ASSUME NEW f \in Forwards, ForwardInDone(f) PROVE IInv'
  <2> USE <1>3 DEF ForwardInDone, connVars
  <2>1. TypeInv'  BY DEF IInv, TypeInv
  <2>2. \A b \in Binds : remoteRoutes'[b] = IF b = Bind[f] THEN f ELSE remoteRoutes[b]
    BY DEF IInv, TypeInv
  <2>3. \A g \in forwards \cap Remote : Bind[g] \notin AnyPort => Bind[g] # Bind[f]
    BY DEF IInv, RouteInv, BindTaken
  <2>4. RouteInv'
    <3>1. \A g \in forwards' \cap Remote :
              Bind[g] \notin AnyPort => remoteRoutes'[Bind[g]] = g
      BY <2>2, <2>3 DEF IInv, RouteInv, RoutesMatchForwards
    <3>2. \A b \in Binds : remoteRoutes'[b] # NoForward =>
              remoteRoutes'[b] \in forwards' /\ Bind[remoteRoutes'[b]] = b
      BY <2>2 DEF IInv, RouteInv, RoutesMatchForwards
    <3>3. tcpConnectionBound' <=> \E b \in Binds : remoteRoutes'[b] # NoForward
      BY <2>2
    <3>4. ~clientClosed' => forwards' \cap Remote \subseteq bound'
      BY DEF IInv, RouteInv
    <3> QED  BY <3>1, <3>2, <3>3, <3>4 DEF RouteInv, RoutesMatchForwards
  <2>5. LifeInv'  BY DEF IInv, TypeInv, LifeInv, StoppedIsQuiet, SocketOpen
  <2> QED  BY <2>1, <2>4, <2>5 DEF IInv
<1>4. ASSUME NEW f \in Forwards, StartFails(f) PROVE IInv'
  <2> USE <1>4 DEF StartFails, routeVars, connVars
  <2>1. TypeInv'  BY DEF IInv, TypeInv
  <2>2. RouteInv'  BY DEF IInv, RouteInv, RoutesMatchForwards
  <2>3. LifeInv'  BY DEF IInv, TypeInv, LifeInv, StoppedIsQuiet, SocketOpen
  <2> QED  BY <2>1, <2>2, <2>3 DEF IInv
<1>5. ASSUME NEW f \in Forwards, Stop(f) PROVE IInv'
  BY <1>5, StopKeepsIInv DEF Stop
<1>6. ASSUME NEW f \in Forwards, Closed(f) PROVE IInv'
  <2> USE <1>6 DEF Closed, routeVars, connVars
  <2>1. f \in Local /\ f \notin Remote  BY DEF IInv, TypeInv
  <2>2. TypeInv'  BY DEF IInv, TypeInv
  <2>3. RouteInv'
    <3>1. \A b \in Binds : remoteRoutes[b] # NoForward => remoteRoutes[b] \in forwards \ {f}
      BY <2>1 DEF IInv, TypeInv, RouteInv, RoutesMatchForwards
    <3> QED  BY <3>1 DEF IInv, RouteInv, RoutesMatchForwards
  <2>4. LifeInv'  BY <2>1 DEF IInv, TypeInv, LifeInv, StoppedIsQuiet, SocketOpen
  <2> QED  BY <2>2, <2>3, <2>4 DEF IInv
<1>7. ASSUME NEW c \in Conns, NEW b \in Binds, RemoteAccept(c, b) PROVE IInv'
  <2>1. remoteRoutes[b] \in Remote  BY <1>7 DEF RemoteAccept, IInv, TypeInv
  <2>2. phase' \in [Conns -> Phases] /\ through' \in [Conns -> MaybeForward]
    BY <1>7, <2>1 DEF RemoteAccept, IInv, TypeInv, Phases, MaybeForward
  <2>3. \A d \in Conns : SocketOpen(d)' =>
            (SocketOpen(d) /\ through'[d] = through[d]) \/ through'[d] \in bound \cup Remote
    BY <1>7, <2>1 DEF RemoteAccept, IInv, TypeInv, SocketOpen
  <2> QED  BY <1>7, <2>2, <2>3, ConnectionKeepsIInv DEF RemoteAccept
<1>8. ASSUME NEW c \in Conns, NEW f \in Forwards, LocalAccept(c, f) PROVE IInv'
  <2>1. phase' \in [Conns -> Phases] /\ through' \in [Conns -> MaybeForward]
    BY <1>8 DEF LocalAccept, IInv, TypeInv, Phases, MaybeForward
  <2>2. \A d \in Conns : SocketOpen(d)' =>
            (SocketOpen(d) /\ through'[d] = through[d]) \/ through'[d] \in bound \cup Remote
    BY <1>8 DEF LocalAccept, IInv, TypeInv, SocketOpen
  <2> QED  BY <1>8, <2>1, <2>2, ConnectionKeepsIInv DEF LocalAccept
<1>9. ASSUME NEW c \in Conns,
             ChannelOpens(c) \/ ChannelFails(c) \/ ConnectionCloses(c) \/ EarlyClose(c)
      PROVE IInv'
  <2>1. through' = through /\ UNCHANGED <<forwardVars, routeVars, clientClosed>>
    BY <1>9 DEF ChannelOpens, ChannelFails, ConnectionCloses, EarlyClose
  <2>2. phase' \in [Conns -> Phases]
    BY <1>9 DEF ChannelOpens, ChannelFails, ConnectionCloses, EarlyClose, IInv, TypeInv, Phases
  <2>3. \A d \in Conns : SocketOpen(d)' => SocketOpen(d)
    BY <1>9 DEF ChannelOpens, ChannelFails, ConnectionCloses, EarlyClose,
                IInv, TypeInv, Phases, SocketOpen
  <2>4. through' \in [Conns -> MaybeForward]  BY <2>1 DEF IInv, TypeInv
  <2> QED  BY <2>1, <2>2, <2>3, <2>4, ConnectionKeepsIInv
<1>10. ASSUME NEW w \in Loops, StopAll(w) \/ StopAllDone(w) PROVE IInv'
  <2>1. UNCHANGED <<forwardVars, routeVars, clientClosed, phase, through>>
    BY <1>10 DEF StopAll, StopAllDone, connVars
  <2> QED
    BY <2>1, ConnectionKeepsIInv DEF IInv, TypeInv, SocketOpen
<1>11. ASSUME NEW w \in Loops, NEW f \in Forwards, StopAllNext(w, f) PROVE IInv'
  <2>1. CASE UNCHANGED <<forwardVars, routeVars>>
    BY <1>11, <2>1, ConnectionKeepsIInv
       DEF StopAllNext, connVars, IInv, TypeInv, SocketOpen
  <2>2. CASE stop(f)
    BY <1>11, <2>2, StopKeepsIInv DEF StopAllNext
  <2> QED  BY <1>11, <2>1, <2>2 DEF StopAllNext
<1>12. ASSUME ClientCloses PROVE IInv'
  <2> USE <1>12 DEF ClientCloses, drainAllConnections, routeVars
  <2>1. TypeInv'  BY DEF IInv, TypeInv, Phases
  <2>2. RouteInv'  BY DEF IInv, RouteInv, RoutesMatchForwards
  <2>3. \A f \in Forwards : status'[f] = "stopped" => status[f] = "stopped"
    BY DEF IInv, TypeInv
  <2>4. \A c \in Conns : ~SocketOpen(c)'
    BY DEF IInv, TypeInv, Phases, SocketOpen
  <2>5. StoppedIsQuiet'  BY <2>3, <2>4 DEF IInv, LifeInv, StoppedIsQuiet
  <2>6. LifeInv'  BY <2>5 DEF IInv, TypeInv, LifeInv
  <2> QED  BY <2>1, <2>2, <2>6 DEF IInv
<1>13. CASE UNCHANGED vars
  BY <1>13, ConnectionKeepsIInv DEF vars, connVars, IInv, TypeInv, SocketOpen
<1> QED
  BY <1>1, <1>2, <1>3, <1>4, <1>5, <1>6, <1>7, <1>8, <1>9, <1>10, <1>11, <1>12, <1>13
     DEF Next, ForwardStep, ChannelStep, LoopStep

-----------------------------------------------------------------------------
\* Over any sequence of starts, stops and lost clients the dispatcher of remote
\* connections knows exactly the remote forwards of a given port that are
\* registered, whatever forwards of any port do to each other.
THEOREM DispatcherServesForwards == Spec => []RoutesMatchForwards
<1>1. IInv => RoutesMatchForwards  BY DEF IInv, RouteInv
<1> QED  BY InitIInv, NextIInv, <1>1, PTL DEF Spec

\* A local forward that reports "stopped" has given back its port and has no
\* connection left, whoever stopped it and whatever came between.
THEOREM StoppedForwardsAreQuiet == Spec => []StoppedIsQuiet
<1>1. IInv => StoppedIsQuiet  BY DEF IInv, LifeInv
<1> QED  BY InitIInv, NextIInv, <1>1, PTL DEF Spec

-----------------------------------------------------------------------------
(* Runner. Both theorems rest on one inductive invariant: the runner holds   *)
(* every channel that is open, so that the deadline and a stop can close it, *)
(* and the 30 s timer, which closes nothing, is only armed in a background   *)
(* run.                                                                      *)
OpenIsHeld == channel = "open" => ref
StartTimerIsBackground == startTimer => kind = "background"

\* Nothing is over before client.exec was called.
CallingIsNotSettled == channel = "calling" => ~settled

ChannelInv ==
    OpenIsHeld /\ StartTimerIsBackground /\ NoChannelLeftOpen /\ CallingIsNotSettled

\* Before client.exec is called there is no channel, and nothing is settled.
LEMMA InitChannel == RunInit => ChannelInv
BY DEF RunInit, ChannelInv, OpenIsHeld, StartTimerIsBackground, NoChannelLeftOpen,
       CallingIsNotSettled

\* Every step keeps open channels in the hands of runs that are not over.
LEMMA StepChannel == ChannelInv /\ [RunNext]_runVars => ChannelInv'
<1> SUFFICES ASSUME ChannelInv, [RunNext]_runVars PROVE ChannelInv'
  OBVIOUS
<1> USE DEF ChannelInv, OpenIsHeld, StartTimerIsBackground, NoChannelLeftOpen,
            CallingIsNotSettled
<1>1. CASE ExecCall
  BY <1>1 DEF ExecCall
<1>2. CASE ExecThrows
  BY <1>2 DEF ExecThrows, end
<1>3. CASE ExecRefused
  BY <1>3 DEF ExecRefused, end
<1>4. CASE ExecOpens
  BY <1>4 DEF ExecOpens
<1>5. CASE PidArrives
  BY <1>5 DEF PidArrives
<1>6. CASE RemoteExits
  BY <1>6 DEF RemoteExits, closeEvent, end
<1>7. CASE KillArrives
  BY <1>7 DEF KillArrives, closeEvent, end
<1>8. CASE Drop
  BY <1>8 DEF Drop, closeEvent, end
<1>9. CASE Deadline
  BY <1>9 DEF Deadline, ChannelClosed, end
<1>10. CASE StartTimeout
  BY <1>10 DEF StartTimeout, end
<1>11. CASE StopManager
  BY <1>11 DEF StopManager, Stoppable, ChannelClosed
<1>12. CASE StopBackground
  BY <1>12 DEF StopBackground, Stoppable, ChannelClosed
<1>13. CASE CancelForeground
  BY <1>13 DEF CancelForeground, Stoppable
<1>14. CASE ProbeThrows \/ ProbeOpens
  BY <1>14 DEF ProbeThrows, ProbeOpens
<1>15. CASE ProbeDeadline \/ Overflow
  BY <1>15 DEF ProbeDeadline, Overflow, ChannelClosed, end
<1>16. CASE UNCHANGED runVars
  BY <1>16 DEF runVars
<1> QED
  BY <1>1, <1>2, <1>3, <1>4, <1>5, <1>6, <1>7, <1>8, <1>9, <1>10, <1>11, <1>12,
     <1>13, <1>14, <1>15, <1>16 DEF RunNext

\* A foreground or manager run that is over never has an open channel: neither
\* one it forgot nor one that ssh2 opens late (execScheduledStreamSingle,
\* openSshTask).
THEOREM ChannelCorrect == RunSpec => []NoChannelLeftOpen
<1>1. ChannelInv => NoChannelLeftOpen
  BY DEF ChannelInv
<1> QED
  BY InitChannel, StepChannel, <1>1, PTL DEF RunSpec

-----------------------------------------------------------------------------
\* A step from a run that is over keeps what was reported. A stop of a manager
\* run finds no open channel then, by the invariant.
LEMMA EndStep == ChannelInv /\ [RunNext]_runVars /\ settled => outcome' = outcome
<1> SUFFICES ASSUME ChannelInv, [RunNext]_runVars, settled PROVE outcome' = outcome
  OBVIOUS
<1>1. CASE ExecCall \/ ExecOpens \/ PidArrives \/ CancelForeground
  BY <1>1 DEF ExecCall, ExecOpens, PidArrives, CancelForeground
<1>2. CASE ExecThrows \/ ExecRefused
  BY <1>2 DEF ExecThrows, ExecRefused, end
<1>3. CASE RemoteExits \/ KillArrives \/ Drop
  BY <1>3 DEF RemoteExits, KillArrives, Drop, closeEvent, end
<1>4. CASE Deadline \/ StartTimeout
  BY <1>4 DEF Deadline, StartTimeout, end
<1>5. CASE StopManager
  BY <1>5 DEF StopManager, ChannelInv, NoChannelLeftOpen
<1>6. CASE StopBackground
  BY <1>6 DEF StopBackground
<1>7. CASE ProbeThrows
  BY <1>7 DEF ProbeThrows, ChannelInv, CallingIsNotSettled
<1>8. CASE ProbeOpens \/ ProbeDeadline \/ Overflow
  BY <1>8 DEF ProbeOpens, ProbeDeadline, Overflow, end
<1>9. CASE UNCHANGED runVars
  BY <1>9 DEF runVars
<1> QED
  BY <1>1, <1>2, <1>3, <1>4, <1>5, <1>6, <1>7, <1>8, <1>9 DEF RunNext

\* Of the ends that race in the runners (settle, finalize, finish, fail) the
\* first one reported stands.
THEOREM FirstEndCorrect == RunSpec => FirstEndStands
<1>1. ChannelInv /\ [RunNext]_runVars => [settled => outcome' = outcome]_runVars
  BY EndStep
<1> QED
  BY InitChannel, StepChannel, <1>1, PTL DEF RunSpec, FirstEndStands
=============================================================================
