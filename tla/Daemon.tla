------------------------------- MODULE Daemon --------------------------------
(***************************************************************************)
(* "msg-gw daemon" (cmd/daemon.go): the main goroutine that starts, reloads *)
(* and stops generations of bridges, the PID file and signals, the listener *)
(* that outlives the generations, and the rules server on it, whose pushes  *)
(* edit config.json (ConfigFile) and ask for a reload.                      *)
(*                                                                         *)
(* A generation is what the main goroutine sees of it: its context, the     *)
(* ready and genDone channels.  Bridge models what runs inside.             *)
(***************************************************************************)
EXTENDS ConfigFile, Sequences

CONSTANT MaxSignals      \* bound: "msg-gw reload" commands

ASSUME SignalsAssumption == MaxSignals \in Nat /\ "sighup" \notin Pushes

VARIABLES pc,        \* where RunE is
          cfg,       \* the configuration of the current generation
          shared,    \* sharedCfg, which the listener's handlers read
          newCfg,    \* what the reload in progress loaded
          asker,     \* whose request that reload answers
          cur,       \* the current generation: genCtx and genDone
          next,      \* the one a reload starts
          lsts, lst, \* the listeners made so far, the one in use (0: nil)
          first,     \* the one "defer lst.stop" was evaluated with
          term,      \* SIGINT or SIGTERM came: rootCtx is done
          armed,     \* signal.Notify(hup, SIGHUP) has been called
          pidFile,   \* whose PID msggw.pid holds; free: nobody's, or a dead process's
          hup,       \* SIGHUPs in the channel hup or in forwardReloadSignal's hand
          signals,   \* how many times "msg-gw reload" was run
          killed     \* a SIGHUP found no handler

genVars  == <<cur, next>>
lstVars  == <<lsts, lst, first>>
sigVars  == <<term, armed, hup, signals, killed>>
mainVars == <<pc, cfg, shared, newCfg, asker, pidFile>>
vars     == <<fileVars, mainVars, genVars, lstVars, sigVars>>

NoGen == [phase |-> "none", cfg |-> NoConfig, ready |-> FALSE, cancelled |-> FALSE]
Started(c) == [NoGen EXCEPT !.phase = "starting", !.cfg = c]
Cancelled(g) == [g EXCEPT !.cancelled = TRUE]

NewListener(port) == [port |-> port, phase |-> "serving", cancelled |-> FALSE]
Listeners == DOMAIN lsts

\* startPersistentListener, after the listeners ls; port 0 is no listener.
Listening(ls, port) ==
    IF port = 0 THEN lsts' = ls /\ lst' = 0
                ELSE lsts' = Append(ls, NewListener(port)) /\ lst' = Len(ls) + 1

DaemonInit ==
    /\ FileInit
    /\ pc = "boot" /\ asker = "sighup"
    /\ cfg = NoConfig /\ shared = NoConfig /\ newCfg = NoConfig
    /\ cur = NoGen /\ next = NoGen
    /\ lsts = << >> /\ lst = 0 /\ first = 0
    /\ pidFile \in {"free", "other"}
    /\ term = FALSE /\ armed = FALSE /\ hup = 0
    /\ signals = 0 /\ killed = FALSE

----------------------------------------------------------------------------
(* The main goroutine. *)

At(p) == pc = p /\ ~killed
Goto(p) == pc' = p

\* What the request's respond does: answers a push that still waits.
Respond(outcome) ==
    IF asker \in Pushes /\ ed[asker].step = "wait" THEN Step(asker, outcome)
                                                   ELSE ed' = ed
\* Mutant: a request whose reload failed is forgotten.
Forget(outcome) == IF outcome = "saved" THEN ed' = ed ELSE Respond(outcome)

\* Mutant: a saved edit is reported as applied.
OptimisticRespond(outcome) == Respond("applied")

\* What the reload in progress tells whoever asked for it.
Answer(outcome) == Respond(outcome)

\* Back to the select: newCfg and req are the iteration's own.
NextIteration == Goto("select") /\ newCfg' = NoConfig /\ asker' = "sighup"

LoadConfig ==
    /\ At("boot")
    /\ cfg' = file
    /\ Goto(IF Loads(file) THEN "arm" ELSE "exited")
    /\ UNCHANGED <<fileVars, shared, newCfg, asker, pidFile, genVars, lstVars, sigVars>>

ArmSignals ==
    /\ At("arm")
    /\ armed' = TRUE
    /\ Goto("pid")
    /\ UNCHANGED <<fileVars, cfg, shared, newCfg, asker, pidFile, genVars, lstVars,
                   term, hup, signals, killed>>

\* Another daemon alive on this state_dir: refuse to start.
AcquirePIDFile ==
    /\ At("pid")
    /\ IF pidFile = "other" THEN Goto("exited") /\ pidFile' = pidFile
                            ELSE Goto("listen") /\ pidFile' = "own"
    /\ UNCHANGED <<fileVars, cfg, shared, newCfg, asker, genVars, lstVars, sigVars>>

\* Mutant: the PID is written with no handler in place yet.
AcquirePIDFileEarly ==
    \/ AcquirePIDFile
    \/ At("arm") /\ pidFile = "free" /\ pidFile' = "own"
       /\ UNCHANGED <<fileVars, pc, cfg, shared, newCfg, asker, genVars, lstVars, sigVars>>

\* How the PID file is taken.
TakePIDFile == AcquirePIDFile

\* The listener, the deferred stop of it, and the first generation.
Launch ==
    /\ At("listen")
    /\ shared' = cfg
    /\ Listening(lsts, cfg.port) /\ first' = lst'
    /\ cur' = Started(cfg)
    /\ Goto("select")
    /\ UNCHANGED <<fileVars, cfg, newCfg, asker, pidFile, next, sigVars>>

\* RunE returns: what it deferred runs, the first listener's stop first.
Return(ls) ==
    /\ Goto("deferred")
    /\ lsts' = IF first = 0 THEN ls ELSE [ls EXCEPT ![first].cancelled = TRUE]

OnShutdown ==
    /\ At("select") /\ term
    /\ cur' = Cancelled(cur)
    /\ Goto("shutdown")
    /\ UNCHANGED <<fileVars, cfg, shared, newCfg, asker, pidFile, next, lstVars, sigVars>>

\* Mutant: the generation is cancelled but not waited for.
NoWait(g) == TRUE

\* A cancelled generation is over: its genDone has been received.
Waited(g) == g.phase = "ended"

Drained ==
    /\ At("shutdown") /\ Waited(cur)
    /\ cur' = NoGen
    /\ Return(lsts)
    /\ UNCHANGED <<fileVars, cfg, shared, newCfg, asker, pidFile, next, lst, first, sigVars>>

\* The generation ended by itself, every bridge of it having ended.
OnGenDone ==
    /\ At("select") /\ cur.phase = "ended"
    /\ cur' = NoGen
    /\ Return(lsts)
    /\ UNCHANGED <<fileVars, cfg, shared, newCfg, asker, pidFile, next, lst, first, sigVars>>

\* A request is received and the file loaded; what does not load is refused.
OnRequest(r) ==
    /\ At("select")
    /\ IF Loads(file)
       THEN /\ newCfg' = file /\ asker' = r /\ cur' = Cancelled(cur) /\ Goto("drain")
            /\ IF r \in Pushes THEN Step(r, "wait") ELSE ed' = ed
       ELSE /\ UNCHANGED <<newCfg, asker, cur, pc>>
            /\ IF r \in Pushes THEN Step(r, "saved") ELSE ed' = ed
    /\ UNCHANGED <<file, manual, cfg, pidFile, next, lstVars, term, armed,
                   signals, killed>>

OnPush(e) == ed[e].step = "send" /\ OnRequest(e) /\ UNCHANGED <<hup, shared>>

\* Mutant: the handlers get the configuration as soon as it is loaded.
OnSignalEager == hup > 0 /\ OnRequest("sighup") /\ hup' = hup - 1 /\ shared' = file

OnSignal == hup > 0 /\ OnRequest("sighup") /\ hup' = hup - 1 /\ UNCHANGED shared

StartNew ==
    /\ At("drain") /\ Waited(cur)
    /\ cur' = [NoGen EXCEPT !.phase = cur.phase]     \* no channel or context of it is used again
    /\ next' = Started(newCfg)
    /\ Goto("waitNew")
    /\ UNCHANGED <<fileVars, cfg, shared, newCfg, asker, pidFile, lstVars, sigVars>>

\* Mutant: the loop goes on with the old configuration as the current one.
SwapGenerationOnly ==
    /\ cfg' = cfg
    /\ cur' = next /\ next' = NoGen
    /\ NextIteration

\* What a successful reload ends with.
Swap ==
    /\ cfg' = newCfg
    /\ cur' = next /\ next' = NoGen
    /\ NextIteration

BoundTo == IF lst = 0 THEN 0 ELSE lsts[lst].port

\* The new generation is up, so the reload succeeded; a listener whose
\* settings changed is told to stop.
NewIsReady ==
    /\ At("waitNew") /\ next.ready
    /\ shared' = newCfg
    /\ Answer("applied")
    /\ \/ newCfg.port = BoundTo /\ Swap /\ UNCHANGED lsts
       \/ /\ newCfg.port # BoundTo
          /\ Goto("rebind")
          /\ lsts' = IF lst = 0 THEN lsts ELSE [lsts EXCEPT ![lst].cancelled = TRUE]
          /\ UNCHANGED <<cfg, newCfg, asker, genVars>>
    /\ UNCHANGED <<file, manual, pidFile, lst, first, sigVars>>

\* lst.stop has received from done; the next listener starts.
Rebind ==
    /\ At("rebind") /\ (lst # 0 => lsts[lst].phase = "done")
    /\ Listening(IF lst = 0 THEN lsts ELSE [lsts EXCEPT ![lst].phase = "drained"],
                 newCfg.port)
    /\ Swap
    /\ UNCHANGED <<fileVars, shared, pidFile, first, sigVars>>

\* The new generation failed to start: a shutdown comes first, else the
\* previous configuration is started again.
NewFailed ==
    /\ At("waitNew") /\ next.phase = "ended"
    /\ next' = NoGen
    /\ IF term THEN Answer("saved") /\ Return(lsts) /\ UNCHANGED cur
               ELSE /\ cur' = Started(cfg) /\ Goto("waitBack")
                    /\ UNCHANGED <<ed, lsts>>
    /\ UNCHANGED <<file, manual, cfg, shared, newCfg, asker, pidFile, lst, first, sigVars>>

RolledBack ==
    /\ At("waitBack") /\ cur.ready
    /\ Answer("saved")
    /\ NextIteration
    /\ UNCHANGED <<file, manual, cfg, shared, pidFile, genVars, lstVars, sigVars>>

\* Mutant: a generation that ended by itself is drained once more.
RollbackFailedRunning ==
    /\ At("waitBack") /\ cur.phase = "ended"
    /\ cur' = NoGen
    /\ Answer("saved") /\ Goto("shutdown") /\ UNCHANGED lsts
    /\ UNCHANGED <<file, manual, cfg, shared, newCfg, asker, pidFile, next, lst, first, sigVars>>

RollbackFailed ==
    /\ At("waitBack") /\ cur.phase = "ended"
    /\ cur' = NoGen
    /\ Answer("saved") /\ Return(lsts)
    /\ UNCHANGED <<file, manual, cfg, shared, newCfg, asker, pidFile, next, lst, first, sigVars>>

\* The deferred lst.stop receives from done, removePIDFile, and the end.
Exit ==
    /\ At("deferred") /\ (first # 0 => lsts[first].phase = "done")
    /\ pidFile' = "free"
    /\ armed' = FALSE
    /\ Goto("exited")
    /\ UNCHANGED <<fileVars, cfg, shared, newCfg, asker, genVars, lstVars,
                   term, hup, signals, killed>>

Main == \/ LoadConfig \/ ArmSignals \/ TakePIDFile \/ Launch
        \/ OnShutdown \/ Drained \/ OnGenDone \/ OnSignal \/ (\E e \in Pushes : OnPush(e))
        \/ StartNew \/ NewIsReady \/ Rebind
        \/ NewFailed \/ RolledBack \/ RollbackFailed \/ Exit

----------------------------------------------------------------------------
(* The generations and the listeners. *)

Alive == pc # "exited" /\ ~killed
Unmoved == UNCHANGED <<fileVars, mainVars, lstVars, sigVars>>

\* Storage and Mattermost are up: runGeneration sends on ready.
Ready(g) == [g EXCEPT !.phase = "running", !.ready = TRUE]
Runs(g)  == g.phase \in {"starting", "running"}
Ended(g) == [g EXCEPT !.phase = "ended"]
Cancels(g) == g.cancelled \/ term     \* its context is a child of rootCtx

GenStarts ==
    /\ Alive /\ Unmoved
    /\ \/ cur.phase = "starting" /\ cur' = Ready(cur) /\ UNCHANGED next
       \/ next.phase = "starting" /\ next' = Ready(next) /\ UNCHANGED cur

\* A setup that fails, or every bridge having ended, on its own or because
\* the context was cancelled.
CurEnds ==
    /\ Alive /\ Unmoved
    /\ Runs(cur) /\ cur' = Ended(cur) /\ UNCHANGED next

NextEnds ==
    /\ Alive /\ Unmoved
    /\ Runs(next) /\ next' = Ended(next) /\ UNCHANGED cur

Stopping(i) == lsts[i].cancelled \/ term

\* Shutdown returns once the requests in progress are over or the grace of
\* five seconds is; work on the file is assumed to take less.
\* A listener that cannot bind ends by itself.
ListenerEnds(i) ==
    /\ Alive /\ lsts[i].phase = "serving"
    /\ IF Stopping(i)
       THEN \A e \in Pushes : ed[e].via = i => ed[e].step \notin {"check", "replace"}
       ELSE \A e \in Pushes : ed[e].via # i
    /\ lsts' = [lsts EXCEPT ![i].phase = "done"]
    /\ UNCHANGED <<fileVars, mainVars, genVars, lst, first, sigVars>>

----------------------------------------------------------------------------
(* The rules server: handlePut, and its mutex. *)

\* Mutant: Mutate runs outside the mutex.
NoMutex(i) == TRUE

MutexFree(i) == ~\E e \in Pushes : ed[e].via = i /\ ed[e].step \in {"check", "replace"}

OthersKeep == UNCHANGED <<mainVars, genVars, lstVars, sigVars>>

PushStarts(e, i) ==
    /\ Alive /\ OthersKeep
    /\ lsts[i].phase = "serving" /\ ~lsts[i].cancelled /\ ~term
    /\ shared.rules[OwnerOf[e]] # Absent
    /\ MutexFree(i)
    /\ MutateReads(e, i)

PushMutates(e) ==
    /\ Alive /\ OthersKeep
    /\ ed[e].step # "idle"
    /\ MutateChecks(e) \/ MutateReplaces(e) \/ MutateFails(e)

\* The client goes away: its request's context ends both waits.
PushAbandoned(e) ==
    /\ Alive /\ OthersKeep
    /\ ed[e].step \in {"send", "wait"}
    /\ Step(e, "over")
    /\ UNCHANGED <<file, manual>>

\* The commands that edit the file, each a process of its own.
Command(e) ==
    /\ OthersKeep
    /\ MutateReads(e, 0) \/ MutateChecks(e) \/ MutateReplaces(e) \/ MutateFails(e)

----------------------------------------------------------------------------
(* Signals. *)

SigKeeps == UNCHANGED <<fileVars, mainVars, genVars, lstVars>>

Terminate ==
    /\ Alive /\ armed /\ ~term /\ SigKeeps
    /\ term' = TRUE
    /\ UNCHANGED <<armed, hup, signals, killed>>

\* "msg-gw reload" finds the PID and signals it.  The channel holds one signal
\* and drops what does not fit; the forwarder may have taken the one before.
Reload ==
    /\ Alive /\ pidFile = "own" /\ SigKeeps
    /\ signals < MaxSignals /\ signals' = signals + 1
    /\ killed' = ~armed
    /\ hup' \in IF hup = 0 THEN {1} ELSE {hup, 2}
    /\ UNCHANGED <<term, armed>>

----------------------------------------------------------------------------

Next == \/ Main \/ GenStarts \/ CurEnds \/ NextEnds
        \/ \E i \in Listeners : ListenerEnds(i) \/ \E e \in Pushes : PushStarts(e, i)
        \/ \E e \in Pushes : PushMutates(e) \/ PushAbandoned(e)
        \/ \E e \in Commands : Command(e)
        \/ HandEdit /\ OthersKeep
        \/ Terminate \/ Reload

Spec == DaemonInit /\ [][Next]_vars

\* The goroutines are scheduled; a generation starts or fails to, and ends
\* when cancelled; a cancelled listener ends within its grace.
Fairness ==
    /\ WF_vars(Main)
    /\ WF_vars(GenStarts)
    /\ WF_vars(Cancels(cur) /\ CurEnds) /\ WF_vars(Cancels(next) /\ NextEnds)
    /\ WF_vars(\E i \in Listeners : Stopping(i) /\ ListenerEnds(i))
    /\ \A e \in Pushes : WF_vars(PushMutates(e))

FairSpec == Spec /\ Fairness

----------------------------------------------------------------------------

GenOK(g) ==
    g \in [phase : {"none", "starting", "running", "ended"}, cfg : Configs,
           ready : BOOLEAN, cancelled : BOOLEAN]

\* Whatever is in the file, the daemon only holds configurations that load.
DaemonTypeOK ==
    /\ FileTypeOK
    /\ pc \in {"boot", "arm", "pid", "listen", "select", "shutdown", "drain", "waitNew",
              "waitBack", "rebind", "deferred", "exited"}
    /\ {cfg, shared, newCfg} \subseteq Configs
    /\ pc \notin {"boot", "exited"} => cfg.good
    /\ pc \notin {"boot", "arm", "pid", "listen", "exited"} => shared.good
    /\ asker \in Pushes \cup {"sighup"}
    /\ GenOK(cur) /\ GenOK(next)
    /\ lsts \in Seq([port : Ports \ {0}, phase : {"serving", "done", "drained"},
                     cancelled : BOOLEAN])
    /\ lst \in 0..Len(lsts) /\ first \in 0..Len(lsts)
    /\ {term, armed, killed} \subseteq BOOLEAN /\ signals \in 0..MaxSignals
    /\ pidFile \in {"free", "own", "other"} /\ hup \in 0..2

\* Two generations never run side by side: they would share the database and
\* connect to Google Messages with the same sessions (daemon.go:150).
OneGeneration == ~(Runs(cur) /\ Runs(next))

\* Whenever the daemon is back in its select - after a reload, one refused, one
\* rolled back - the bridges, the handlers and the listener all go by one
\* configuration, the one the loop takes for current.
InForce ==
    pc = "select" =>
        /\ cur.cfg = cfg /\ shared = cfg
        /\ IF cfg.port = 0 THEN lst = 0 ELSE lst # 0 /\ lsts[lst].port = cfg.port

\* The handlers are only ever given a configuration whose bridges came up.
ServesWhatRuns ==
    [][shared' # shared /\ pc # "listen" => next.ready /\ next.cfg = shared']_vars

\* Edit e, or one made on top of it, wrote rules r: whatever holds r and, with an
\* edit, the rules that it read, holds e.
Since(e, r) ==
    \A s \in SUBSET (Edits \cup {Absent, Original}) :
        (r \in s /\ \A x \in s \cap Edits : ed[x].before.rules[OwnerOf[e]] \in s) => e \in s

\* A command that read the file before e went in wrote it afterwards.
LostToCommand(e) ==
    \E c \in Commands : /\ ed[c].step = "done"
                         /\ ~Since(e, ed[c].before.rules[OwnerOf[e]])

\* A client told its rules are applied has them in force, or later ones of the
\* same user; a reload that failed or was rolled back is never reported as
\* applied, whoever's push it answers (rulesserver.go:148).
PushIsHonest ==
    [][\A e \in Pushes :
         ed[e].step = "wait" /\ ed'[e].step = "applied"
            => Since(e, shared'.rules[OwnerOf[e]]) \/ LostToCommand(e)]_vars

\* A command that read push p in the file wrote it back there.
BroughtBack(p) ==
    \E c \in Commands : ed[c].step = "done" /\ ed[c].before.rules[OwnerOf[p]] = p

\* A push never undoes another user's push, made meanwhile through the same
\* listener or through the one that replaced it.
PushesKeepPushes ==
    [][\A e, p \in Pushes :
         (/\ ed[e].step = "replace" /\ ed'[e].step = "send"
          /\ OwnerOf[p] # OwnerOf[e] /\ file.rules[OwnerOf[p]] = p)
            => file'.rules[OwnerOf[p]] = p \/ BroughtBack(p)]_vars

\* "msg-gw reload" never kills the daemon: by the time a PID is to be found
\* the signal has its handler (daemon.go:82).
NeverKilled == ~killed

\* A daemon told to stop ends, unless a reload replaced its first listener.
UnreplacedShutdownEnds ==
    term ~> (pc = "exited" \/ (first # 0 /\ lst # first))

\* A daemon told to stop ends.
ShutdownEnds == term ~> (pc = "exited")

\* A push whose rules are on disk gets its answer: nothing in a reload, its
\* rollback or a rebinding of the listener waits for ever.
PushIsAnswered ==
    \A e \in Pushes :
        ed[e].step \in {"send", "wait"} ~>
            \/ ed[e].step \notin {"send", "wait"}
            \/ pc \in {"shutdown", "deferred", "exited"}

=============================================================================
