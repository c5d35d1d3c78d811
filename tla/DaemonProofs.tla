---------------------------- MODULE DaemonProofs -----------------------------
(***************************************************************************)
(* What holds of the daemon for any users, pushes, commands and ports, and  *)
(* any number of them: the inductive invariant of Daemon, and the           *)
(* properties its runs check.                                               *)
(*                                                                         *)
(* None of the properties is inductive alone.  That the loop's view is in   *)
(* force in its select rests on what holds at every other place of a        *)
(* reload (ViewOK); that generations never overlap, on where each may still *)
(* run (GensOK); that pushes never undo each other, on at most one listener *)
(* serving (ListenersOK) and its mutex (MutexOK), across replacements.      *)
(***************************************************************************)
EXTENDS Daemon, SequenceTheorems, TLAPS

-----------------------------------------------------------------------------
(* The inductive invariant.                                                 *)

\* The loop has been entered and not left.
InLoop == {"select", "drain", "waitNew", "waitBack"}

\* Where the two generations may be, and what each was started with.
GensOK ==
    /\ pc \notin {"waitNew", "rebind"} => next = NoGen
    /\ pc \in {"waitNew", "rebind"} => ~Runs(cur) /\ next.cfg = newCfg
    /\ pc \in {"select", "waitBack"} => cur.cfg = cfg
    /\ pc \in {"drain", "waitNew", "waitBack", "rebind"} => newCfg.good

\* The handlers and the listener go by the loop's configuration, except while
\* the listener is replaced.
ViewOK ==
    /\ pc \in InLoop =>
          /\ shared = cfg
          /\ IF cfg.port = 0 THEN lst = 0 ELSE lst # 0 /\ lsts[lst].port = cfg.port
    /\ pc = "rebind" => shared = newCfg

\* Every listener but the one in use has been waited for.
ListenersOK ==
    /\ pc \in {"boot", "arm", "pid", "listen"} => lsts = << >>
    /\ \A i \in 1..Len(lsts) : i # lst => lsts[i].phase = "drained"

\* A push between its read of the file and its write.
Mutating(e) == e \in Pushes /\ ed[e].step \in {"check", "replace"}

\* Such a push holds the mutex of a listener that serves.
MutexOK ==
    /\ \A e \in Pushes : Mutating(e) =>
          ed[e].via \in 1..Len(lsts) /\ lsts[ed[e].via].phase = "serving"
    /\ \A e, p \in Pushes :
          Mutating(e) /\ Mutating(p) /\ ed[e].via = ed[p].via => e = p

\* A push about to write has read every other push in the file, but for those
\* that a command brought back since.
ReadAll(e) ==
    \A p \in Pushes :
        OwnerOf[p] # OwnerOf[e] /\ file.rules[OwnerOf[p]] = p
            => ed[e].before.rules[OwnerOf[p]] = p \/ BroughtBack(p)

ReadOK == \A e \in Pushes : ed[e].step = "replace" => ReadAll(e)

\* SIGHUP has its handler whenever the PID can be read.
SignalsOK ==
    /\ ~killed
    /\ pc \notin {"boot", "arm", "exited"} => armed
    /\ pidFile = "own" => armed

DaemonInv == DaemonTypeOK /\ GensOK /\ ViewOK /\ ListenersOK /\ MutexOK /\ ReadOK /\ SignalsOK

-----------------------------------------------------------------------------
(* Steps of one kind.                                                       *)

\* A step of an edit, whoever makes it.
EditStep ==
    \/ \E e \in Pushes : \/ PushMutates(e) \/ PushAbandoned(e)
                         \/ \E i \in Listeners : PushStarts(e, i)
    \/ \E e \in Commands : Command(e)
    \/ HandEdit

\* Apart from the main goroutine, each process changes its own variables only.
LEMMA StepKinds ==
    ASSUME Next
    PROVE  \/ Main
           \/ (GenStarts \/ CurEnds \/ NextEnds) /\ Unmoved
           \/ \E i \in Listeners : ListenerEnds(i)
           \/ EditStep /\ OthersKeep
           \/ (Terminate \/ Reload) /\ SigKeeps
<1>1. (GenStarts \/ CurEnds \/ NextEnds) => Unmoved
  BY DEF GenStarts, CurEnds, NextEnds
<1>2. (Terminate \/ Reload) => SigKeeps
  BY DEF Terminate, Reload
<1>3. \A e \in Pushes, i \in Listeners : PushStarts(e, i) => EditStep /\ OthersKeep
  BY DEF PushStarts, EditStep
<1>4. \A e \in Pushes : PushMutates(e) \/ PushAbandoned(e) => EditStep /\ OthersKeep
  BY DEF PushMutates, PushAbandoned, EditStep
<1>5. \A e \in Commands : Command(e) => EditStep /\ OthersKeep
  BY DEF Command, EditStep
<1>6. HandEdit => EditStep
  BY DEF EditStep
<1> QED
  BY <1>1, <1>2, <1>3, <1>4, <1>5, <1>6 DEF Next

-----------------------------------------------------------------------------
(* Types.                                                                   *)

EditRecords == [step : Steps, before : Configs, via : Nat]

LEMMA ConfigTypes ==
    /\ NoConfig \in Configs
    /\ \A e \in Edits, c \in Configs : Mutated(e, c) \in Configs
BY EditsAssumption DEF Configs, NoConfig, Mutated

LEMMA StepTypes ==
    ASSUME FileTypeOK, NEW e \in Edits, NEW s \in Steps, Step(e, s)
    PROVE  ed' \in [Edits -> EditRecords]
BY DEF FileTypeOK, Step, EditRecords

\* Every way in which a step of a reload answers the push that asked for it.
LEMMA RespondTypes ==
    ASSUME DaemonTypeOK, NEW s \in Steps, Respond(s)
    PROVE  ed' \in [Edits -> EditRecords]
<1>1. CASE ed' = ed
  BY <1>1 DEF DaemonTypeOK, FileTypeOK, EditRecords
<1>2. CASE asker \in Pushes /\ Step(asker, s)
  <2>1. asker \in Edits
    BY <1>2 DEF Edits
  <2> QED
    BY <1>2, <2>1, StepTypes DEF DaemonTypeOK
<1> QED
  BY <1>1, <1>2 DEF Respond

LEMMA RequestTypes ==
    ASSUME DaemonTypeOK, NEW r \in Pushes \cup {"sighup"}, OnRequest(r)
    PROVE  ed' \in [Edits -> EditRecords]
<1>1. CASE ed' = ed
  BY <1>1 DEF DaemonTypeOK, FileTypeOK, EditRecords
<1>2. CASE r \in Pushes /\ (Step(r, "wait") \/ Step(r, "saved"))
  <2>1. r \in Edits /\ {"wait", "saved"} \subseteq Steps
    BY <1>2 DEF Edits, Steps
  <2> QED
    BY <1>2, <2>1, StepTypes DEF DaemonTypeOK
<1> QED
  BY <1>1, <1>2 DEF OnRequest

\* What Mutate does, whoever runs it.
LEMMA MutateTypes ==
    ASSUME FileTypeOK, NEW e \in Edits, NEW i \in Nat,
           MutateReads(e, i) \/ MutateChecks(e) \/ MutateReplaces(e) \/ MutateFails(e)
    PROVE  FileTypeOK'
<1>1. CASE MutateReads(e, i)
  <2>1. [step |-> "check", before |-> file, via |-> i] \in EditRecords
    BY DEF FileTypeOK, EditRecords, Steps
  <2>2. ed' \in [Edits -> EditRecords]
    BY <1>1, <2>1 DEF MutateReads, FileTypeOK, EditRecords
  <2>3. manual' \in 0..MaxManual
    BY <1>1, EditsAssumption DEF MutateReads, FileTypeOK
  <2> QED
    BY <1>1, <2>2, <2>3 DEF MutateReads, FileTypeOK, EditRecords
<1>2. CASE MutateChecks(e)
  <2>1. ed' \in [Edits -> EditRecords]
    BY <1>2, StepTypes DEF MutateChecks, Steps
  <2> QED
    BY <1>2, <2>1 DEF MutateChecks, FileTypeOK, EditRecords
<1>3. CASE MutateReplaces(e)
  <2>1. ed' \in [Edits -> EditRecords]
    BY <1>3, StepTypes DEF MutateReplaces, Steps
  <2>2. file' \in Configs
    BY <1>3, ConfigTypes DEF MutateReplaces, FileTypeOK
  <2> QED
    BY <1>3, <2>1, <2>2 DEF MutateReplaces, FileTypeOK, EditRecords
<1>4. CASE MutateFails(e)
  BY <1>4, ConfigTypes DEF MutateFails, FileTypeOK, Steps, Untouched
<1> QED
  BY <1>1, <1>2, <1>3, <1>4

LEMMA HandEditTypes ==
    ASSUME FileTypeOK, HandEdit
    PROVE  FileTypeOK'
<1>1. manual' \in 0..MaxManual
  BY EditsAssumption DEF HandEdit, FileTypeOK
<1>2. file' \in Configs
  <2>1. ASSUME NEW p \in Ports, file' = [file EXCEPT !.port = p]
        PROVE  file' \in Configs
    BY <2>1 DEF FileTypeOK, Configs
  <2>2. CASE file' = [file EXCEPT !.good = ~file.good]
    BY <2>2, (~file.good) \in BOOLEAN DEF FileTypeOK, Configs
  <2> QED
    BY <2>1, <2>2 DEF HandEdit
<1> QED
  BY <1>1, <1>2 DEF HandEdit, FileTypeOK

LEMMA FileTypes ==
    ASSUME DaemonTypeOK, Next
    PROVE  FileTypeOK'
<1> USE DEF DaemonTypeOK
<1>1. CASE UNCHANGED fileVars
  BY <1>1 DEF fileVars, FileTypeOK
<1>2. CASE UNCHANGED <<file, manual>> /\ ed' \in [Edits -> EditRecords]
  BY <1>2 DEF FileTypeOK, EditRecords
<1>3. CASE OnSignal \/ \E e \in Pushes : OnPush(e)
  BY <1>2, <1>3, RequestTypes DEF OnSignal, OnPush, OnRequest
<1>4. CASE NewIsReady \/ NewFailed \/ RolledBack \/ RollbackFailed
  <2>1. {"applied", "saved"} \subseteq Steps
    BY DEF Steps
  <2> QED
    BY <1>2, <1>4, <2>1, RespondTypes, ed \in [Edits -> EditRecords]
    DEF NewIsReady, NewFailed, RolledBack, RollbackFailed, Answer, FileTypeOK, EditRecords
<1>5. ASSUME NEW e \in Pushes, NEW i \in Listeners, PushStarts(e, i)
      PROVE  FileTypeOK'
  <2>1. i \in Nat /\ e \in Edits
    BY <1>5 DEF Listeners, Edits
  <2> QED
    BY <1>5, <2>1, MutateTypes DEF PushStarts
<1>6. ASSUME NEW e \in Pushes, PushMutates(e) \/ PushAbandoned(e)
      PROVE  FileTypeOK'
  <2>1. e \in Edits /\ "over" \in Steps /\ 0 \in Nat
    BY DEF Edits, Steps
  <2> QED
    BY <1>6, <1>2, <2>1, MutateTypes, StepTypes DEF PushMutates, PushAbandoned
<1>7. ASSUME NEW e \in Commands, Command(e)
      PROVE  FileTypeOK'
  <2>1. e \in Edits /\ 0 \in Nat
    BY DEF Edits
  <2> QED
    BY <1>7, <2>1, MutateTypes DEF Command
<1>8. CASE HandEdit
  BY <1>8, HandEditTypes
<1> QED
  <2>1. CASE Main
    BY <2>1, <1>1, <1>3, <1>4
    DEF Main, LoadConfig, ArmSignals, TakePIDFile, AcquirePIDFile, Launch, OnShutdown,
        Drained, OnGenDone, StartNew, Rebind, Exit
  <2>2. CASE Unmoved \/ SigKeeps \/ \E i \in Listeners : ListenerEnds(i)
    BY <2>2, <1>1 DEF ListenerEnds, Unmoved, SigKeeps
  <2>3. CASE EditStep
    BY <2>3, <1>5, <1>6, <1>7, <1>8 DEF EditStep
  <2> QED
    BY <2>1, <2>2, <2>3, StepKinds

ListenerRecords ==
    [port : Ports \ {0}, phase : {"serving", "done", "drained"}, cancelled : BOOLEAN]

\* The rest of DaemonTypeOK: the listeners, the generations, the main goroutine.
ListTypeOK ==
    /\ lsts \in Seq(ListenerRecords)
    /\ lst \in 0..Len(lsts) /\ first \in 0..Len(lsts)

GenTypeOK == GenOK(cur) /\ GenOK(next)

LoopTypeOK ==
    /\ pc \in {"boot", "arm", "pid", "listen", "select", "shutdown", "drain", "waitNew",
              "waitBack", "rebind", "deferred", "exited"}
    /\ cfg \in Configs /\ shared \in Configs /\ newCfg \in Configs
    /\ pc \notin {"boot", "exited"} => cfg.good
    /\ pc \notin {"boot", "arm", "pid", "listen", "exited"} => shared.good
    /\ asker \in Pushes \cup {"sighup"}
    /\ term \in BOOLEAN /\ armed \in BOOLEAN /\ killed \in BOOLEAN
    /\ pidFile \in {"free", "own", "other"} /\ hup \in 0..2 /\ signals \in 0..MaxSignals

LEMMA TypeParts == DaemonTypeOK <=> FileTypeOK /\ ListTypeOK /\ GenTypeOK /\ LoopTypeOK
BY DEF DaemonTypeOK, ListTypeOK, GenTypeOK, LoopTypeOK, ListenerRecords

LEMMA TypePartsNext ==
    DaemonTypeOK' <=> FileTypeOK' /\ ListTypeOK' /\ GenTypeOK' /\ LoopTypeOK'
BY DEF DaemonTypeOK, ListTypeOK, GenTypeOK, LoopTypeOK, ListenerRecords

\* A listener is told to stop, ends, or is waited for.
LEMMA ListenerChanges ==
    ASSUME NEW ls \in Seq(ListenerRecords), NEW i \in 1..Len(ls)
    PROVE  /\ [ls EXCEPT ![i].cancelled = TRUE] \in Seq(ListenerRecords)
           /\ Len([ls EXCEPT ![i].cancelled = TRUE]) = Len(ls)
           /\ \A ph \in {"done", "drained"} :
                 /\ [ls EXCEPT ![i].phase = ph] \in Seq(ListenerRecords)
                 /\ Len([ls EXCEPT ![i].phase = ph]) = Len(ls)
<1>1. ls[i] \in ListenerRecords
  OBVIOUS
<1>2. ASSUME NEW r \in ListenerRecords
      PROVE  [ls EXCEPT ![i] = r] \in Seq(ListenerRecords) /\ Len([ls EXCEPT ![i] = r]) = Len(ls)
  BY ExceptSeq
<1>3. [ls[i] EXCEPT !.cancelled = TRUE] \in ListenerRecords
  BY <1>1 DEF ListenerRecords
<1>4. ASSUME NEW ph \in {"done", "drained"}
      PROVE  [ls[i] EXCEPT !.phase = ph] \in ListenerRecords
  BY <1>1, <1>4 DEF ListenerRecords
<1> QED
  BY <1>2, <1>3, <1>4

\* startPersistentListener leaves the listeners there are alone.
LEMMA ListeningTypes ==
    ASSUME NEW ls \in Seq(ListenerRecords), NEW port \in Ports, Listening(ls, port)
    PROVE  /\ lsts' \in Seq(ListenerRecords) /\ Len(ls) <= Len(lsts')
           /\ lst' \in 0..Len(lsts')
           /\ port = 0 => lsts' = ls /\ lst' = 0
           /\ port # 0 => /\ lsts' = Append(ls, NewListener(port))
                          /\ lst' = Len(ls) + 1 /\ Len(lsts') = lst'
<1>1. CASE port = 0
  BY <1>1 DEF Listening
<1>2. CASE port # 0
  <2>1. NewListener(port) \in ListenerRecords
    BY <1>2 DEF NewListener, ListenerRecords
  <2> QED
    BY <1>2, <2>1, AppendProperties DEF Listening
<1> QED
  BY <1>1, <1>2

\* RunE's deferred calls tell the first listener to stop and no other.
LEMMA ReturnTypes ==
    ASSUME ListTypeOK, Return(lsts)
    PROVE  lsts' \in Seq(ListenerRecords) /\ Len(lsts') = Len(lsts)
<1>1. CASE first = 0
  BY <1>1 DEF ListTypeOK, Return
<1>2. CASE first # 0
  <2>1. first \in 1..Len(lsts)
    BY <1>2, LenProperties DEF ListTypeOK
  <2> QED
    BY <1>2, <2>1, ListenerChanges DEF ListTypeOK, Return
<1> QED
  BY <1>1, <1>2

LEMMA ListTypes ==
    ASSUME DaemonInv, Next
    PROVE  ListTypeOK'
<1>0. ListTypeOK /\ cfg.port \in Ports /\ newCfg.port \in Ports
  BY TypeParts DEF DaemonInv, LoopTypeOK, Configs
<1> USE DEF ListTypeOK
<1>1. CASE UNCHANGED lstVars
  BY <1>0, <1>1 DEF lstVars
<1>2. CASE Launch
  BY <1>0, <1>2, ListeningTypes DEF Launch
<1>3. CASE Drained \/ OnGenDone \/ NewFailed \/ RollbackFailed
  BY <1>0, <1>3, ReturnTypes DEF Drained, OnGenDone, NewFailed, RollbackFailed
<1>4. CASE NewIsReady
  <2>1. CASE lst # 0 /\ lsts' = [lsts EXCEPT ![lst].cancelled = TRUE]
    <3>1. lst \in 1..Len(lsts)
      BY <1>0, <2>1, LenProperties
    <3> QED
      BY <1>0, <1>4, <2>1, <3>1, ListenerChanges DEF NewIsReady
  <2> QED
    BY <1>0, <1>4, <2>1 DEF NewIsReady
<1>5. CASE Rebind
  <2> DEFINE ls == IF lst = 0 THEN lsts ELSE [lsts EXCEPT ![lst].phase = "drained"]
  <2>1. ls \in Seq(ListenerRecords) /\ Len(ls) = Len(lsts)
    <3>1. lst # 0 => lst \in 1..Len(lsts)
      BY <1>0, LenProperties
    <3> QED
      BY <1>0, <3>1, ListenerChanges
  <2>2. Listening(ls, newCfg.port) /\ first' = first
    BY <1>5 DEF Rebind
  <2> HIDE DEF ls
  <2> QED
    BY <1>0, <2>1, <2>2, ListeningTypes
<1>6. ASSUME NEW i \in Listeners, ListenerEnds(i)
      PROVE  ListTypeOK'
  <2>1. i \in 1..Len(lsts)
    BY <1>0, <1>6 DEF Listeners
  <2>2. lsts' = [lsts EXCEPT ![i].phase = "done"] /\ UNCHANGED <<lst, first>>
    BY <1>6 DEF ListenerEnds
  <2> QED
    BY <1>0, <2>1, <2>2, ListenerChanges
<1> QED
  <2>1. CASE Main
    BY <2>1, <1>1, <1>2, <1>3, <1>4, <1>5
    DEF Main, LoadConfig, ArmSignals, TakePIDFile, AcquirePIDFile, OnShutdown, OnSignal,
        OnPush, OnRequest, StartNew, RolledBack, Exit
  <2>2. CASE Unmoved \/ OthersKeep \/ SigKeeps
    BY <2>2, <1>1 DEF OthersKeep, Unmoved, SigKeeps
  <2> QED
    BY <2>1, <2>2, <1>6, StepKinds

LEMMA GenRecords ==
    /\ GenOK(NoGen)
    /\ \A c \in Configs : GenOK(Started(c)) /\ Started(c).cfg = c /\ Runs(Started(c))
                           /\ ~Started(c).ready
BY ConfigTypes DEF GenOK, NoGen, Started, Runs

\* What happens to a generation once started: nothing changes its configuration.
LEMMA GenChanges ==
    ASSUME NEW g, GenOK(g)
    PROVE  /\ GenOK(Cancelled(g)) /\ Cancelled(g).cfg = g.cfg /\ Cancelled(g).ready = g.ready
           /\ Cancelled(g).phase = g.phase
           /\ g.phase = "starting" => GenOK(Ready(g)) /\ Ready(g).cfg = g.cfg /\ Runs(Ready(g))
           /\ GenOK(Ended(g)) /\ Ended(g).cfg = g.cfg /\ Ended(g).phase = "ended"
BY DEF GenOK, Cancelled, Ready, Ended, Runs

LEMMA GenTypes ==
    ASSUME DaemonInv, Next
    PROVE  GenTypeOK'
<1>0. GenTypeOK /\ cfg \in Configs /\ newCfg \in Configs
  BY TypeParts DEF DaemonInv, LoopTypeOK
<1> USE DEF GenTypeOK
<1>1. CASE UNCHANGED genVars
  BY <1>0, <1>1 DEF genVars
<1>2. CASE Launch \/ Drained \/ OnGenDone \/ NewFailed \/ RollbackFailed
  BY <1>0, <1>2, GenRecords DEF Launch, Drained, OnGenDone, NewFailed, RollbackFailed
<1>3. CASE OnShutdown \/ OnSignal \/ \E e \in Pushes : OnPush(e)
  BY <1>0, <1>3, GenChanges DEF OnShutdown, OnSignal, OnPush, OnRequest
<1>4. CASE StartNew
  <2>1. GenOK([NoGen EXCEPT !.phase = cur.phase])
    BY <1>0, ConfigTypes DEF GenOK, NoGen
  <2> QED
    BY <1>0, <1>4, <2>1, GenRecords DEF StartNew
<1>5. CASE NewIsReady \/ Rebind
  BY <1>0, <1>5, GenRecords DEF NewIsReady, Rebind, Swap, genVars
<1>6. CASE GenStarts \/ CurEnds \/ NextEnds
  BY <1>0, <1>6, GenChanges DEF GenStarts, CurEnds, NextEnds
<1> QED
  <2>1. CASE Main
    BY <2>1, <1>1, <1>2, <1>3, <1>4, <1>5
    DEF Main, LoadConfig, ArmSignals, TakePIDFile, AcquirePIDFile, RolledBack, Exit
  <2>2. CASE OthersKeep \/ SigKeeps \/ \E i \in Listeners : ListenerEnds(i)
    BY <2>2, <1>1 DEF OthersKeep, SigKeeps, ListenerEnds
  <2> QED
    BY <2>1, <2>2, <1>6, StepKinds

LEMMA LoopTypes ==
    ASSUME DaemonInv, Next
    PROVE  LoopTypeOK'
<1>0. LoopTypeOK /\ file \in Configs /\ NoConfig \in Configs
  BY TypeParts, ConfigTypes DEF DaemonInv, FileTypeOK
<1> USE <1>0 DEF LoopTypeOK, At, Goto
<1>1. CASE UNCHANGED <<mainVars, sigVars>>
  BY <1>1 DEF mainVars, sigVars
<1>2. CASE LoadConfig \/ ArmSignals \/ TakePIDFile \/ Launch \/ OnShutdown \/ Exit
  BY <1>2
  DEF LoadConfig, ArmSignals, TakePIDFile, AcquirePIDFile, Launch, OnShutdown, Exit,
      sigVars, Loads
<1>3. CASE Drained \/ OnGenDone
  BY <1>3 DEF Drained, OnGenDone, Return, sigVars
<1>4. ASSUME NEW r \in Pushes \cup {"sighup"}, OnRequest(r),
             shared' = shared, hup' \in 0..2
      PROVE  LoopTypeOK'
  BY <1>4 DEF OnRequest, Loads
<1>5. CASE OnSignal
  BY <1>4, <1>5 DEF OnSignal
<1>6. ASSUME NEW e \in Pushes, OnPush(e)
      PROVE  LoopTypeOK'
  BY <1>4, <1>6 DEF OnPush
<1>7. CASE StartNew
  BY <1>7 DEF StartNew, sigVars
<1>8. CASE NewIsReady \/ Rebind
  <2>1. pc \in {"waitNew", "rebind"} /\ newCfg.good
    BY <1>8 DEF NewIsReady, Rebind, DaemonInv, GensOK
  <2> QED
    BY <1>8, <2>1 DEF NewIsReady, Rebind, Swap, NextIteration, sigVars
<1>9. CASE NewFailed \/ RolledBack \/ RollbackFailed
  BY <1>9 DEF NewFailed, RolledBack, RollbackFailed, Return, NextIteration, sigVars
<1>10. CASE Terminate \/ Reload
  <2>1. CASE Terminate
    BY <1>10, <2>1 DEF Terminate, SigKeeps, mainVars
  <2>2. CASE Reload
    <3>1. hup' \in 0..2 /\ signals' \in 0..MaxSignals /\ killed' \in BOOLEAN
      BY <2>2, SignalsAssumption, (~armed) \in BOOLEAN DEF Reload
    <3> QED
      BY <2>2, <3>1 DEF Reload, SigKeeps, mainVars
  <2> QED
    BY <1>10, <2>1, <2>2
<1> QED
  <2>1. CASE Main
    BY <2>1, <1>2, <1>3, <1>5, <1>6, <1>7, <1>8, <1>9 DEF Main
  <2>2. CASE OthersKeep \/ Unmoved \/ \E i \in Listeners : ListenerEnds(i)
    BY <2>2, <1>1 DEF OthersKeep, Unmoved, ListenerEnds
  <2> QED
    BY <2>1, <2>2, <1>10, StepKinds

-----------------------------------------------------------------------------
(* The generations, the loop's view, the listeners, the signals.            *)

LEMMA GensStep ==
    ASSUME DaemonInv, Next
    PROVE  GensOK'
<1>0. GensOK /\ GenTypeOK
  BY TypeParts DEF DaemonInv
<1> USE <1>0 DEF GensOK, GenTypeOK, At, Goto
<1>1. CASE UNCHANGED <<mainVars, genVars>>
  BY <1>1 DEF mainVars, genVars
<1>2. CASE LoadConfig \/ ArmSignals \/ TakePIDFile \/ Exit
  BY <1>2 DEF LoadConfig, ArmSignals, TakePIDFile, AcquirePIDFile, Exit, genVars
<1>3. CASE Launch
  BY <1>3 DEF Launch, Started, NoGen
<1>4. CASE OnShutdown \/ Drained \/ OnGenDone
  BY <1>4 DEF OnShutdown, Drained, OnGenDone, Return
<1>5. ASSUME NEW r, OnRequest(r)
      PROVE  GensOK'
  BY <1>5, GenChanges DEF OnRequest, Loads
<1>6. CASE OnSignal \/ \E e \in Pushes : OnPush(e)
  BY <1>5, <1>6 DEF OnSignal, OnPush
<1>7. CASE StartNew
  BY <1>7 DEF StartNew, Waited, Started, NoGen, Runs
<1>8. CASE NewIsReady
  BY <1>8 DEF NewIsReady, Swap, NextIteration, genVars
<1>9. CASE Rebind
  BY <1>9 DEF Rebind, Swap, NextIteration
<1>10. CASE NewFailed
  BY <1>10, GenRecords, TypeParts DEF NewFailed, Return, DaemonInv, LoopTypeOK
<1>11. CASE RolledBack \/ RollbackFailed
  BY <1>11 DEF RolledBack, RollbackFailed, Return, NextIteration, genVars
<1>12. CASE GenStarts
  <2>1. ~(next.phase = "starting" /\ pc \notin {"waitNew", "rebind"})
    BY DEF NoGen
  <2>2. ~(cur.phase = "starting" /\ pc \in {"waitNew", "rebind"})
    BY DEF Runs
  <2> QED
    BY <1>12, <2>1, <2>2, GenChanges DEF GenStarts, Unmoved, mainVars
<1>13. CASE CurEnds
  BY <1>13, GenChanges DEF CurEnds, Unmoved, mainVars, Runs
<1>14. CASE NextEnds
  <2>1. ~(Runs(next) /\ pc \notin {"waitNew", "rebind"})
    BY DEF NoGen, Runs
  <2> QED
    BY <1>14, <2>1, GenChanges DEF NextEnds, Unmoved, mainVars
<1> QED
  <2>1. CASE Main
    BY <2>1, <1>2, <1>3, <1>4, <1>6, <1>7, <1>8, <1>9, <1>10, <1>11 DEF Main
  <2>2. CASE OthersKeep \/ SigKeeps \/ \E i \in Listeners : ListenerEnds(i)
    BY <2>2, <1>1 DEF OthersKeep, SigKeeps, ListenerEnds
  <2> QED
    BY <2>1, <2>2, <1>12, <1>13, <1>14, StepKinds

LEMMA ViewStep ==
    ASSUME DaemonInv, Next
    PROVE  ViewOK'
<1>0. ViewOK /\ GensOK /\ ListTypeOK /\ LoopTypeOK /\ GenTypeOK
  BY TypeParts DEF DaemonInv
<1>1. cfg.port \in Ports /\ newCfg.port \in Ports /\ (lst # 0 => lst \in 1..Len(lsts))
  BY <1>0, LenProperties DEF LoopTypeOK, ListTypeOK, Configs
<1>2. lst # 0 => lsts[lst].port # 0
  <2>1. ASSUME lst # 0
        PROVE  lsts[lst] \in ListenerRecords
    BY <1>0, <1>1, <2>1 DEF ListTypeOK
  <2> QED
    BY <2>1 DEF ListenerRecords
<1> USE <1>0 DEF ViewOK, InLoop, At, Goto
<1>3. CASE UNCHANGED <<mainVars, lst>> /\ (lst # 0 => lsts'[lst].port = lsts[lst].port)
  BY <1>3 DEF mainVars
<1>4. CASE LoadConfig \/ ArmSignals \/ TakePIDFile \/ Exit \/ OnShutdown
  BY <1>4 DEF LoadConfig, ArmSignals, TakePIDFile, AcquirePIDFile, Exit, OnShutdown, lstVars
<1>5. CASE Launch
  <2>1. lsts \in Seq(ListenerRecords)
    BY DEF ListTypeOK
  <2>2. cfg.port # 0 => lsts'[lst'] = NewListener(cfg.port) /\ lst' # 0
    BY <1>1, <1>5, <2>1, AppendProperties DEF Launch, Listening, NewListener
  <2> QED
    BY <1>1, <1>5, <2>2 DEF Launch, Listening, NewListener
<1>6. CASE Drained \/ OnGenDone \/ RollbackFailed
  BY <1>6 DEF Drained, OnGenDone, Return, RollbackFailed
<1>7. CASE OnSignal \/ \E e \in Pushes : OnPush(e)
  BY <1>7 DEF OnSignal, OnPush, OnRequest, lstVars
<1>8. CASE StartNew \/ RolledBack
  BY <1>8 DEF StartNew, RolledBack, NextIteration, lstVars
<1>9. CASE NewIsReady
  BY <1>2, <1>9 DEF NewIsReady, BoundTo, Swap, NextIteration
<1>10. CASE Rebind
  <2> DEFINE ls == IF lst = 0 THEN lsts ELSE [lsts EXCEPT ![lst].phase = "drained"]
  <2>1. ls \in Seq(ListenerRecords)
    BY <1>1, ListenerChanges DEF ListTypeOK
  <2>2. Listening(ls, newCfg.port) /\ cfg' = newCfg /\ shared' = newCfg /\ pc' = "select"
    BY <1>10 DEF Rebind, Swap, NextIteration
  <2> HIDE DEF ls
  <2>3. newCfg.port # 0 => lsts'[lst'] = NewListener(newCfg.port) /\ lst' # 0
    BY <1>1, <2>1, <2>2, AppendProperties DEF Listening, NewListener
  <2> QED
    BY <2>2, <2>3 DEF Listening, NewListener
<1>11. CASE NewFailed
  BY <1>11 DEF NewFailed, Return
<1>12. ASSUME NEW i \in Listeners, ListenerEnds(i)
       PROVE  ViewOK'
  <2>1. lst # 0 => lsts'[lst].port = lsts[lst].port
    BY <1>1, <1>12 DEF ListenerEnds, Listeners, ListTypeOK, ListenerRecords
  <2> QED
    BY <1>3, <1>12, <2>1 DEF ListenerEnds
<1> QED
  <2>1. CASE Main
    BY <2>1, <1>4, <1>5, <1>6, <1>7, <1>8, <1>9, <1>10, <1>11 DEF Main
  <2>2. CASE OthersKeep \/ SigKeeps \/ Unmoved
    BY <2>2, <1>3 DEF OthersKeep, SigKeeps, Unmoved, lstVars
  <2> QED
    BY <2>1, <2>2, <1>12, StepKinds

LEMMA ListenersStep ==
    ASSUME DaemonInv, Next
    PROVE  ListenersOK'
<1>0. ListenersOK /\ ListTypeOK /\ LoopTypeOK
  BY TypeParts DEF DaemonInv
<1>1. lsts \in Seq(ListenerRecords) /\ (lst # 0 => lst \in 1..Len(lsts))
      /\ (first # 0 => first \in 1..Len(lsts))
  BY <1>0, LenProperties DEF ListTypeOK
<1> USE <1>0, <1>1 DEF ListenersOK
<1>2. ASSUME lst' = lst, Len(lsts') = Len(lsts), lsts' \in Seq(ListenerRecords),
             pc' \in {"boot", "arm", "pid", "listen"} => pc \in {"boot", "arm", "pid", "listen"},
             \A i \in 1..Len(lsts) : i # lst => lsts'[i].phase = lsts[i].phase
      PROVE  ListenersOK'
  BY <1>2, EmptySeq
<1>3. CASE UNCHANGED lstVars /\ (pc' = pc \/ pc' \notin {"boot", "arm", "pid", "listen"} \/ lsts = << >>)
  BY <1>3 DEF lstVars
<1>4. ASSUME NEW ls \in Seq(ListenerRecords), NEW port \in Ports, Listening(ls, port),
             \A i \in 1..Len(ls) : ls[i].phase = "drained",
             pc' = "select"
      PROVE  ListenersOK'
  <2>1. CASE port = 0
    BY <1>4, <2>1, ListeningTypes
  <2>2. CASE port # 0
    <3>1. /\ lsts' = Append(ls, NewListener(port)) /\ lst' = Len(ls) + 1
          /\ Len(lsts') = Len(ls) + 1
      BY <1>4, <2>2, ListeningTypes
    <3>2. NewListener(port) \in ListenerRecords
      BY <2>2 DEF NewListener, ListenerRecords
    <3>3. \A i \in 1..Len(ls) : lsts'[i] = ls[i]
      BY <1>4, <3>1, <3>2, AppendProperties
    <3> QED
      BY <1>4, <3>1, <3>3, LenProperties
  <2> QED
    BY <2>1, <2>2
<1>5. CASE Launch
  <2>1. \A i \in 1..Len(lsts) : lsts[i].phase = "drained"
    BY <1>5, EmptySeq DEF Launch, At
  <2> QED
    BY <1>4, <1>5, <2>1 DEF Launch, Goto, LoopTypeOK, Configs
<1>6. CASE Drained \/ OnGenDone \/ NewFailed \/ RollbackFailed
  <2>1. CASE Return(lsts)
    <3>1. \A i \in 1..Len(lsts) : lsts'[i].phase = lsts[i].phase
      BY <1>0, <2>1 DEF Return, ListenerRecords
    <3> QED
      BY <1>0, <1>2, <1>6, <2>1, <3>1, ReturnTypes
      DEF Drained, OnGenDone, NewFailed, RollbackFailed, Return, Goto
  <2> QED
    BY <1>3, <1>6, <2>1
    DEF Drained, OnGenDone, NewFailed, RollbackFailed, lstVars, Goto
<1>7. CASE NewIsReady
  <2>1. CASE UNCHANGED lsts
    BY <1>3, <1>7, <2>1 DEF NewIsReady, lstVars, Swap, NextIteration, Goto
  <2>2. CASE lst # 0 /\ lsts' = [lsts EXCEPT ![lst].cancelled = TRUE]
    BY <1>2, <1>7, <2>2, ListenerChanges DEF NewIsReady, Swap, NextIteration, Goto
  <2> QED
    BY <1>7, <2>1, <2>2 DEF NewIsReady
<1>8. CASE Rebind
  <2> DEFINE ls == IF lst = 0 THEN lsts ELSE [lsts EXCEPT ![lst].phase = "drained"]
  <2>1. ls \in Seq(ListenerRecords) /\ Len(ls) = Len(lsts)
    BY ListenerChanges
  <2>2. \A i \in 1..Len(ls) : ls[i].phase = "drained"
    BY <2>1 DEF ListenerRecords
  <2>3. Listening(ls, newCfg.port) /\ pc' = "select"
    BY <1>8 DEF Rebind, Swap, NextIteration, Goto
  <2> HIDE DEF ls
  <2> QED
    BY <1>0, <1>4, <2>1, <2>2, <2>3 DEF LoopTypeOK, Configs
<1>9. ASSUME NEW i \in Listeners, ListenerEnds(i)
      PROVE  ListenersOK'
  <2>1. i \in 1..Len(lsts)
    BY <1>9 DEF Listeners
  <2>2. lsts[i].phase = "serving" /\ lsts' = [lsts EXCEPT ![i].phase = "done"]
        /\ lst' = lst /\ pc' = pc
    BY <1>9 DEF ListenerEnds, mainVars
  <2>3. i = lst
    BY <2>1, <2>2
  <2> QED
    BY <1>2, <2>1, <2>2, <2>3, ListenerChanges
<1> QED
  <2>1. CASE Main
    BY <2>1, <1>3, <1>5, <1>6, <1>7, <1>8
    DEF Main, LoadConfig, ArmSignals, TakePIDFile, AcquirePIDFile, OnShutdown, OnSignal,
        OnPush, OnRequest, StartNew, RolledBack, Exit, At, Goto, NextIteration, lstVars
  <2>2. CASE OthersKeep \/ SigKeeps \/ Unmoved
    BY <2>2, <1>3 DEF OthersKeep, SigKeeps, Unmoved, lstVars, mainVars
  <2> QED
    BY <2>1, <2>2, <1>9, StepKinds

LEMMA SignalsStep ==
    ASSUME DaemonInv, Next
    PROVE  SignalsOK'
<1>0. SignalsOK /\ LoopTypeOK
  BY TypeParts DEF DaemonInv
<1> USE <1>0 DEF SignalsOK, LoopTypeOK, At, Goto
<1>1. CASE UNCHANGED <<pc, pidFile, armed, killed>>
  BY <1>1
<1>2. CASE pc \in InLoop \cup {"rebind", "shutdown"} /\ pc' # "boot" /\ UNCHANGED <<pidFile, armed, killed>>
  BY <1>2 DEF InLoop
<1>3. CASE LoadConfig \/ ArmSignals \/ TakePIDFile \/ Launch \/ Exit
  BY <1>3 DEF LoadConfig, ArmSignals, TakePIDFile, AcquirePIDFile, Launch, Exit, sigVars
<1>4. CASE OnSignal \/ (\E e \in Pushes : OnPush(e)) \/ OnShutdown \/ Drained \/ OnGenDone
  BY <1>2, <1>4 DEF OnSignal, OnPush, OnRequest, OnShutdown, Drained, OnGenDone, Return, sigVars, InLoop
<1>5. CASE StartNew \/ NewIsReady \/ Rebind \/ NewFailed \/ RolledBack \/ RollbackFailed
  BY <1>2, <1>5
  DEF StartNew, NewIsReady, Rebind, NewFailed, RolledBack, RollbackFailed, Return, Swap,
      NextIteration, sigVars, InLoop
<1>6. CASE Terminate \/ Reload
  BY <1>6 DEF Terminate, Reload, SigKeeps, mainVars
<1> QED
  <2>1. CASE Main
    BY <2>1, <1>3, <1>4, <1>5 DEF Main
  <2>2. CASE OthersKeep \/ Unmoved \/ \E i \in Listeners : ListenerEnds(i)
    BY <2>2, <1>1 DEF OthersKeep, Unmoved, ListenerEnds, mainVars, sigVars
  <2> QED
    BY <2>1, <2>2, <1>6, StepKinds

-----------------------------------------------------------------------------
(* The pushes.                                                              *)

\* What the main goroutine, or the client's leaving, does to an edit: nothing,
\* or an answer to a push whose write is done.
Answered(e) ==
    \/ ed'[e] = ed[e]
    \/ /\ e \in Pushes /\ ed[e].step \in {"send", "wait"}
       /\ ed'[e].step \in {"wait", "applied", "saved", "over"}
       /\ ed'[e].before = ed[e].before

OnlyAnswers == file' = file /\ \A e \in Edits : Answered(e)

LEMMA StepAnswers ==
    ASSUME FileTypeOK, file' = file,
           NEW e \in Pushes, ed[e].step \in {"send", "wait"},
           NEW s \in {"wait", "applied", "saved", "over"}, Step(e, s)
    PROVE  OnlyAnswers
<1>1. e \in Edits /\ ed \in [Edits -> EditRecords]
  BY DEF Edits, FileTypeOK, EditRecords
<1>2. /\ ed'[e].step = s /\ ed'[e].before = ed[e].before
      /\ \A x \in Edits : x # e => ed'[x] = ed[x]
  BY <1>1 DEF Step, EditRecords
<1> QED
  BY <1>2 DEF OnlyAnswers, Answered

LEMMA MainEdits ==
    ASSUME DaemonTypeOK, Main
    PROVE  OnlyAnswers
<1>0. FileTypeOK
  BY DEF DaemonTypeOK
<1>1. CASE UNCHANGED <<file, ed>>
  BY <1>1 DEF OnlyAnswers, Answered
<1>2. ASSUME file' = file, NEW s \in {"applied", "saved"}, Respond(s)
      PROVE  OnlyAnswers
  BY <1>0, <1>1, <1>2, StepAnswers DEF Respond
<1>3. CASE OnSignal
  BY <1>1, <1>3, SignalsAssumption DEF OnSignal, OnRequest
<1>4. ASSUME NEW e \in Pushes, OnPush(e)
      PROVE  OnlyAnswers
  <2>1. ed[e].step = "send" /\ file' = file /\ (Step(e, "wait") \/ Step(e, "saved"))
    BY <1>4 DEF OnPush, OnRequest
  <2> QED
    BY <1>0, <2>1, StepAnswers
<1>5. CASE NewIsReady \/ NewFailed \/ RolledBack \/ RollbackFailed
  BY <1>1, <1>2, <1>5 DEF NewIsReady, NewFailed, RolledBack, RollbackFailed, Answer
<1> QED
  BY <1>1, <1>3, <1>4, <1>5
  DEF Main, LoadConfig, ArmSignals, TakePIDFile, AcquirePIDFile, Launch, OnShutdown,
      Drained, OnGenDone, StartNew, Rebind, Exit, fileVars

LEMMA OneMutating ==
    ASSUME DaemonInv, NEW e \in Pushes, NEW p \in Pushes, Mutating(e), Mutating(p)
    PROVE  e = p
<1>1. /\ ed[e].via \in 1..Len(lsts) /\ lsts[ed[e].via].phase = "serving"
      /\ ed[p].via \in 1..Len(lsts) /\ lsts[ed[p].via].phase = "serving"
  BY DEF DaemonInv, MutexOK
<1>2. ed[e].via = lst /\ ed[p].via = lst
  BY <1>1 DEF DaemonInv, ListenersOK
<1> QED
  BY <1>2 DEF DaemonInv, MutexOK

\* Nobody enters a mutex, and who is in one keeps its listener.
LEMMA MutexKept ==
    ASSUME MutexOK,
           \A e \in Pushes : Mutating(e)' =>
               /\ Mutating(e) /\ ed'[e].via = ed[e].via
               /\ ed[e].via \in 1..Len(lsts') /\ lsts'[ed[e].via].phase = "serving"
    PROVE  MutexOK'
BY DEF MutexOK

LEMMA ServingKept ==
    ASSUME DaemonInv, Main
    PROVE  \A e \in Pushes : Mutating(e) =>
               ed[e].via \in 1..Len(lsts') /\ lsts'[ed[e].via].phase = "serving"
<1>0. ListTypeOK /\ MutexOK /\ ListenersOK
  BY TypeParts DEF DaemonInv
<1>1. lsts \in Seq(ListenerRecords)
      /\ \A i \in 1..Len(lsts) : lsts[i] \in ListenerRecords
  BY <1>0 DEF ListTypeOK
<1> SUFFICES ASSUME NEW e \in Pushes, Mutating(e)
             PROVE  ed[e].via \in 1..Len(lsts') /\ lsts'[ed[e].via].phase = "serving"
  OBVIOUS
<1> DEFINE i == ed[e].via
<1>2. i \in 1..Len(lsts) /\ lsts[i].phase = "serving" /\ i = lst
  BY <1>0 DEF MutexOK, ListenersOK
<1> HIDE DEF i
<1>3. CASE UNCHANGED lsts
  BY <1>2, <1>3 DEF i
<1>4. CASE \E j : lsts' = [lsts EXCEPT ![j].cancelled = TRUE]
  <2>1. PICK j : lsts' = [lsts EXCEPT ![j].cancelled = TRUE]
    BY <1>4
  <2>2. Len(lsts') = Len(lsts) /\ lsts'[i].phase = lsts[i].phase
    BY <1>1, <1>2, <2>1, ListenerChanges DEF ListenerRecords
  <2> QED
    BY <1>2, <2>2 DEF i
<1>5. ~Launch /\ ~Rebind
  BY <1>0, <1>2, EmptySeq DEF ListenersOK, Launch, Rebind, At
<1> QED
  BY <1>3, <1>4, <1>5
  DEF Main, LoadConfig, ArmSignals, TakePIDFile, AcquirePIDFile, OnShutdown, Drained,
      OnGenDone, OnSignal, OnPush, OnRequest, StartNew, NewIsReady, NewFailed, RolledBack,
      RollbackFailed, Exit, Return, lstVars

\* Where an edit may be after its next step.
LEMMA MutateSteps ==
    ASSUME FileTypeOK, NEW e \in Edits,
           MutateChecks(e) \/ MutateReplaces(e) \/ MutateFails(e)
    PROVE  /\ \A x \in Edits : x # e => ed'[x] = ed[x]
           /\ ed[e].step \in {"check", "replace"}
           /\ ed'[e].step \in {"replace", "send", "done", "over"}
           /\ ed'[e].step # "over" => ed'[e].via = ed[e].via /\ ed'[e].before = ed[e].before
BY DEF FileTypeOK, MutateChecks, MutateReplaces, MutateFails, Step, Untouched

LEMMA ReadSteps ==
    ASSUME FileTypeOK, NEW e \in Edits, NEW i, MutateReads(e, i)
    PROVE  /\ \A x \in Edits : x # e => ed'[x] = ed[x]
           /\ ed[e].step = "idle" /\ file' = file
           /\ ed'[e].step = "check" /\ ed'[e].via = i
BY DEF FileTypeOK, MutateReads

LEMMA MutexStep ==
    ASSUME DaemonInv, Next
    PROVE  MutexOK'
<1>0. MutexOK /\ FileTypeOK /\ ListTypeOK /\ Pushes \subseteq Edits /\ Commands \subseteq Edits
      /\ Pushes \cap Commands = {}
  BY TypeParts, EditsAssumption DEF DaemonInv, Edits
<1>1. CASE OnlyAnswers /\ UNCHANGED lsts
  BY <1>0, <1>1, MutexKept DEF OnlyAnswers, Answered, Mutating, MutexOK
<1>2. CASE Main
  <2>1. OnlyAnswers
    BY <1>2, MainEdits DEF DaemonInv
  <2>2. \A e \in Pushes : Mutating(e)' => Mutating(e) /\ ed'[e].via = ed[e].via
    BY <1>0, <2>1 DEF OnlyAnswers, Answered, Mutating
  <2> QED
    BY <1>0, <1>2, <2>2, ServingKept, MutexKept
<1>3. ASSUME NEW i \in Listeners, ListenerEnds(i)
      PROVE  MutexOK'
  <2>1. \A e \in Pushes : Mutating(e) => ed[e].via # i
    BY <1>3 DEF ListenerEnds, Mutating
  <2>2. Len(lsts') = Len(lsts) /\ \A j \in 1..Len(lsts) : j # i => lsts'[j] = lsts[j]
    BY <1>0, <1>3 DEF ListenerEnds, ListTypeOK
  <2> QED
    BY <1>0, <1>3, <2>1, <2>2, MutexKept DEF ListenerEnds, Mutating, MutexOK, fileVars
<1>4. ASSUME NEW e \in Pushes, NEW i \in Listeners, PushStarts(e, i)
      PROVE  MutexOK'
  <2>1. MutateReads(e, i) /\ lsts' = lsts /\ i \in 1..Len(lsts) /\ lsts[i].phase = "serving"
    BY <1>0, <1>4 DEF PushStarts, OthersKeep, lstVars, Listeners, ListTypeOK
  <2>2. \A p \in Pushes : Mutating(p) => ed[p].via # i
    BY <1>4 DEF PushStarts, MutexFree, Mutating
  <2>3. \A p \in Pushes : p # e => ed'[p] = ed[p]
    BY <1>0, <2>1, ReadSteps
  <2>4. ed'[e].via = i
    BY <1>0, <2>1, ReadSteps
  <2> QED
    BY <1>0, <2>1, <2>2, <2>3, <2>4 DEF MutexOK, Mutating
<1>5. ASSUME NEW e \in Edits, OthersKeep, MutateChecks(e) \/ MutateReplaces(e) \/ MutateFails(e)
      PROVE  MutexOK'
  <2>1. \A p \in Pushes : Mutating(p)' => Mutating(p) /\ ed'[p].via = ed[p].via
    BY <1>0, <1>5, MutateSteps DEF Mutating
  <2> QED
    BY <1>0, <1>5, <2>1, MutexKept DEF OthersKeep, lstVars, MutexOK
<1>6. ASSUME NEW e \in Pushes, PushMutates(e) \/ PushAbandoned(e)
      PROVE  MutexOK'
  <2>1. CASE PushAbandoned(e)
    BY <1>0, <1>1, <2>1, StepAnswers DEF PushAbandoned, OthersKeep, lstVars
  <2> QED
    BY <1>0, <1>5, <1>6, <2>1 DEF PushMutates
<1>7. ASSUME NEW e \in Commands, Command(e)
      PROVE  MutexOK'
  <2>1. CASE MutateReads(e, 0)
    <3>1. \A p \in Pushes : ed'[p] = ed[p]
      BY <1>0, <2>1, ReadSteps
    <3> QED
      BY <1>0, <1>7, <3>1, MutexKept DEF Command, OthersKeep, lstVars, MutexOK, Mutating
  <2> QED
    BY <1>0, <1>5, <1>7, <2>1 DEF Command
<1>8. CASE UNCHANGED <<ed, lsts>>
  BY <1>0, <1>8, MutexKept DEF MutexOK, Mutating
<1> QED
  <2>1. CASE EditStep /\ OthersKeep
    BY <2>1, <1>4, <1>6, <1>7, <1>8 DEF EditStep, HandEdit, OthersKeep, lstVars
  <2>2. CASE SigKeeps \/ Unmoved
    BY <2>2, <1>8 DEF SigKeeps, Unmoved, fileVars, lstVars
  <2> QED
    BY <2>1, <2>2, <1>2, <1>3, StepKinds

\* Nobody writes the file, comes to the rename or undoes a command.
LEMMA ReadKept ==
    ASSUME ReadOK, \A u \in Users : file'.rules[u] = file.rules[u],
           EditsAssumption,
           \A e \in Pushes : ed'[e].step = "replace" =>
               ed[e].step = "replace" /\ ed'[e].before = ed[e].before,
           \A c \in Commands : ed[c].step = "done" => ed'[c] = ed[c]
    PROVE  ReadOK'
<1>1. \A p \in Pushes : OwnerOf[p] \in Users /\ (BroughtBack(p) => BroughtBack(p)')
  BY DEF EditsAssumption, Edits, BroughtBack
<1> QED
  BY <1>1 DEF ReadOK, ReadAll

LEMMA ReadStep ==
    ASSUME DaemonInv, Next
    PROVE  ReadOK'
<1>0. /\ ReadOK /\ FileTypeOK /\ EditsAssumption
      /\ Pushes \subseteq Edits /\ Commands \subseteq Edits /\ Pushes \cap Commands = {}
      /\ \A e \in Edits : OwnerOf[e] \in Users
  BY TypeParts, EditsAssumption DEF DaemonInv, Edits
<1>1. CASE OnlyAnswers
  BY <1>0, <1>1, ReadKept DEF OnlyAnswers, Answered
<1>2. CASE UNCHANGED <<file, ed>>
  BY <1>0, <1>2, ReadKept
<1>3. ASSUME NEW e \in Edits, NEW i, MutateReads(e, i) \/ MutateFails(e)
      PROVE  ReadOK'
  <2>1. /\ \A x \in Edits : x # e => ed'[x] = ed[x]
        /\ ed[e].step # "done" /\ ed'[e].step # "replace" /\ file' = file
    BY <1>0, <1>3 DEF MutateReads, MutateFails, FileTypeOK, Untouched
  <2> QED
    BY <1>0, <2>1, ReadKept
<1>4. ASSUME NEW e \in Edits, MutateChecks(e)
      PROVE  ReadOK'
  <2>1. /\ \A x \in Edits : x # e => ed'[x] = ed[x]
        /\ ed'[e].before = ed[e].before /\ ed[e].before = file /\ file' = file
        /\ ed[e].step = "check"
    BY <1>0, <1>4, MutateSteps DEF MutateChecks, Step, FileTypeOK
  <2>2. \A p \in Pushes : BroughtBack(p) => BroughtBack(p)'
    BY <1>0, <2>1 DEF BroughtBack
  <2> QED
    BY <1>0, <2>1, <2>2 DEF ReadOK, ReadAll
<1>5. ASSUME NEW e \in Pushes, MutateReplaces(e)
      PROVE  ReadOK'
  <2>1. /\ \A x \in Edits : x # e => ed'[x] = ed[x]
        /\ ed[e].step = "replace" /\ ed'[e].step = "send"
    BY <1>0, <1>5 DEF MutateReplaces, Step, FileTypeOK
  <2>2. \A x \in Pushes : ed'[x].step # "replace"
    BY <1>0, <2>1, OneMutating DEF Mutating
  <2> QED
    BY <2>2 DEF ReadOK
<1>6. ASSUME NEW c \in Commands, MutateReplaces(c)
      PROVE  ReadOK'
  <2>1. /\ \A x \in Edits : x # c => ed'[x] = ed[x]
        /\ ed'[c].step = "done" /\ ed'[c].before = ed[c].before
    BY <1>0, <1>6 DEF MutateReplaces, Step, FileTypeOK
  <2>2. \A u \in Users : u # OwnerOf[c] => file'.rules[u] = ed[c].before.rules[u]
    BY <1>0, <1>6 DEF MutateReplaces, Mutated, FileTypeOK, Configs
  <2>3. file'.rules[OwnerOf[c]] = c
    BY <1>0, <1>6 DEF MutateReplaces, Mutated, FileTypeOK, Configs
  <2>4. \A p \in Pushes : file'.rules[OwnerOf[p]] = p => BroughtBack(p)'
    BY <1>0, <2>1, <2>2, <2>3 DEF BroughtBack
  <2> QED
    BY <2>4 DEF ReadOK, ReadAll
<1>7. CASE HandEdit
  <2>1. \A u \in Users : file'.rules[u] = file.rules[u]
    BY <1>0, <1>7 DEF HandEdit, FileTypeOK, Configs
  <2> QED
    BY <1>0, <1>7, <2>1, ReadKept DEF HandEdit
<1>8. CASE EditStep
  <2>1. ASSUME NEW e \in Pushes, PushAbandoned(e)
        PROVE  ReadOK'
    BY <1>0, <1>1, <2>1, StepAnswers DEF PushAbandoned
  <2>2. ASSUME NEW e \in Pushes, PushMutates(e)
        PROVE  ReadOK'
    BY <1>0, <1>3, <1>4, <1>5, <2>2 DEF PushMutates
  <2>3. ASSUME NEW e \in Pushes, NEW i \in Listeners, PushStarts(e, i)
        PROVE  ReadOK'
    BY <1>0, <1>3, <2>3 DEF PushStarts
  <2>4. ASSUME NEW c \in Commands, Command(c)
        PROVE  ReadOK'
    BY <1>0, <1>3, <1>4, <1>6, <2>4 DEF Command
  <2> QED
    BY <1>7, <1>8, <2>1, <2>2, <2>3, <2>4 DEF EditStep
<1> QED
  <2>1. CASE Main
    BY <1>1, <2>1, MainEdits DEF DaemonInv
  <2>2. CASE SigKeeps \/ Unmoved \/ \E i \in Listeners : ListenerEnds(i)
    BY <2>2, <1>2 DEF SigKeeps, Unmoved, ListenerEnds, fileVars
  <2> QED
    BY <2>1, <2>2, <1>8, StepKinds

-----------------------------------------------------------------------------
(* The theorems.                                                            *)

LEMMA InitInv == DaemonInit => DaemonInv
<1> SUFFICES ASSUME DaemonInit
             PROVE  DaemonInv
  OBVIOUS
<1>1. FileTypeOK
  <2>1. \A a \in SUBSET Newcomers :
           [u \in Users |-> IF u \in a THEN Absent ELSE Original]
               \in [Users -> Edits \cup {Original, Absent}]
    OBVIOUS
  <2>2. file \in Configs
    BY <2>1 DEF DaemonInit, FileInit, Configs
  <2>3. Untouched \in [step : Steps, before : Configs, via : Nat]
    BY ConfigTypes DEF Untouched, Steps
  <2> QED
    BY <2>2, <2>3, EditsAssumption DEF DaemonInit, FileInit, FileTypeOK
<1>2. ListTypeOK /\ GenTypeOK /\ LoopTypeOK
  <2>1. ListTypeOK
    BY EmptySeq DEF DaemonInit, ListTypeOK
  <2>2. GenTypeOK
    BY GenRecords DEF DaemonInit, GenTypeOK
  <2>3. LoopTypeOK
    <3>1. NoConfig \in Configs /\ 0 \in 0..MaxSignals /\ 0 \in 0..2
      BY ConfigTypes, SignalsAssumption
    <3> QED
      BY <3>1 DEF DaemonInit, LoopTypeOK
  <2> QED
    BY <2>1, <2>2, <2>3
<1>3. GensOK /\ ViewOK /\ ListenersOK /\ SignalsOK
  BY EmptySeq
  DEF DaemonInit, GensOK, ViewOK, ListenersOK, SignalsOK, InLoop
<1>4. \A e \in Pushes : ed[e].step = "idle"
  BY DEF DaemonInit, FileInit, Untouched, Edits
<1>5. MutexOK /\ ReadOK
  BY <1>4 DEF MutexOK, ReadOK, Mutating
<1> QED
  BY <1>1, <1>2, <1>3, <1>5, TypeParts DEF DaemonInv

LEMMA NextInv == DaemonInv /\ [Next]_vars => DaemonInv'
<1> SUFFICES ASSUME DaemonInv, [Next]_vars
             PROVE  DaemonInv'
  OBVIOUS
<1>1. CASE Next
  BY <1>1, FileTypes, ListTypes, GenTypes, LoopTypes, TypePartsNext, GensStep, ViewStep,
     ListenersStep, MutexStep, ReadStep, SignalsStep
  DEF DaemonInv
<1>2. CASE UNCHANGED vars
  BY <1>2
  DEF vars, fileVars, mainVars, genVars, lstVars, sigVars, DaemonInv, DaemonTypeOK, FileTypeOK,
      GensOK, ViewOK, ListenersOK, MutexOK, Mutating, ReadOK, ReadAll, BroughtBack, SignalsOK
<1> QED
  BY <1>1, <1>2

\* The inductive invariant: it holds of the daemon at every step, whatever the
\* signals, the pushes, the commands and the operator's edits do.
THEOREM DaemonInvariance == Spec => []DaemonInv
<1>1. DaemonInit => DaemonInv
  BY InitInv
<1>2. DaemonInv /\ [Next]_vars => DaemonInv'
  BY NextInv
<1> QED
  BY <1>1, <1>2, PTL DEF Spec

\* Whatever is in the file, the loop and the handlers hold configurations that
\* load, and every variable keeps its type (cmd/daemon.go, RunE).
THEOREM DaemonTypeCorrect == Spec => []DaemonTypeOK
<1>1. DaemonInv => DaemonTypeOK
  BY DEF DaemonInv
<1> QED
  BY <1>1, DaemonInvariance, PTL

\* Two generations never run side by side, through reloads and rollbacks: the
\* new one is started when the old one is over, and given up only when it is
\* over (the reload loop of RunE in cmd/daemon.go).
THEOREM GenerationsNeverOverlap == Spec => []OneGeneration
<1>1. DaemonInv => OneGeneration
  BY DEF DaemonInv, GensOK, OneGeneration, Runs, NoGen
<1> QED
  BY <1>1, DaemonInvariance, PTL

\* Back in its select the daemon runs, serves and listens by one configuration,
\* the one the loop holds for current.
THEOREM SelectIsInForce == Spec => []InForce
<1>1. DaemonInv => InForce
  BY DEF DaemonInv, GensOK, ViewOK, InLoop, InForce
<1> QED
  BY <1>1, DaemonInvariance, PTL

\* A SIGHUP sent to the PID in the file always finds the handler.
THEOREM ReloadNeverKills == Spec => []NeverKilled
<1>1. DaemonInv => NeverKilled
  BY DEF DaemonInv, SignalsOK, NeverKilled
<1> QED
  BY <1>1, DaemonInvariance, PTL

LEMMA ServesStep ==
    ASSUME DaemonInv, Next, shared' # shared, pc # "listen"
    PROVE  next.ready /\ next.cfg = shared'
<1>1. CASE NewIsReady
  BY <1>1 DEF NewIsReady, DaemonInv, GensOK, At
<1>2. Main => NewIsReady
  BY DEF Main, LoadConfig, ArmSignals, TakePIDFile, AcquirePIDFile, Launch, OnShutdown,
      Drained, OnGenDone, OnSignal, OnPush, StartNew, Rebind, NewFailed, RolledBack,
      RollbackFailed, Exit, At
<1>3. ~(OthersKeep \/ SigKeeps \/ Unmoved \/ \E i \in Listeners : ListenerEnds(i))
  BY DEF OthersKeep, SigKeeps, Unmoved, ListenerEnds, mainVars
<1> QED
  BY <1>1, <1>2, <1>3, StepKinds

\* The handlers are only ever given a configuration whose bridges came up: the
\* old one stays in force until then, and when they do not come up.
THEOREM HandlersServeWhatRuns == Spec => ServesWhatRuns
<1> DEFINE Serves == shared' # shared /\ pc # "listen" => next.ready /\ next.cfg = shared'
<1>1. DaemonInv /\ [Next]_vars => [Serves]_vars
  BY ServesStep
<1> QED
  BY <1>1, DaemonInvariance, PTL DEF Spec, ServesWhatRuns

\* A push goes from its rename to asking for a reload by the rename only.
LEMMA SendIsReplace ==
    ASSUME DaemonInv, Next, NEW e \in Pushes, ed[e].step = "replace", ed'[e].step = "send"
    PROVE  MutateReplaces(e)
<1>0. /\ FileTypeOK /\ EditsAssumption
      /\ Pushes \subseteq Edits /\ Commands \subseteq Edits /\ Pushes \cap Commands = {}
  BY EditsAssumption DEF DaemonInv, DaemonTypeOK, Edits
<1>1. ~(OnlyAnswers \/ UNCHANGED ed)
  BY <1>0 DEF OnlyAnswers, Answered
<1>2. ASSUME NEW x \in Edits, NEW i,
             MutateReads(x, i) \/ MutateChecks(x) \/ MutateReplaces(x) \/ MutateFails(x)
      PROVE  MutateReplaces(e)
  BY <1>0, <1>2, ReadSteps, MutateSteps DEF MutateChecks, MutateFails, MutateReads
<1>3. CASE EditStep
  <2>1. \A x \in Pushes : ~PushAbandoned(x)
    BY <1>0, <1>1, StepAnswers DEF PushAbandoned
  <2> QED
    BY <1>0, <1>1, <1>2, <1>3, <2>1
    DEF EditStep, PushMutates, PushStarts, Command, HandEdit
<1>4. ~Main
  BY <1>1, MainEdits DEF DaemonInv
<1>5. ~(SigKeeps \/ Unmoved \/ \E i \in Listeners : ListenerEnds(i))
  BY <1>1 DEF SigKeeps, Unmoved, ListenerEnds, fileVars
<1> QED
  BY <1>3, <1>4, <1>5, StepKinds

LEMMA KeepsStep ==
    ASSUME DaemonInv, Next, NEW e \in Pushes, NEW p \in Pushes,
           ed[e].step = "replace", ed'[e].step = "send",
           OwnerOf[p] # OwnerOf[e], file.rules[OwnerOf[p]] = p
    PROVE  file'.rules[OwnerOf[p]] = p \/ BroughtBack(p)
<1>1. MutateReplaces(e)
  BY SendIsReplace
<1>2. /\ ed[e].before \in Configs
      /\ {OwnerOf[e], OwnerOf[p]} \subseteq Users
  BY EditsAssumption DEF DaemonInv, DaemonTypeOK, FileTypeOK, Edits
<1>3. file'.rules[OwnerOf[p]] = ed[e].before.rules[OwnerOf[p]]
  BY <1>1, <1>2 DEF MutateReplaces, Mutated, Configs
<1>4. ReadAll(e)
  BY DEF DaemonInv, ReadOK
<1> QED
  BY <1>3, <1>4 DEF ReadAll

\* A push never undoes another user's: the listener's mutex, and the wait for
\* the old listener before the new one starts, let one push at a time between
\* its read of config.json and its rename (handlePut in cmd/rulesserver.go).
THEOREM PushesNeverUndone == Spec => PushesKeepPushes
<1> DEFINE Keeps ==
      \A e, p \in Pushes :
         (/\ ed[e].step = "replace" /\ ed'[e].step = "send"
          /\ OwnerOf[p] # OwnerOf[e] /\ file.rules[OwnerOf[p]] = p)
            => file'.rules[OwnerOf[p]] = p \/ BroughtBack(p)
<1>1. DaemonInv /\ Next => Keeps
  BY KeepsStep
<1>2. DaemonInv /\ [Next]_vars => [Keeps]_vars
  BY <1>1
<1> QED
  BY <1>2, DaemonInvariance, PTL DEF Spec, PushesKeepPushes

-----------------------------------------------------------------------------
(* A push that is told "applied" is in force.                               *)

\* The edits that went in, and what a user has had without any.
Writers == {x \in Edits : ed[x].step \notin {"idle", "check", "replace"}} \cup {Absent, Original}

\* Rules come from edits that went in, wherever they are kept.
WrittenOK ==
    \A u \in Users : /\ file.rules[u] \in Writers /\ newCfg.rules[u] \in Writers
                     /\ \A x \in Edits : ed[x].before.rules[u] \in Writers

\* Since and LostToCommand, as operators on what each edit read, b, and on the
\* commands that are done.
Chain(b, e, r) ==
    \A s \in SUBSET (Edits \cup {Absent, Original}) :
        (r \in s /\ \A x \in s \cap Edits : b[x].rules[OwnerOf[e]] \in s) => e \in s

Held(b, done, e, r) ==
    Chain(b, e, r) \/ \E c \in done : ~Chain(b, e, b[c].rules[OwnerOf[e]])

Befores == [x \in Edits |-> ed[x].before]
DoneCommands == {c \in Commands : ed[c].step = "done"}

\* Configuration c has the rules of e, or later ones of its user, unless a
\* command undid e.
Holds(e, c) == Held(Befores, DoneCommands, e, c.rules[OwnerOf[e]])

LEMMA HoldsMeans ==
    \A e \in Edits : \A c : Holds(e, c) <=> Since(e, c.rules[OwnerOf[e]]) \/ LostToCommand(e)
<1>1. \A e, r : Since(e, r) <=> Chain(Befores, e, r)
  BY DEF Since, Chain, Befores
<1>2. \A e : LostToCommand(e) <=>
          \E c \in DoneCommands : ~Chain(Befores, e, Befores[c].rules[OwnerOf[e]])
  BY <1>1 DEF LostToCommand, DoneCommands, Befores, Edits
<1> QED
  BY <1>1, <1>2 DEF Holds, Held

\* A push that asks for a reload is in the file, and in what any push now
\* between its read and its write has read; one that waits is in what is loaded.
PushedOK ==
    \A e \in Pushes :
        /\ ed[e].step = "send" =>
              /\ Holds(e, file)
              /\ \A x \in Pushes : Mutating(x) => Holds(e, ed[x].before)
        /\ asker = e /\ ed[e].step = "wait" => Holds(e, newCfg)

HonestInv == WrittenOK /\ PushedOK

\* An edit that starts or fails changes no chain of those that went in, W.
LEMMA ChainKept ==
    ASSUME NEW W \in SUBSET (Edits \cup {Absent, Original}), NEW b, NEW b2,
           \A x \in W \cap Edits : b2[x] = b[x] /\ \A u \in Users : b[x].rules[u] \in W,
           NEW e \in Edits, OwnerOf[e] \in Users, NEW r \in W
    PROVE  Chain(b, e, r) <=> Chain(b2, e, r)
<1>1. ASSUME Chain(b, e, r), NEW s \in SUBSET (Edits \cup {Absent, Original}),
             r \in s, \A x \in s \cap Edits : b2[x].rules[OwnerOf[e]] \in s
      PROVE  e \in s
  <2>1. \A x \in (s \cap W) \cap Edits : b[x].rules[OwnerOf[e]] \in s \cap W
    BY <1>1
  <2>2. e \in s \cap W
    BY <1>1, <2>1 DEF Chain
  <2> QED
    BY <2>2
<1>2. ASSUME Chain(b2, e, r), NEW s \in SUBSET (Edits \cup {Absent, Original}),
             r \in s, \A x \in s \cap Edits : b[x].rules[OwnerOf[e]] \in s
      PROVE  e \in s
  <2>1. \A x \in (s \cap W) \cap Edits : b2[x].rules[OwnerOf[e]] \in s \cap W
    BY <1>2
  <2>2. e \in s \cap W
    BY <1>2, <2>1 DEF Chain
  <2> QED
    BY <2>2
<1> QED
  BY <1>1, <1>2 DEF Chain

LEMMA HeldKept ==
    ASSUME NEW W \in SUBSET (Edits \cup {Absent, Original}), NEW b, NEW b2,
           \A x \in W \cap Edits : b2[x] = b[x] /\ \A u \in Users : b[x].rules[u] \in W,
           NEW d \in SUBSET (W \cap Edits), NEW d2, d \subseteq d2,
           NEW e \in Edits, OwnerOf[e] \in Users, NEW r \in W,
           Held(b, d, e, r)
    PROVE  Held(b2, d2, e, r)
<1>1. \A q \in W : Chain(b, e, q) <=> Chain(b2, e, q)
  BY ChainKept
<1>2. \A c \in d : c \in d2 /\ b2[c] = b[c] /\ b[c].rules[OwnerOf[e]] \in W
  OBVIOUS
<1> QED
  BY <1>1, <1>2 DEF Held

\* What e itself wrote is e's.
LEMMA ChainHead ==
    ASSUME NEW b, NEW e \in Edits
    PROVE  Chain(b, e, e)
BY DEF Chain

\* What is written over rules that are e's, or later, is later.
LEMMA ChainStep ==
    ASSUME NEW b, NEW e \in Edits, NEW x \in Edits, Chain(b, e, b[x].rules[OwnerOf[e]])
    PROVE  Chain(b, e, x)
BY DEF Chain

\* A step of Mutate for edit e.
Mutates(e) ==
    \/ \E i : MutateReads(e, i)
    \/ MutateChecks(e) \/ MutateReplaces(e) \/ MutateFails(e)

LEMMA EditCases ==
    ASSUME DaemonInv, Next
    PROVE  \/ Main /\ OnlyAnswers
           \/ OnlyAnswers /\ UNCHANGED <<newCfg, asker>> /\ \A e \in Pushes : ed'[e].step = "wait" => ed[e].step = "wait"
           \/ HandEdit /\ UNCHANGED <<newCfg, asker>>
           \/ \E e \in Edits : Mutates(e) /\ UNCHANGED <<newCfg, asker>>
<1>0. FileTypeOK /\ Pushes \subseteq Edits /\ Commands \subseteq Edits
  BY DEF DaemonInv, DaemonTypeOK, Edits
<1>1. CASE Main
  BY <1>1, MainEdits DEF DaemonInv
<1>2. CASE UNCHANGED <<file, ed, newCfg, asker>>
  BY <1>2 DEF OnlyAnswers, Answered
<1>3. CASE EditStep /\ OthersKeep
  <2>0. UNCHANGED <<newCfg, asker>>
    BY <1>3 DEF OthersKeep, mainVars
  <2>1. ASSUME NEW e \in Pushes, PushAbandoned(e)
        PROVE  OnlyAnswers /\ \A p \in Pushes : ed'[p].step = "wait" => ed[p].step = "wait"
    BY <1>0, <2>1, StepAnswers DEF PushAbandoned, Step, FileTypeOK
  <2>2. ASSUME NEW e \in Edits, NEW i,
               MutateReads(e, i) \/ MutateChecks(e) \/ MutateReplaces(e) \/ MutateFails(e)
        PROVE  Mutates(e)
    BY <2>2 DEF Mutates
  <2> QED
    BY <1>0, <1>3, <2>0, <2>1, <2>2 DEF EditStep, PushMutates, PushStarts, Command
<1>4. CASE SigKeeps \/ Unmoved \/ \E i \in Listeners : ListenerEnds(i)
  BY <1>2, <1>4 DEF SigKeeps, Unmoved, ListenerEnds, fileVars, mainVars
<1> QED
  BY <1>1, <1>3, <1>4, StepKinds

\* What a step of Mutate does to the edits and to the file.
LEMMA MutatesDoes ==
    ASSUME FileTypeOK, NEW e \in Edits, Mutates(e)
    PROVE  /\ \A x \in Edits : x # e => ed'[x] = ed[x]
           /\ ed[e].step \in {"idle", "check", "replace"}
           /\ ed'[e].step \in {"check", "replace", "send", "done", "over"}
           /\ ed'[e].before \in {ed[e].before, file, NoConfig}
           /\ file' = file \/ MutateReplaces(e)
<1>1. CASE \E i : MutateReads(e, i)
  BY <1>1 DEF MutateReads, FileTypeOK
<1>2. CASE MutateChecks(e) \/ MutateReplaces(e)
  BY <1>2 DEF MutateChecks, MutateReplaces, Step, FileTypeOK
<1>3. CASE MutateFails(e)
  BY <1>3 DEF MutateFails, Untouched, FileTypeOK
<1> QED
  BY <1>1, <1>2, <1>3 DEF Mutates

\* The rename: the file is what e read, with e's own rules in it.
LEMMA ReplacesDoes ==
    ASSUME FileTypeOK, NEW e \in Edits, MutateReplaces(e)
    PROVE  /\ ed[e].step = "replace" /\ ed'[e].step \in {"send", "done"}
           /\ ed'[e].before = ed[e].before
           /\ e \in Commands \ Pushes => ed'[e].step = "done"
           /\ file'.rules[OwnerOf[e]] = e
           /\ \A u \in Users : u # OwnerOf[e] => file'.rules[u] = ed[e].before.rules[u]
<1>1. OwnerOf[e] \in Users /\ ed[e].before \in Configs
  BY EditsAssumption DEF FileTypeOK
<1>2. file' = Mutated(e, ed[e].before) /\ Step(e, IF e \in Pushes THEN "send" ELSE "done")
      /\ ed[e].step = "replace"
  BY DEF MutateReplaces
<1>3. /\ file'.rules[OwnerOf[e]] = e
      /\ \A u \in Users : u # OwnerOf[e] => file'.rules[u] = ed[e].before.rules[u]
  BY <1>1, <1>2 DEF Mutated, Configs
<1> QED
  BY <1>2, <1>3 DEF Step, FileTypeOK

\* An edit that went in stays as it is.
LEMMA WritersKept ==
    ASSUME DaemonInv, Next
    PROVE  /\ Writers \subseteq Writers' /\ DoneCommands \subseteq DoneCommands'
           /\ \A x \in Edits \cap Writers : Befores'[x] = Befores[x]
<1>0. /\ FileTypeOK /\ {Absent, Original} \cap Edits = {} /\ Commands \subseteq Edits
      /\ Commands \cap Pushes = {}
  BY EditsAssumption DEF DaemonInv, DaemonTypeOK, Edits
<1>1. CASE OnlyAnswers
  BY <1>0, <1>1 DEF OnlyAnswers, Answered, Writers, DoneCommands, Befores
<1>2. CASE HandEdit
  BY <1>2 DEF HandEdit, Writers, DoneCommands, Befores
<1>3. ASSUME NEW e \in Edits, Mutates(e)
      PROVE  /\ Writers \subseteq Writers' /\ DoneCommands \subseteq DoneCommands'
             /\ \A x \in Edits \cap Writers : Befores'[x] = Befores[x]
  BY <1>0, <1>3, MutatesDoes DEF Writers, DoneCommands, Befores
<1> QED
  BY <1>1, <1>2, <1>3, EditCases

LEMMA WrittenStep ==
    ASSUME DaemonInv, WrittenOK, Next
    PROVE  WrittenOK'
<1>0. FileTypeOK /\ \A u \in Users : NoConfig.rules[u] \in Writers'
  BY DEF DaemonInv, DaemonTypeOK, NoConfig, Writers
<1>1. \A r : r \in Writers => r \in Writers'
  BY WritersKept
<1>2. ASSUME \A u \in Users : file'.rules[u] = file.rules[u],
             newCfg' \in {newCfg, file, NoConfig},
             \A x \in Edits : ed'[x].before \in {ed[x].before, file, NoConfig}
      PROVE  WrittenOK'
  BY <1>0, <1>1, <1>2 DEF WrittenOK
<1>3. CASE Main /\ OnlyAnswers
  <2>1. newCfg' \in {newCfg, file, NoConfig}
    BY <1>3
    DEF Main, LoadConfig, ArmSignals, TakePIDFile, AcquirePIDFile, Launch, OnShutdown,
        Drained, OnGenDone, OnSignal, OnPush, OnRequest, StartNew, NewIsReady, Rebind, Swap,
        NextIteration, NewFailed, RolledBack, RollbackFailed, Exit
  <2> QED
    BY <1>2, <1>3, <2>1 DEF OnlyAnswers, Answered
<1>4. CASE OnlyAnswers /\ UNCHANGED newCfg
  BY <1>2, <1>4 DEF OnlyAnswers, Answered
<1>5. CASE HandEdit /\ UNCHANGED newCfg
  <2>1. \A u \in Users : file'.rules[u] = file.rules[u]
    BY <1>0, <1>5 DEF HandEdit, FileTypeOK, Configs
  <2> QED
    BY <1>2, <1>5, <2>1 DEF HandEdit
<1>6. ASSUME NEW e \in Edits, Mutates(e), UNCHANGED newCfg
      PROVE  WrittenOK'
  <2>1. CASE file' = file
    BY <1>0, <1>2, <1>6, <2>1, MutatesDoes
  <2>2. CASE MutateReplaces(e)
    <3>1. e \in Writers'
      BY <1>0, <2>2, ReplacesDoes DEF Writers
    <3>2. \A u \in Users : file'.rules[u] \in Writers'
      BY <1>0, <1>1, <2>2, <3>1, ReplacesDoes DEF WrittenOK
    <3> QED
      BY <1>0, <1>1, <1>6, <3>2, MutatesDoes DEF WrittenOK
  <2> QED
    BY <1>0, <1>6, <2>1, <2>2, MutatesDoes
<1> QED
  BY <1>3, <1>4, <1>5, <1>6, EditCases

\* What has the rules of e keeps them, whatever step is made.
LEMMA HoldsKept ==
    ASSUME DaemonInv, WrittenOK, Next
    PROVE  \A e \in Edits, r \in Writers :
               Held(Befores, DoneCommands, e, r) => Held(Befores', DoneCommands', e, r)
<1>1. Writers \in SUBSET (Edits \cup {Absent, Original})
  BY DEF Writers
<1>2. \A x \in Writers \cap Edits : Befores'[x] = Befores[x] /\ \A u \in Users : Befores[x].rules[u] \in Writers
  BY WritersKept DEF WrittenOK, Befores
<1>3. DoneCommands \in SUBSET (Writers \cap Edits) /\ DoneCommands \subseteq DoneCommands'
  BY WritersKept DEF DoneCommands, Writers, Edits
<1>4. \A e \in Edits : OwnerOf[e] \in Users
  BY EditsAssumption
<1> QED
  BY <1>1, <1>2, <1>3, <1>4, HeldKept

LEMMA PushedMain ==
    ASSUME DaemonInv, HonestInv, Next, Main, OnlyAnswers
    PROVE  PushedOK'
<1>0. /\ FileTypeOK /\ Pushes \subseteq Edits /\ \A e \in Edits : OwnerOf[e] \in Users
      /\ PushedOK /\ WrittenOK
  BY EditsAssumption DEF DaemonInv, DaemonTypeOK, HonestInv, Edits
<1>1. \A e \in Pushes : /\ ed'[e].step = "send" => ed[e].step = "send"
                        /\ Mutating(e)' => Mutating(e)
                        /\ ed'[e].before = ed[e].before
  BY <1>0 DEF OnlyAnswers, Answered, Mutating
<1>2. ASSUME NEW e \in Pushes, ed'[e].step = "send"
      PROVE  /\ Holds(e, file)'
             /\ \A x \in Pushes : Mutating(x)' => Holds(e, ed[x].before)'
  <2>1. Holds(e, file) /\ \A x \in Pushes : Mutating(x)' => Holds(e, ed[x].before)
    BY <1>0, <1>1, <1>2 DEF PushedOK
  <2>2. file.rules[OwnerOf[e]] \in Writers /\ \A x \in Pushes : ed[x].before.rules[OwnerOf[e]] \in Writers
    BY <1>0 DEF WrittenOK
  <2> QED
    BY <1>0, <1>1, <2>1, <2>2, HoldsKept DEF Holds, OnlyAnswers
<1>3. ASSUME NEW e \in Pushes, asker' = e, ed'[e].step = "wait"
      PROVE  Holds(e, newCfg)'
  <2>0. newCfg.rules[OwnerOf[e]] \in Writers /\ file.rules[OwnerOf[e]] \in Writers
    BY <1>0 DEF WrittenOK
  <2>1. ASSUME NEW r \in Pushes, OnPush(r)
        PROVE  Holds(e, newCfg)'
    <3>1. CASE Loads(file)
      <4>1. r = e /\ newCfg' = file /\ ed[e].step = "send"
        BY <1>3, <2>1, <3>1 DEF OnPush, OnRequest
      <4> QED
        BY <1>0, <2>0, <4>1, HoldsKept DEF PushedOK, Holds
    <3>2. CASE ~Loads(file)
      <4>1. Step(r, "saved") /\ newCfg' = newCfg /\ asker' = asker
        BY <2>1, <3>2 DEF OnPush, OnRequest
      <4>2. ed[e].step = "wait"
        BY <1>0, <1>3, <4>1 DEF Step, FileTypeOK
      <4> QED
        BY <1>0, <1>3, <2>0, <4>1, <4>2, HoldsKept DEF PushedOK, Holds
    <3> QED
      BY <3>1, <3>2
  <2>2. CASE \A x \in Pushes : ~OnPush(x)
    <3>1. newCfg' = newCfg /\ asker' = asker
      BY <1>3, <2>2, SignalsAssumption
      DEF Main, LoadConfig, ArmSignals, TakePIDFile, AcquirePIDFile, Launch, OnShutdown,
          Drained, OnGenDone, OnSignal, OnRequest, StartNew, NewIsReady, Rebind, Swap,
          NextIteration, NewFailed, RolledBack, RollbackFailed, Exit
    <3>2. ed[e].step = "wait"
      <4>1. CASE ed' = ed
        BY <1>3, <4>1
      <4>2. CASE Respond("applied") \/ Respond("saved")
        BY <1>0, <1>3, <4>2 DEF Respond, Step, FileTypeOK
      <4> QED
        BY <2>2, <4>1, <4>2, SignalsAssumption
        DEF Main, LoadConfig, ArmSignals, TakePIDFile, AcquirePIDFile, Launch, OnShutdown,
            Drained, OnGenDone, OnSignal, OnRequest, StartNew, NewIsReady, Rebind,
            NewFailed, RolledBack, RollbackFailed, Exit, Answer, fileVars
    <3> QED
      BY <1>0, <1>3, <2>0, <3>1, <3>2, HoldsKept DEF PushedOK, Holds
  <2> QED
    BY <2>1, <2>2
<1> QED
  BY <1>2, <1>3 DEF PushedOK

\* A step that leaves the pushes where they are, and the file's rules.
LEMMA PushedKept ==
    ASSUME DaemonInv, HonestInv, Next, UNCHANGED <<newCfg, asker>>,
           \A u \in Users : file'.rules[u] = file.rules[u],
           \A e \in Pushes : /\ ed'[e].step \in {"send", "wait"} => ed'[e].step = ed[e].step
                             /\ Mutating(e)' =>
                                   \/ Mutating(e) /\ ed'[e].before = ed[e].before
                                   \/ ed'[e].before = file
    PROVE  PushedOK'
<1>0. /\ Pushes \subseteq Edits /\ \A e \in Edits : OwnerOf[e] \in Users
      /\ PushedOK /\ WrittenOK
  BY EditsAssumption DEF HonestInv, Edits
<1>1. ASSUME NEW e \in Pushes, ed'[e].step = "send"
      PROVE  /\ Holds(e, file)'
             /\ \A x \in Pushes : Mutating(x)' => Holds(e, ed[x].before)'
  <2>1. /\ Holds(e, file)
        /\ \A x \in Pushes : Mutating(x)' => \/ Holds(e, ed[x].before) /\ ed'[x].before = ed[x].before
                                            \/ ed'[x].before = file
    BY <1>0, <1>1 DEF PushedOK
  <2>2. file.rules[OwnerOf[e]] \in Writers /\ \A x \in Pushes : ed[x].before.rules[OwnerOf[e]] \in Writers
    BY <1>0 DEF WrittenOK
  <2> QED
    BY <1>0, <2>1, <2>2, HoldsKept DEF Holds
<1>2. ASSUME NEW e \in Pushes, asker' = e, ed'[e].step = "wait"
      PROVE  Holds(e, newCfg)'
  <2>1. Holds(e, newCfg) /\ newCfg.rules[OwnerOf[e]] \in Writers
    BY <1>0, <1>2 DEF PushedOK, WrittenOK
  <2> QED
    BY <1>0, <2>1, HoldsKept DEF Holds
<1> QED
  BY <1>1, <1>2 DEF PushedOK

\* The rename by x: the pushes that ask for a reload are in what x has read, so
\* they are in what it writes; or x is a command, and undoes them.
LEMMA PushedReplaces ==
    ASSUME DaemonInv, HonestInv, Next, UNCHANGED <<newCfg, asker>>,
           NEW x \in Edits, MutateReplaces(x)
    PROVE  PushedOK'
<1>0. /\ Pushes \subseteq Edits /\ \A e \in Edits : OwnerOf[e] \in Users /\ FileTypeOK
      /\ PushedOK /\ WrittenOK /\ Pushes \cap Commands = {} /\ Edits = Pushes \cup Commands
  BY EditsAssumption DEF DaemonInv, DaemonTypeOK, HonestInv, Edits
<1>1. /\ \A y \in Edits : y # x => ed'[y] = ed[y]
      /\ ed[x].step = "replace" /\ ed'[x].step \in {"send", "done"}
      /\ ed'[x].before = ed[x].before /\ file'.rules[OwnerOf[x]] = x
      /\ \A u \in Users : u # OwnerOf[x] => file'.rules[u] = ed[x].before.rules[u]
  BY <1>0, MutatesDoes, ReplacesDoes DEF Mutates
<1>2. x \in Commands => ed'[x].step = "done"
  BY <1>0, ReplacesDoes
<1>3. Befores'[x] = ed[x].before /\ (x \in Commands => x \in DoneCommands')
  BY <1>1, <1>2 DEF Befores, DoneCommands
<1>4. ASSUME NEW e \in Pushes, e # x, ed[e].step = "send"
      PROVE  /\ Holds(e, file)'
             /\ \A y \in Pushes : Mutating(y)' => Holds(e, ed[y].before)'
  <2>1. \A r \in Writers : Held(Befores, DoneCommands, e, r) => Held(Befores', DoneCommands', e, r)
    BY <1>0, HoldsKept
  <2>2. \A y \in Edits : ed[y].before.rules[OwnerOf[e]] \in Writers
    BY <1>0 DEF WrittenOK
  <2>3. \A y \in Pushes : Mutating(y)' => Mutating(y) /\ ed'[y].before = ed[y].before
    BY <1>0, <1>1 DEF Mutating
  <2>4. \A y \in Pushes : Mutating(y)' => Holds(e, ed[y].before)'
    BY <1>0, <1>4, <2>1, <2>2, <2>3 DEF PushedOK, Holds
  <2> DEFINE read == ed[x].before.rules[OwnerOf[e]]
  <2>5. Held(Befores', DoneCommands', e, read)
    <3>1. CASE x \in Pushes
      <4>1. Holds(e, ed[x].before)
        BY <1>0, <1>1, <1>4, <3>1 DEF PushedOK, Mutating
      <4> QED
        BY <2>1, <2>2, <4>1 DEF Holds
    <3>2. CASE x \in Commands
      BY <1>3, <3>2 DEF Held
    <3> QED
      BY <1>0, <3>1, <3>2
  <2>6. CASE OwnerOf[x] # OwnerOf[e]
    BY <1>0, <1>1, <2>4, <2>5, <2>6 DEF Holds
  <2>7. CASE OwnerOf[x] = OwnerOf[e]
    <3>1. Chain(Befores', e, read) => Chain(Befores', e, x)
      BY <1>0, <1>3, ChainStep
    <3>2. Held(Befores', DoneCommands', e, x)
      BY <2>5, <3>1 DEF Held
    <3> QED
      BY <1>1, <2>4, <2>7, <3>2 DEF Holds
  <2> QED
    BY <2>6, <2>7
<1>5. ASSUME x \in Pushes
      PROVE  /\ Holds(x, file)'
             /\ \A y \in Pushes : Mutating(y)' => Holds(x, ed[y].before)'
  <2>1. Holds(x, file)'
    BY <1>1, ChainHead DEF Holds, Held
  <2>2. \A y \in Pushes : ~Mutating(y)'
    BY <1>0, <1>1, <1>5, OneMutating DEF Mutating
  <2> QED
    BY <2>1, <2>2
<1>6. ASSUME NEW e \in Pushes, asker' = e, ed'[e].step = "wait"
      PROVE  Holds(e, newCfg)'
  <2>1. Holds(e, newCfg) /\ newCfg.rules[OwnerOf[e]] \in Writers
    BY <1>0, <1>1, <1>6 DEF PushedOK, WrittenOK
  <2> QED
    BY <1>0, <2>1, HoldsKept DEF Holds
<1> QED
  BY <1>0, <1>1, <1>4, <1>5, <1>6 DEF PushedOK

LEMMA PushedStep ==
    ASSUME DaemonInv, HonestInv, Next
    PROVE  PushedOK'
<1>0. FileTypeOK /\ Pushes \subseteq Edits
  BY DEF DaemonInv, DaemonTypeOK, Edits
<1>1. CASE OnlyAnswers /\ UNCHANGED <<newCfg, asker>> /\ \A e \in Pushes : ed'[e].step = "wait" => ed[e].step = "wait"
  BY <1>0, <1>1, PushedKept DEF OnlyAnswers, Answered, Mutating
<1>2. CASE HandEdit /\ UNCHANGED <<newCfg, asker>>
  <2>1. \A u \in Users : file'.rules[u] = file.rules[u]
    BY <1>0, <1>2 DEF HandEdit, FileTypeOK, Configs
  <2> QED
    BY <1>2, <2>1, PushedKept DEF HandEdit, Mutating
<1>3. ASSUME NEW e \in Edits, Mutates(e), UNCHANGED <<newCfg, asker>>
      PROVE  PushedOK'
  <2>1. CASE MutateReplaces(e)
    BY <1>3, <2>1, PushedReplaces
  <2>2. CASE MutateChecks(e) \/ MutateFails(e) \/ \E i : MutateReads(e, i)
    <3>1. file' = file /\ \A x \in Edits : x # e => ed'[x] = ed[x]
      BY <1>0, <1>3, <2>2, MutatesDoes DEF MutateChecks, MutateFails, MutateReads
    <3>2. /\ ed'[e].step \in {"check", "replace", "over"}
          /\ ed'[e].step # "over" =>
                 \/ ed[e].step = "check" /\ ed'[e].before = ed[e].before
                 \/ ed'[e].before = file
      BY <1>0, <2>2 DEF MutateChecks, MutateFails, MutateReads, Step, FileTypeOK, Untouched
    <3> QED
      BY <1>0, <1>3, <3>1, <3>2, PushedKept DEF Mutating
  <2> QED
    BY <1>3, <2>1, <2>2 DEF Mutates
<1> QED
  BY <1>1, <1>2, <1>3, PushedMain, EditCases

LEMMA HonestInit == DaemonInit => HonestInv
<1> SUFFICES ASSUME DaemonInit
             PROVE  HonestInv
  OBVIOUS
<1>1. {Absent, Original} \subseteq Writers
  BY DEF Writers
<1>2. /\ \A u \in Users : file.rules[u] \in {Absent, Original} /\ newCfg.rules[u] = Absent
      /\ \A x \in Edits : ed[x].step = "idle" /\ ed[x].before = NoConfig
  <2>1. PICK absent \in SUBSET Newcomers, p \in Ports :
           file = [rules |-> [u \in Users |-> IF u \in absent THEN Absent ELSE Original],
                   port |-> p, good |-> TRUE]
    BY DEF DaemonInit, FileInit
  <2>2. \A u \in Users : file.rules[u] \in {Absent, Original}
    BY <2>1
  <2>3. newCfg = NoConfig /\ ed = [e \in Edits |-> Untouched]
    BY DEF DaemonInit, FileInit
  <2> QED
    BY <2>2, <2>3 DEF Untouched, NoConfig
<1>3. WrittenOK
  BY <1>1, <1>2 DEF WrittenOK, NoConfig
<1>4. PushedOK
  BY <1>2 DEF PushedOK, Edits
<1> QED
  BY <1>3, <1>4 DEF HonestInv

LEMMA HonestNext == DaemonInv /\ HonestInv /\ [Next]_vars => HonestInv'
<1>1. ASSUME DaemonInv, HonestInv, Next
      PROVE  HonestInv'
  BY <1>1, WrittenStep, PushedStep DEF HonestInv
<1>2. ASSUME DaemonInv, HonestInv, UNCHANGED vars
      PROVE  HonestInv'
  BY <1>2
  DEF vars, fileVars, mainVars, HonestInv, WrittenOK, PushedOK, Writers, Holds, Befores,
      DoneCommands, Mutating
<1> QED
  BY <1>1, <1>2

\* Wherever a push's rules are - in the file, in what another push has read, in
\* what a reload has loaded - they come from edits that went in; a push that
\* asks for a reload or waits for one is in force there or undone by a command.
THEOREM HonestInvariance == Spec => []HonestInv
<1>1. DaemonInit => HonestInv
  BY HonestInit
<1>2. DaemonInv /\ HonestInv /\ [Next]_vars => HonestInv'
  BY HonestNext
<1> QED
  BY <1>1, <1>2, DaemonInvariance, PTL DEF Spec

LEMMA HonestStep ==
    ASSUME DaemonInv, HonestInv, Next, NEW e \in Pushes,
           ed[e].step = "wait", ed'[e].step = "applied"
    PROVE  Since(e, shared'.rules[OwnerOf[e]]) \/ LostToCommand(e)
<1>0. FileTypeOK /\ Pushes \subseteq Edits
  BY DEF DaemonInv, DaemonTypeOK, Edits
<1>1. ~(ed' = ed \/ \E x \in Edits : Mutates(x))
  BY <1>0, MutatesDoes
<1>2. ~\E x \in Pushes : Step(x, "wait") \/ Step(x, "saved") \/ Step(x, "over")
  BY <1>0 DEF Step, FileTypeOK
<1>3. ~(Respond("saved") \/ \E x \in Pushes : PushAbandoned(x))
  BY <1>1, <1>2 DEF Respond, PushAbandoned
<1>4. CASE Main
  <2>1. NewIsReady
    BY <1>1, <1>2, <1>3, <1>4, SignalsAssumption
    DEF Main, LoadConfig, ArmSignals, TakePIDFile, AcquirePIDFile, Launch, OnShutdown,
        Drained, OnGenDone, OnSignal, OnPush, OnRequest, StartNew, Rebind, NewFailed,
        RolledBack, RollbackFailed, Exit, Answer, fileVars
  <2>2. shared' = newCfg /\ Respond("applied")
    BY <2>1 DEF NewIsReady, Answer
  <2>3. asker = e
    BY <1>0, <1>1, <2>2 DEF Respond, Step, FileTypeOK
  <2>4. Holds(e, newCfg)
    BY <2>3 DEF HonestInv, PushedOK
  <2> QED
    BY <1>0, <2>2, <2>4, HoldsMeans
<1>5. ~EditStep
  BY <1>1, <1>3
  DEF EditStep, PushMutates, PushStarts, Command, HandEdit, Mutates, Edits
<1>6. ~(SigKeeps \/ Unmoved \/ \E i \in Listeners : ListenerEnds(i))
  BY <1>1 DEF SigKeeps, Unmoved, ListenerEnds, fileVars
<1> QED
  BY <1>4, <1>5, <1>6, StepKinds

\* A client told that its rules are applied has them in force, or later ones of
\* the same user, or a command that had not read them wrote the file since
\* (handlePut in cmd/rulesserver.go, the reload loop of RunE in cmd/daemon.go).
THEOREM AppliedIsInForce == Spec => PushIsHonest
<1> DEFINE Honest ==
      \A e \in Pushes :
         ed[e].step = "wait" /\ ed'[e].step = "applied"
            => Since(e, shared'.rules[OwnerOf[e]]) \/ LostToCommand(e)
<1>1. DaemonInv /\ HonestInv /\ Next => Honest
  BY HonestStep
<1>2. DaemonInv /\ HonestInv /\ [Next]_vars => [Honest]_vars
  BY <1>1
<1> QED
  BY <1>2, DaemonInvariance, HonestInvariance, PTL DEF Spec, PushIsHonest

=============================================================================
