----------------------------- MODULE ConfigFile ------------------------------
(***************************************************************************)
(* The configuration file and those who edit it: config.Mutate              *)
(* (internal/config/mutate.go) as run by the rules server's PUT handler,    *)
(* by "msg-gw rules add/remove" and by "msg-gw pair", which may create a    *)
(* user; and the operator's text editor.                                    *)
(*                                                                         *)
(* Of a configuration the model keeps what the daemon's behaviour depends   *)
(* on: which edit gave each user its routing rules, the listener's port (0  *)
(* is off) and whether Load accepts it.  An edit is made once, by one       *)
(* process or request, and is known by its name.                            *)
(***************************************************************************)
EXTENDS Naturals, FiniteSets

CONSTANTS Users,         \* tenants
          Newcomers,     \* those of them that may not be in the file yet
          Pushes,        \* "rules push" requests, each of one user's rules
          Commands,      \* "rules add/remove" and "pair" processes
          OwnerOf,       \* OwnerOf[e]: the user whose rules edit e writes
          Ports,         \* ports an operator may configure, 0 among them
          Absent,        \* the rules of a user that is not in the file
          Original,      \* the rules a user starts with
          MaxManual      \* bound: commands run and edits with a text editor

Edits == Pushes \cup Commands

ASSUME EditsAssumption ==
    /\ Pushes \cap Commands = {} /\ {Absent, Original} \cap Edits = {}
    /\ Absent # Original
    /\ Newcomers \subseteq Users /\ OwnerOf \in [Edits -> Users]
    /\ 0 \in Ports /\ Ports \subseteq Nat /\ MaxManual \in Nat

Configs == [rules : [Users -> Edits \cup {Original, Absent}],
            port : Ports, good : BOOLEAN]

VARIABLES file,        \* config.json
          ed,          \* ed[e]: where edit e is, and what it read
          manual       \* commands and hand edits so far

fileVars == <<file, ed, manual>>

NoConfig == [rules |-> [u \in Users |-> Absent], port |-> 0, good |-> FALSE]

Untouched == [step |-> "idle", before |-> NoConfig, via |-> 0]

Steps == {"idle", "check", "replace", "send", "wait",          \* on the way
          "done", "applied", "saved", "over"}                  \* answered, or not

FileInit ==
    /\ \E absent \in SUBSET Newcomers, p \in Ports :
          file = [rules |-> [u \in Users |-> IF u \in absent THEN Absent ELSE Original],
                  port |-> p, good |-> TRUE]
    /\ ed = [e \in Edits |-> Untouched]
    /\ manual = 0

Step(e, s) == ed' = [ed EXCEPT ![e].step = s]

\* What the edit makes of a configuration: fn in each caller of Mutate.
Mutated(e, c) == [c EXCEPT !.rules[OwnerOf[e]] = e]

\* fn succeeds: a push and "rules" need the user, "pair" creates it.
Applies(e, c) == e \in Pushes => c.rules[OwnerOf[e]] # Absent

\* The file is read and decoded, fn applied; `via' is the listener a push
\* came through.
MutateReads(e, via) ==
    /\ ed[e].step = "idle"
    /\ Applies(e, file)
    /\ ed' = [ed EXCEPT ![e] = [step |-> "check", before |-> file, via |-> via]]
    /\ IF e \in Pushes THEN manual' = manual ELSE manual < MaxManual /\ manual' = manual + 1
    /\ UNCHANGED file

\* Mutant: the candidate is not loaded before it is put in place.
LoadsAnything(c) == TRUE

\* Load accepts the configuration; one with no users it does not.
Loads(c) == c.good /\ \E u \in Users : c.rules[u] # Absent

\* The candidate loads, and the file is still what it was when it was read.
MutateChecks(e) ==
    /\ ed[e].step = "check"
    /\ Loads(Mutated(e, ed[e].before)) /\ file = ed[e].before
    /\ Step(e, "replace")
    /\ UNCHANGED <<file, manual>>

\* The rename, which looks at the file no more.
MutateReplaces(e) ==
    /\ ed[e].step = "replace"
    /\ file' = Mutated(e, ed[e].before)
    /\ Step(e, IF e \in Pushes THEN "send" ELSE "done")
    /\ UNCHANGED manual

\* A change that does not load, a file changed meanwhile, or an I/O error: the
\* file is left alone.  (An edit refused before it was read is one never made,
\* and a rename that fails is like a check that did.)
MutateFails(e) ==
    /\ ed[e].step = "check"
    /\ ed' = [ed EXCEPT ![e] = [Untouched EXCEPT !.step = "over"]]
    /\ UNCHANGED <<file, manual>>

\* An operator changes the port, or breaks or repairs the file, and saves it.
HandEdit ==
    /\ manual < MaxManual
    /\ manual' = manual + 1
    /\ \/ \E p \in Ports \ {file.port} : file' = [file EXCEPT !.port = p]
       \/ file' = [file EXCEPT !.good = ~file.good]
    /\ UNCHANGED ed

FileTypeOK ==
    /\ file \in Configs
    /\ ed \in [Edits -> [step : Steps, before : Configs, via : Nat]]
    /\ manual \in 0..MaxManual

\* An edit that goes in changes its own part of the file and nothing else:
\* no edit made by somebody else is undone (Mutate's comment, mutate.go:35).
NoEditLost ==
    [][\A e \in Edits :
         (ed[e].step = "replace" /\ ed'[e].step \in {"send", "done"})
            => file' = Mutated(e, file)]_fileVars

=============================================================================
