---------------------------- MODULE ResourceFile ----------------------------
(***************************************************************************)
(* The guarded single-file writes: resource_upsert and resource_delete     *)
(* (src/core/authoring.ts), the manifest of visual_project_attach          *)
(* (src/visual/project.ts) and the archive of datapack_build               *)
(* (src/core/build.ts), which install through src/core/files.ts.           *)
(*                                                                         *)
(* All calls name one path.  Calls of one process exclude each other by    *)
(* its path lock; calls of two processes, and other programs, do not.  A   *)
(* file is its content, which is what the SHA-256 preconditions compare.   *)
(* Each file-system call is a step; a read (lstat, then a stable read) is  *)
(* one, for it fails if the file changes under it.  A dry run changes      *)
(* nothing and is left out.                                                *)
(***************************************************************************)
EXTENDS FiniteSets

CONSTANTS Calls,
          Home,     \* Home[c]: the process that serves the call
          Asks,     \* Asks[c]: what may be asked of it, of [kind, expects, content]
          Initial,  \* the content the path may have at first
          Foreign,  \* what other programs may put there
          None      \* no file, no expectation

Requests == UNION {Asks[c] : c \in Calls}
Contents == {r.content : r \in Requests} \cup {r.expects : r \in Requests}
              \cup Initial \cup Foreign \cup {None}

ASSUME RequestsAssumption ==
  \A r \in Requests :
    /\ DOMAIN r = {"kind", "expects", "content"}
    /\ r.kind \in {"upsert", "attach", "build", "delete"}
    /\ IF r.kind = "delete" THEN r.content = None /\ r.expects # None
                            ELSE r.content # None

VARIABLES
  target,  \* the content at the path
  held,    \* held[c]: the content at the call's hidden backup or quarantine name
  tmp,     \* tmp[c]: the call's prepared file exists
  request, \* request[c]: what the call was asked for, or None
  mode,    \* mode[c]: "create", "replace" or "delete" once that is decided
  pc,      \* pc[c]: the call's next step
  excused  \* history: the path may be missing (see NeverMissing)

vars == <<target, held, tmp, request, mode, pc, excused>>

Ends == {"ok", "error", "crashed"}
Steps == {"look", "stage", "check", "move", "moved", "link", "unstage", "discard",
          "restore", "unhold", "clean", "confirm"}

Init ==
  /\ target \in Initial
  /\ held = [c \in Calls |-> None]
  /\ tmp = [c \in Calls |-> FALSE]
  /\ request = [c \in Calls |-> None]
  /\ mode = [c \in Calls |-> "none"]
  /\ pc = [c \in Calls |-> "idle"]
  /\ excused = (target = None)

Goto(c, step) == pc' = [pc EXCEPT ![c] = step]
Expects(c) == request[c].expects
Active(c) == pc[c] \in Steps

\* The call enters withPathLock of its process.
Enter(c, r) ==
  /\ pc[c] = "idle"
  /\ \A d \in Calls : Home[d] = Home[c] => ~Active(d)
  /\ request' = [request EXCEPT ![c] = r]
  /\ Goto(c, "look")
  /\ UNCHANGED <<target, held, tmp, mode, excused>>

\* What the call makes of the file it finds.  An upsert or a build of a missing
\* file creates it, whatever is expected; attach does not.
Decision(r) ==
  IF r.kind = "delete"
    THEN IF target = None THEN "error" ELSE "delete"
  ELSE IF target = None
    THEN IF r.kind = "attach" /\ r.expects # None THEN "error" ELSE "create"
  ELSE IF r.kind = "attach" /\ target = r.content THEN "ok"
  ELSE IF target # r.expects THEN "error"
  ELSE IF r.kind = "upsert" /\ target = r.content THEN "ok" ELSE "replace"

Look(c) ==
  LET decision == Decision(request[c])
  IN  /\ pc[c] = "look"
      /\ IF decision \in {"ok", "error"}
           THEN Goto(c, decision) /\ mode' = mode
           ELSE /\ mode' = [mode EXCEPT ![c] = decision]
                /\ Goto(c, IF decision = "delete" THEN "move" ELSE "stage")
      /\ UNCHANGED <<target, held, tmp, request, excused>>

\* writeFile(temporary, content, { flag: 'wx' }), or the archive writer.
Stage(c) ==
  /\ pc[c] = "stage"
  /\ tmp' = [tmp EXCEPT ![c] = TRUE]
  /\ Goto(c, "check")
  /\ UNCHANGED <<target, held, request, mode, excused>>

\* Defect: a creation moves what it finds aside, as a replacement does.
CheckAlwaysMoves(c) ==
  /\ pc[c] = "check"
  /\ Goto(c, IF target = None THEN "link" ELSE "move")
  /\ UNCHANGED <<target, held, tmp, request, mode, excused>>

\* atomicInstallPreparedFile looks at the target again.
Check(c) ==
  /\ pc[c] = "check"
  /\ Goto(c, CASE mode[c] = "create" /\ target = None -> "link"
               [] mode[c] = "replace" /\ target = Expects(c) -> "move"
               [] OTHER -> "clean")
  /\ UNCHANGED <<target, held, tmp, request, mode, excused>>

\* rename(target, backup) or rename(target, quarantine).
Move(c) ==
  /\ pc[c] = "move"
  /\ IF target = None THEN Goto(c, "clean") /\ UNCHANGED <<target, held>>
     ELSE /\ held' = [held EXCEPT ![c] = target]
          /\ target' = None
          /\ Goto(c, "moved")
  /\ UNCHANGED <<tmp, request, mode, excused>>

\* Defect: what was moved is not compared with what was expected.
VerifyNothing(c) ==
  /\ pc[c] = "moved"
  /\ Goto(c, IF mode[c] = "delete" THEN "discard" ELSE "link")
  /\ UNCHANGED <<target, held, tmp, request, mode, excused>>

\* What was moved must be what was expected.
Verify(c) ==
  /\ pc[c] = "moved"
  /\ Goto(c, IF held[c] # Expects(c) THEN "restore"
             ELSE IF mode[c] = "delete" THEN "discard" ELSE "link")
  /\ UNCHANGED <<target, held, tmp, request, mode, excused>>

\* link(prepared, target), which refuses to replace.
Link(c) ==
  /\ pc[c] = "link"
  /\ IF target = None
       THEN target' = request[c].content /\ Goto(c, "unstage")
       ELSE target' = target /\ Goto(c, IF mode[c] = "create" THEN "clean" ELSE "restore")
  /\ UNCHANGED <<held, tmp, request, mode, excused>>

Installed(c) == IF request[c].kind = "build" THEN "confirm" ELSE "ok"

\* unlink(prepared).
Unstage(c) ==
  /\ pc[c] = "unstage"
  /\ tmp' = [tmp EXCEPT ![c] = FALSE]
  /\ Goto(c, IF mode[c] = "create" THEN Installed(c) ELSE "discard")
  /\ UNCHANGED <<target, held, request, mode, excused>>

\* unlink(backup) or unlink(quarantine): the expected content goes.
Discard(c) ==
  /\ pc[c] = "discard"
  /\ held' = [held EXCEPT ![c] = None]
  /\ Goto(c, Installed(c))
  /\ excused' = (excused \/ mode[c] = "delete")
  /\ UNCHANGED <<target, tmp, request, mode>>

\* The build hashes the archive it installed.
Confirm(c) ==
  /\ pc[c] = "confirm"
  /\ Goto(c, IF target = None THEN "error" ELSE "ok")
  /\ UNCHANGED <<target, held, tmp, request, mode, excused>>

-----------------------------------------------------------------------------
(* The catch blocks.                                                        *)

\* Defect: a refused call leaves what it moved in quarantine.
RestoreNothing(c) ==
  /\ pc[c] = "restore"
  /\ Goto(c, "clean")
  /\ UNCHANGED <<target, held, tmp, request, mode, excused>>

\* link(backup, target); a concurrently created target is kept, and so is the
\* hidden file.
Restore(c) ==
  /\ pc[c] = "restore"
  /\ IF target = None THEN target' = held[c] /\ Goto(c, "unhold")
                      ELSE target' = target /\ Goto(c, "clean")
  /\ UNCHANGED <<held, tmp, request, mode, excused>>

Unhold(c) ==
  /\ pc[c] = "unhold"
  /\ held' = [held EXCEPT ![c] = None]
  /\ Goto(c, "clean")
  /\ UNCHANGED <<target, tmp, request, mode, excused>>

\* rm(temporary, { force: true }), then the error is rethrown.
Clean(c) ==
  /\ pc[c] = "clean"
  /\ tmp' = [tmp EXCEPT ![c] = FALSE]
  /\ Goto(c, "error")
  /\ UNCHANGED <<target, held, request, mode, excused>>

\* A file-system call fails and changes nothing: once the target has been moved
\* aside it is put back, unless putting it back is what failed.
Fail(c) ==
  /\ Active(c)
  /\ Goto(c, CASE pc[c] \in {"look", "clean", "confirm"} -> "error"
               [] mode[c] # "create"
                    /\ pc[c] \in {"moved", "link", "unstage", "discard"} -> "restore"
               [] OTHER -> "clean")
  /\ excused' = TRUE
  /\ UNCHANGED <<target, held, tmp, request, mode>>

Crash(c) ==
  /\ Active(c)
  /\ Goto(c, "crashed")
  /\ excused' = TRUE
  /\ UNCHANGED <<target, held, tmp, request, mode>>

-----------------------------------------------------------------------------
\* Another program saves over the path or removes it.
ForeignWrite ==
  /\ target' \in Foreign \ {target}
  /\ excused' = (excused \/ target' = None)
  /\ UNCHANGED <<held, tmp, request, mode, pc>>

Write(c) ==
  Stage(c) \/ Check(c) \/ Move(c) \/ Verify(c) \/ Link(c) \/ Unstage(c) \/ Discard(c)
Recover(c) == Restore(c) \/ Unhold(c) \/ Clean(c) \/ Fail(c) \/ Crash(c)

Next ==
  \/ \E c \in Calls : \/ \E r \in Asks[c] : Enter(c, r)
                      \/ Look(c) \/ Write(c) \/ Confirm(c) \/ Recover(c)
  \/ ForeignWrite

Spec == Init /\ [][Next]_vars

-----------------------------------------------------------------------------
\* Type invariant; only a replacement or a deletion moves anything aside.
TypeOK ==
  /\ target \in Contents
  /\ held \in [Calls -> Contents]
  /\ tmp \in [Calls -> BOOLEAN]
  /\ request \in [Calls -> Requests \cup {None}]
  /\ mode \in [Calls -> {"none", "create", "replace", "delete"}]
  /\ pc \in [Calls -> Steps \cup Ends \cup {"idle"}]
  /\ excused \in BOOLEAN
  /\ \A c \in Calls : mode[c] \in {"none", "create"} => held[c] = None

Exists(x) == target = x \/ \E c \in Calls : held[c] = x

\* No call ever destroys content its caller did not name: whatever two processes
\* and other programs write between its checks, and whatever fails or crashes,
\* the last copy a call removes has the expected hash (or was put back by it and
\* then replaced by somebody else).
NothingLost ==
  [][\A c \in Calls, x \in Contents \ {None} :
       pc'[c] # pc[c] /\ Exists(x) /\ ~Exists(x)'
         => x = Expects(c) \/ pc[c] = "unhold"]_vars

Won(c) == pc[c] = "ok" /\ mode[c] \in {"replace", "delete"}
Written == {r.content : r \in Requests} \cup Foreign

\* Of the calls that expect the same version of the file, at most one replaces
\* or deletes it: no update is lost, without any lock between the processes.
OneWinner ==
  \A c, d \in Calls :
    Won(c) /\ Won(d) /\ Expects(c) = Expects(d) /\ Expects(c) \notin Written => c = d

\* A call that is refused leaves the file in its place: unless it was removed on
\* purpose, a file-system call failed or a process died, the path is missing
\* only while a call that moved the file aside is still at work.
NeverMissing ==
  target = None /\ ~excused =>
    \E c \in Calls : pc[c] \in {"moved", "link", "discard", "restore"}
=============================================================================
