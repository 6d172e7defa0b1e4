--------------------------- MODULE CommandDecider ---------------------------
(***************************************************************************)
(* The command side of orchestration as pure operators: which events a     *)
(* command produces on a read model (decider.ts, commandInvariants.ts) and *)
(* what an event does to that read model (projector.ts).                   *)
(*                                                                         *)
(* The read model keeps what the decisions depend on: whether a project or *)
(* a thread exists, to which project the thread belongs, and the           *)
(* archivedAt / deletedAt marks.  Titles, models, messages, sessions and   *)
(* timestamps are data no decision looks at.                               *)
(***************************************************************************)
EXTENDS Naturals, Sequences, FiniteSets, SequencesExt

CONSTANTS Projects,   \* project identifiers
          Threads,    \* thread identifiers
          NoProject   \* the project of a thread that was never created

ASSUME DeciderAssumption ==
    /\ IsFiniteSet(Threads)
    /\ NoProject \notin Projects

(***************************************************************************)
(* The read model.  Absent is different from deleted: deletedAt is only a  *)
(* mark on an entry that stays in the model.                               *)
(***************************************************************************)
ThreadEntry == [project : Projects \cup {NoProject},
                archived : BOOLEAN, deleted : BOOLEAN]

ReadModel == [project : [Projects -> {"absent", "live", "deleted"}],
              thread : [Threads -> ThreadEntry]]

EmptyReadModel ==
    [project |-> [p \in Projects |-> "absent"],
     thread |-> [t \in Threads |-> [project |-> NoProject,
                                    archived |-> FALSE, deleted |-> FALSE]]]

ProjectExists(rm, p) == rm.project[p] # "absent"
ThreadExists(rm, t) == rm.thread[t].project # NoProject

(* listThreadsByProjectId filtered to the threads not marked deleted.      *)
ActiveThreads(rm, p) ==
    {t \in Threads : rm.thread[t].project = p /\ ~rm.thread[t].deleted}

(***************************************************************************)
(* Commands and events.  "thread.change" stands for the commands that ask  *)
(* only that the thread exists and emit one event (meta.update,            *)
(* runtime-mode.set, interaction-mode.set, turn.interrupt, session.set,    *)
(* activity.append, turn.diff.complete and the like).                      *)
(***************************************************************************)
ProjectCommand == [type : {"project.create", "project.meta.update"}, project : Projects]
ProjectDelete == [type : {"project.delete"}, project : Projects, force : BOOLEAN]
ThreadCreate == [type : {"thread.create"}, thread : Threads, project : Projects]
ThreadCommand == [type : {"thread.delete", "thread.archive", "thread.unarchive",
                          "thread.turn.start", "thread.change"},
                  thread : Threads]

Command == ProjectCommand \cup ProjectDelete \cup ThreadCreate \cup ThreadCommand

ProjectEvent == [type : {"project.created", "project.meta-updated", "project.deleted"},
                 project : Projects]
ThreadCreated == [type : {"thread.created"}, thread : Threads, project : Projects]
ThreadEvent == [type : {"thread.deleted", "thread.archived", "thread.unarchived",
                        "thread.message-sent", "thread.turn-start-requested",
                        "thread.changed"},
                thread : Threads]

Event == ProjectEvent \cup ThreadCreated \cup ThreadEvent

(***************************************************************************)
(* One event per command.  Decide returns the planned events; the empty    *)
(* sequence is the OrchestrationCommandInvariantError of the code, for no  *)
(* command succeeds without an event.                                      *)
(***************************************************************************)
OnProject(type, p) == [type |-> type, project |-> p]
OnThread(type, t) == [type |-> type, thread |-> t]

(* project.delete: a project with live threads needs force, and then every *)
(* live thread is deleted before the project in the same plan.             *)
DecideProjectDelete(rm, c) ==
    LET live == ActiveThreads(rm, c.project)
        deletions == [i \in 1..Cardinality(live) |->
                         OnThread("thread.deleted", SetToSeq(live)[i])]
    IN  IF ~ProjectExists(rm, c.project) \/ (live # {} /\ ~c.force)
        THEN <<>>
        ELSE Append(deletions, OnProject("project.deleted", c.project))

(* Mutation: the created event does not say to which project it belongs.   *)
DecideCreateWithoutProject(rm, c) ==
    IF ProjectExists(rm, c.project) /\ ~ThreadExists(rm, c.thread)
    THEN << OnThread("thread.created", c.thread) >>
    ELSE <<>>

DecideThreadCreate(rm, c) ==
    IF ProjectExists(rm, c.project) /\ ~ThreadExists(rm, c.thread)
    THEN << [type |-> "thread.created", thread |-> c.thread, project |-> c.project] >>
    ELSE <<>>

DecideOnThread(rm, c) ==
    LET entry == rm.thread[c.thread] IN
    CASE ~ThreadExists(rm, c.thread) -> <<>>
      [] c.type = "thread.delete" -> << OnThread("thread.deleted", c.thread) >>
      [] c.type = "thread.archive" ->
            IF entry.archived THEN <<>> ELSE << OnThread("thread.archived", c.thread) >>
      [] c.type = "thread.unarchive" ->
            IF entry.archived THEN << OnThread("thread.unarchived", c.thread) >> ELSE <<>>
      [] c.type = "thread.turn.start" ->
            << OnThread("thread.message-sent", c.thread),
               OnThread("thread.turn-start-requested", c.thread) >>
      [] OTHER -> << OnThread("thread.changed", c.thread) >>

Decide(rm, c) ==
    CASE c.type = "project.create" ->
            IF ProjectExists(rm, c.project) THEN <<>>
            ELSE << OnProject("project.created", c.project) >>
      [] c.type = "project.meta.update" ->
            IF ProjectExists(rm, c.project)
            THEN << OnProject("project.meta-updated", c.project) >> ELSE <<>>
      [] c.type = "project.delete" -> DecideProjectDelete(rm, c)
      [] c.type = "thread.create" -> DecideThreadCreate(rm, c)
      [] OTHER -> DecideOnThread(rm, c)

(***************************************************************************)
(* The projector.  Updates of an entry that is not there change nothing    *)
(* (updateThread and the project maps only rewrite entries they find).     *)
(***************************************************************************)
SetProject(rm, p, state) == [rm EXCEPT !.project[p] = state]

UpdateThread(rm, t, entry) ==
    IF ThreadExists(rm, t) THEN [rm EXCEPT !.thread[t] = entry] ELSE rm

ProjectOnto(rm, e) ==
    CASE e.type = "project.created" -> SetProject(rm, e.project, "live")
      [] e.type = "project.deleted" ->
            IF ProjectExists(rm, e.project) THEN SetProject(rm, e.project, "deleted") ELSE rm
      [] e.type = "thread.created" ->
            [rm EXCEPT !.thread[e.thread] =
                [project |-> e.project, archived |-> FALSE, deleted |-> FALSE]]
      [] e.type = "thread.deleted" ->
            UpdateThread(rm, e.thread, [rm.thread[e.thread] EXCEPT !.deleted = TRUE])
      [] e.type = "thread.archived" ->
            UpdateThread(rm, e.thread, [rm.thread[e.thread] EXCEPT !.archived = TRUE])
      [] e.type = "thread.unarchived" ->
            UpdateThread(rm, e.thread, [rm.thread[e.thread] EXCEPT !.archived = FALSE])
      [] OTHER -> rm

(* The read model after a sequence of events: what a replay from the       *)
(* beginning of the log would compute.                                     *)
Replay(events) ==
    LET after[n \in 0..Len(events)] ==
            IF n = 0 THEN EmptyReadModel ELSE ProjectOnto(after[n - 1], events[n])
    IN  after[Len(events)]
=============================================================================
