-------------------------------- MODULE FsApp --------------------------------
(***************************************************************************)
(* fs_app and the lua_file it feeds: the command files of one directory    *)
(* are loaded at boot and then followed through inotify. One action is one *)
(* operation of a user on the directory, or one handle_read, which takes   *)
(* any number of the events that wait.                                     *)
(*                                                                         *)
(* Files are the .lua names of the directory. A file's text is its version *)
(* number; version 0 stands for a file Lua cannot run.                     *)
(***************************************************************************)
EXTENDS Naturals, SequencesExt, Maps

CONSTANTS
  Files,       \* names of command files
  MaxOps,      \* bound: operations on the directory
  MaxBatch     \* bound: events of one read (a read takes 4096 bytes)

ASSUME FsAppAssumption == MaxOps \in Nat \ {0}

VARIABLES
  disk,        \* the files of the directory and their versions
  queue,       \* inotify events not read yet
  commands,    \* m_commands: the files loaded and the version loaded
  ops,         \* operations so far
  last         \* what the last operation on a file was

fs == <<disk, queue, commands, ops, last>>

Broken == 0
Versions == 0..MaxOps
\* The events of the watch mask: IN_CLOSE_WRITE, IN_DELETE, IN_MOVED_TO and
\* IN_MOVED_FROM. cookie pairs the two events of one rename.
Kinds == {"CLOSE_WRITE", "DELETE", "MOVED_TO", "MOVED_FROM"}
Event(kind, f, cookie) == [kind |-> kind, file |-> f, cookie |-> cookie]
NoEvent == [kind |-> "none"]

FsTypeOK ==
  /\ \A m \in {disk, commands} : DOMAIN m \subseteq Files /\ \A f \in DOMAIN m : m[f] \in Versions
  /\ queue \in Seq([kind : Kinds, file : Files, cookie : 0..MaxOps])
  /\ ops \in 0..MaxOps
  /\ last \in [Files -> Kinds \cup {"none"}]

-----------------------------------------------------------------------------
(* lua_file.                                                               *)

\* process_create_luafile: a file that is missing or that Lua cannot run
\* leaves the entry there was.
Create(c, f) ==
  IF f \in DOMAIN disk /\ disk[f] # Broken THEN MapPut(c, f, disk[f]) ELSE c
\* process_delete_luafile, by the full path.
DeleteKept(c, f) == c
Delete(c, f) == MapErase(c, {f})
\* process_delete_luafile, by the bare name of the event: no key is a bare
\* name.
DeleteBareName(c, f) == c

\* on_boot: every command file of the directory that Lua can run.
OnBoot == Restrict(disk, {f \in DOMAIN disk : disk[f] # Broken})

FsInit ==
  /\ disk \in UNION {[S -> {1}] : S \in SUBSET Files}
  /\ queue = <<>>
  /\ commands = OnBoot
  /\ ops = 0
  /\ last = [f \in Files |-> "none"]

-----------------------------------------------------------------------------
(* process_inotify_onchange. Its state s is the commands and m_old_event.  *)

Loaded(s, f) == [s EXCEPT !.commands = Create(@, f)]

\* The branches for IN_CREATE and IN_MODIFY are never taken: the watch does
\* not ask for them, and CLOSE_WRITE falls through to the last branch.
MovedTo(s, e) ==
  IF s.old = NoEvent THEN Loaded(s, e.file)
  ELSE IF s.old.cookie = e.cookie
  THEN [commands |-> Create(DeleteBareName(s.commands, s.old.file), e.file),
        old |-> NoEvent]
  ELSE s
OneEvent(s, e) ==
  CASE e.kind = "MOVED_TO"    -> MovedTo(s, e)
    [] e.kind = "MOVED_FROM"  -> [s EXCEPT !.old = e]
    [] e.kind = "DELETE"      -> [s EXCEPT !.commands = Delete(@, e.file)]
    [] e.kind = "CLOSE_WRITE" -> s

\* A MOVED_FROM that is left at the end of the read left the directory.
OnChange(events) ==
  LET done[i \in 0..Len(events)] ==
        IF i = 0 THEN [commands |-> commands, old |-> NoEvent]
        ELSE OneEvent(done[i - 1], events[i])
      s == done[Len(events)]
  IN IF s.old = NoEvent THEN s.commands ELSE DeleteBareName(s.commands, s.old.file)

FsHandleRead ==
  \E n \in 1..MaxBatch :
    /\ n <= Len(queue)
    /\ commands' = OnChange(SubSeq(queue, 1, n))
    /\ queue' = SubSeq(queue, n + 1, Len(queue))
    /\ UNCHANGED <<disk, ops, last>>

-----------------------------------------------------------------------------
(* Operations on the directory, and the events the kernel queues for them. *)

Operation(newDisk, events) ==
  /\ ops < MaxOps
  /\ ops' = ops + 1
  /\ disk' = newDisk
  /\ queue' = queue \o events
  /\ last' = [f \in Files |->
                LET mine == {i \in DOMAIN events : events[i].file = f}
                IN IF mine = {} THEN last[f] ELSE events[Max(mine)].kind]
  /\ UNCHANGED commands

Save(f, broken) ==
  Operation(MapPut(disk, f, IF broken THEN Broken ELSE ops + 1),
            <<Event("CLOSE_WRITE", f, 0)>>)
DeleteFile(f) ==
  f \in DOMAIN disk /\ Operation(MapErase(disk, {f}), <<Event("DELETE", f, 0)>>)
Rename(f, g) ==
  /\ f \in DOMAIN disk /\ f # g
  /\ Operation(MapPut(MapErase(disk, {f}), g, disk[f]),
               <<Event("MOVED_FROM", f, ops + 1), Event("MOVED_TO", g, ops + 1)>>)
MoveIn(f) ==
  Operation(MapPut(disk, f, ops + 1), <<Event("MOVED_TO", f, ops + 1)>>)
MoveAway(f) ==
  /\ f \in DOMAIN disk
  /\ Operation(MapErase(disk, {f}), <<Event("MOVED_FROM", f, ops + 1)>>)

FsNext ==
  \/ FsHandleRead
  \/ \E f \in Files :
       \/ \E broken \in BOOLEAN : Save(f, broken)
       \/ DeleteFile(f) \/ MoveIn(f) \/ MoveAway(f)
       \/ \E g \in Files : Rename(f, g)

FsSpec == FsInit /\ [][FsNext]_fs

-----------------------------------------------------------------------------
(* Properties.                                                             *)

Waiting(f) == \E i \in DOMAIN queue : queue[i].file = f

\* Once the events of a file are read, a file that was deleted is no command
\* file any more, however its deletion was batched with earlier moves of the
\* same name and whatever the loads found on the disk by then
\* (process_inotify_onchange, process_delete_luafile).
DeletedIsGone ==
  \A f \in Files : last[f] = "DELETE" /\ ~Waiting(f) => f \notin DOMAIN commands

\* "read all file on boot & latter on modification,delete,moved."
\* (fs_app.hpp:40): once all events are read, the commands are those of the
\* files on the disk, except files Lua cannot run.
Loadable == {f \in DOMAIN disk : disk[f] # Broken}
CommandsFollowDisk ==
  queue = <<>> =>
    /\ Loadable \subseteq DOMAIN commands /\ DOMAIN commands \subseteq DOMAIN disk
    /\ \A f \in Loadable : commands[f] = disk[f]
=============================================================================
