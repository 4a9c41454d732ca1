------------------------------ MODULE FileCommands ------------------------------
(***************************************************************************)
(* CWD, LIST, DELE, RNFR, RNTO and the file that STOR creates (src/src/      *)
(* ftp_session.cpp) on the helpers of src/src/file_system.cpp: sessions      *)
(* that look at the one directory tree and then change it, a system call at *)
(* a time.  directory::exists and rename are taken as single steps; clients *)
(* give names without "." and "..", and there are no symbolic links.  What   *)
(* is said to clients, and the data connection of LIST, are not in it.       *)
(*                                                                         *)
(* A path is a sequence of names and a name a sequence of letters, because a *)
(* folder that lost its trailing separator runs into the name after it.     *)
(***************************************************************************)
EXTENDS Integers, Sequences, SequencesExt

CONSTANTS
  Session,      \* sessions
  Directory,    \* the directories of the tree
  File,         \* the files that are in the tree or may be created
  Letter,       \* what names consist of
  InitialTree,  \* the tree at the beginning: an object's path
  Home,         \* the paths of the users' home folders
  Argument,     \* the arguments of commands, [kind, names]
  Given,        \* bound: the commands that a session is given
  MaxName,      \* bound: letters of a name
  MaxDepth      \* bound: names of a path

Object == Directory \union File
Path   == Seq(Seq(Letter))
Top    == "/"   \* the root directory, which is no object
Kind   == {"rooted", "homed", "relative"}
Verb   == {"CWD", "LIST", "DELE", "RNFR", "RNTO"}

\* Objects at paths of their own, below directories all the way up.
IsTree(t) ==
  /\ DOMAIN t \subseteq Object
  /\ t \in [DOMAIN t -> Path \ {<<>>}]
  /\ \A o, p \in DOMAIN t : o # p => t[o] # t[p]
  /\ \A o \in DOMAIN t : \A k \in 1 .. Len(t[o]) - 1 :
       \E d \in DOMAIN t \intersect Directory : t[d] = SubSeq(t[o], 1, k)

ASSUME FileAssumption ==
  /\ Directory \intersect File = {} /\ {Top, "closed"} \intersect Object = {}
  /\ IsTree(InitialTree)
  /\ Home \in [Session -> Path]
  /\ \A a \in Argument : a.kind \in Kind /\ a.names \in Path \ {<<>>}
  /\ Given \in [Session -> SUBSET Verb]
  /\ MaxName \in Nat /\ MaxDepth \in Nat

VARIABLES
  tree,      \* the path of every object that exists; "/" exists besides
  folder,    \* m_folder
  argument,  \* m_argument
  command,   \* the command a session executes
  pc,        \* how far it is
  target,    \* the path the command is about
  name,      \* the string that is being made canonical
  rounds,    \* how often it still will be
  stream,    \* the directory that a LIST reads, and what readdir may still return
  listed,    \* list_files
  touched,   \* history: another session changed the tree since the command began
  kept       \* history: names that were in the folder ever since its LIST began

thread  == <<folder, argument, command, target, name, rounds, listed>>
watched == <<stream, touched, kept>>
vars    == <<tree, thread, pc, watched>>

\* A string that names a path: with or without a separator at its end.
Name    == [path : Path, slash : BOOLEAN]
NoPath  == [path |-> <<>>, slash |-> FALSE]   \* the empty string
Plain(p) == [path |-> p, slash |-> FALSE]

-----------------------------------------------------------------------------
(* What the kernel knows of a path. *)

Exists(p) == p = <<>> \/ \E o \in DOMAIN tree : tree[o] = p

IsDirectory(p) == p = <<>> \/ \E o \in DOMAIN tree \intersect Directory : tree[o] = p

IsBelow(p, q) == Len(q) < Len(p) /\ IsPrefix(q, p)

IsEmpty(p) == \A o \in DOMAIN tree : ~ IsBelow(tree[o], p)

\* A string that realpath(3) accepts, and one that directory::exists does.
Found(n)  == n # NoPath /\ Exists(n.path) /\ (n.slash => IsDirectory(n.path))
Folder(n) == Found(n) /\ IsDirectory(n.path)

Keep(S) == [o \in S |-> tree[o]]

Removable(n) ==
  /\ Found(n) /\ n.path # <<>>
  /\ IsDirectory(n.path) => IsEmpty(n.path)

\* The names in the directory that has path p in the tree t, and those in an opened one.
NamesIn(t, p) == {Last(t[o]) : o \in {o \in DOMAIN t : Front(t[o]) = p}}

Entries(t, d) ==
  CASE d = Top        -> NamesIn(t, <<>>)
    [] d \in DOMAIN t -> NamesIn(t, t[d])
    [] OTHER          -> {}

Unlink(n) == tree' = Keep({o \in DOMAIN tree : tree[o] # n.path})

\* rename(2) replaces a file by a file and an empty directory by a directory.
Renamable(n, to) ==
  /\ Found(n) /\ n.path # <<>> /\ to # <<>>
  /\ IsDirectory(Front(to))
  /\ ~ IsBelow(to, n.path)
  /\ Exists(to) => /\ IsDirectory(to) = IsDirectory(n.path)
                   /\ IsDirectory(to) => IsEmpty(to) \/ to = n.path

Rename(n, to) ==
  LET stay == {o \in DOMAIN tree : tree[o] # to \/ to = n.path}
  IN  tree' = [o \in stay |->
                 IF tree[o] = n.path \/ IsBelow(tree[o], n.path)
                 THEN to \o SubSeq(tree[o], Len(n.path) + 1, Len(tree[o]))
                 ELSE tree[o]]

\* readdir returns what is in the directory from opendir to the end, and may return
\* what is there for a part of that time.
Stream == [dir : Directory \union {Top, "closed"}, due : SUBSET Seq(Letter), may : SUBSET Seq(Letter)]
Closed == [dir |-> "closed", due |-> {}, may |-> {}]

-----------------------------------------------------------------------------
TypeOK ==
  /\ IsTree(tree)
  /\ folder \in [Session -> Name \ {NoPath}]
  /\ argument \in [Session -> Name]
  /\ command \in [Session -> Verb \union {"none"}]
  /\ pc \in [Session -> {"idle", "check", "realpath", "separator", "finish", "read"}]
  /\ target \in [Session -> Path]
  /\ name \in [Session -> Name]
  /\ rounds \in [Session -> 0 .. 2]
  /\ stream \in [Session -> Stream]
  /\ listed \in [Session -> SUBSET Seq(Letter)]
  /\ touched \in [Session -> BOOLEAN]
  /\ kept \in [Session -> SUBSET Seq(Letter)]
  /\ \A s \in Session : pc[s] \in {"check", "realpath", "separator"} => rounds[s] > 0

\* Sessions after their login.
Init ==
  /\ tree = InitialTree
  /\ folder = [s \in Session |-> [path |-> Home[s], slash |-> TRUE]]
  /\ argument = [s \in Session |-> NoPath]
  /\ command = [s \in Session |-> "none"]
  /\ pc = [s \in Session |-> "idle"]
  /\ target = [s \in Session |-> <<>>]
  /\ name = [s \in Session |-> NoPath]
  /\ rounds = [s \in Session |-> 0]
  /\ stream = [s \in Session |-> Closed]
  /\ listed = [s \in Session |-> {}]
  /\ touched = [s \in Session |-> FALSE]
  /\ kept = [s \in Session |-> {}]

-----------------------------------------------------------------------------
(* Commands. *)

At(s, label) == pc[s] = label
Goto(s, label) == pc' = [pc EXCEPT ![s] = label]

\* m_folder + names: one name too few without the separator.
Joined(f, names) ==
  IF f.slash THEN f.path \o names
  ELSE Front(f.path) \o <<Last(f.path) \o Head(names)>> \o Tail(names)

\* The path a command means; only CWD knows "~".
Meant(s, a) ==
  CASE a.kind = "rooted"   -> a.names
    [] a.kind = "homed"    -> Home[s] \o a.names
    [] a.kind = "relative" -> Joined(folder[s], a.names)

Bounded(p) == Len(p) <= MaxDepth /\ \A i \in DOMAIN p : Len(p[i]) <= MaxName

\* What is common to the commands: a path and a canonicalisation of it, or of what.
Begin(s, verb, p, label, what, times) ==
  /\ At(s, "idle")
  /\ verb \in Given[s] /\ Bounded(p)
  /\ command' = [command EXCEPT ![s] = verb]
  /\ target' = [target EXCEPT ![s] = p]
  /\ name' = [name EXCEPT ![s] = what]
  /\ rounds' = [rounds EXCEPT ![s] = times]
  /\ Goto(s, label)
  /\ kept' = [kept EXCEPT ![s] = IF verb = "LIST" THEN NamesIn(tree, p) ELSE {}]
  /\ UNCHANGED <<tree, folder, argument, stream, listed, touched>>

command_cwd(s) ==
  \E a \in Argument : Begin(s, "CWD", Meant(s, a), "realpath", Plain(Meant(s, a)), 1)

command_list(s) == Begin(s, "LIST", folder[s].path, "realpath", folder[s], 1)

\* A rooted path is made canonical here and again in file::erase.
command_dele(s) ==
  \E a \in Argument :
    /\ a.kind # "homed"
    /\ Begin(s, "DELE", Meant(s, a), "realpath", Plain(Meant(s, a)), IF a.kind = "rooted" THEN 2 ELSE 1)

command_rnfr(s) ==
  \E a \in Argument :
    a.kind # "homed" /\ Begin(s, "RNFR", Meant(s, a), "realpath", Plain(Meant(s, a)), 1)

command_rnto(s) ==
  \E a \in Argument :
    a.kind # "homed" /\ Begin(s, "RNTO", Meant(s, a), "check", argument[s], 1)

\* What a change of the tree, or the end of its command, is to a session t.
Reopened(t) ==
  LET new == Entries(tree', stream[t].dir)
  IN  [stream[t] EXCEPT !.due = @ \intersect new,
                        !.may = @ \union (new \ Entries(tree, stream[t].dir))]

Watch(s) ==
  /\ stream' = [t \in Session |-> IF t = s THEN Closed ELSE Reopened(t)]
  /\ touched' = [t \in Session |-> t # s /\ (touched[t] \/ (tree' # tree /\ ~ At(t, "idle")))]
  /\ kept' = [t \in Session |-> IF t = s THEN {} ELSE kept[t] \intersect NamesIn(tree', target[t])]

\* The open of STOR, which creates a file where there is none.  m_folder is put before
\* a rooted name too, which then brings its own separator.
command_stor(s) ==
  /\ At(s, "idle")
  /\ \E a \in Argument, o \in File \ DOMAIN tree :
       LET p == IF a.kind = "rooted" THEN folder[s].path \o a.names ELSE Joined(folder[s], a.names)
       IN  /\ a.kind # "homed"
           /\ Bounded(p)
           /\ IsDirectory(Front(p)) /\ ~ Exists(p)
           /\ tree' = [q \in DOMAIN tree \union {o} |-> IF q = o THEN p ELSE tree[q]]
  /\ Watch(s)
  /\ UNCHANGED <<thread, pc>>

-----------------------------------------------------------------------------
(* Their steps. *)

\* file::exists has its test the wrong way round and finds nothing, so RNTO goes on
\* unless a directory has the new name.
NotChecked(p) == FALSE   \* mutant: directory::exists is not asked
Refused(p) == IsDirectory(p)

CheckTarget(s) ==
  /\ At(s, "check") /\ ~ Refused(target[s])
  /\ Goto(s, "realpath")
  /\ UNCHANGED <<tree, thread, watched>>

\* path::get_canonical_full_path: realpath, and the separator of a directory.
Round(s) ==
  /\ rounds' = [rounds EXCEPT ![s] = @ - 1]
  /\ Goto(s, IF rounds[s] > 1 THEN "realpath" ELSE "finish")

Realpath(s) ==
  /\ At(s, "realpath")
  /\ IF Found(name[s])
     THEN /\ name' = [name EXCEPT ![s].slash = name[s].path = <<>>]
          /\ Goto(s, "separator")
          /\ UNCHANGED rounds
     ELSE name' = [name EXCEPT ![s] = NoPath] /\ Round(s)
  /\ UNCHANGED <<tree, folder, argument, command, target, listed, watched>>

NoSeparator(p) == FALSE   \* mutant: canonical_path.append("/") is missing
Separated(p) == IsDirectory(p)

Separator(s) ==
  /\ At(s, "separator")
  /\ name' = [name EXCEPT ![s].slash = @ \/ Separated(name[s].path)]
  /\ Round(s)
  /\ UNCHANGED <<tree, folder, argument, command, target, listed, watched>>

\* The last step of each command; what it worked on goes out of scope.
Finish(s, label, verb) ==
  /\ At(s, label) /\ command[s] = verb
  /\ Goto(s, "idle")
  /\ command' = [command EXCEPT ![s] = "none"]
  /\ target' = [target EXCEPT ![s] = <<>>]
  /\ name' = [name EXCEPT ![s] = NoPath]
  /\ rounds' = [rounds EXCEPT ![s] = 0]
  /\ listed' = [listed EXCEPT ![s] = {}]
  /\ Watch(s)

\* m_folder after CWD.
FolderTaken(s) == name[s]   \* mutant: m_folder is assigned before the test
FolderAfter(s) == IF Folder(name[s]) THEN name[s] ELSE folder[s]

FinishCwd(s) ==
  /\ folder' = [folder EXCEPT ![s] = FolderAfter(s)]
  /\ UNCHANGED <<tree, argument>>
  /\ Finish(s, "finish", "CWD")

\* directory::get_files: opendir, then readdir and lstat of each entry's full path; a
\* folder that is not there any more is listed as empty.
OpenFolder(s) ==
  /\ At(s, "finish") /\ command[s] = "LIST"
  /\ \E d \in Directory \union {Top, "closed"} :
       /\ IF Folder(name[s]) THEN IF name[s].path = <<>> THEN d = Top ELSE d \in DOMAIN tree /\ tree[d] = name[s].path
                             ELSE d = "closed"
       /\ stream' = [stream EXCEPT ![s] = [dir |-> d, due |-> Entries(tree, d), may |-> Entries(tree, d)]]
  /\ Goto(s, "read")
  /\ UNCHANGED <<tree, thread, touched, kept>>

RegularOnly(p) == Exists(p) /\ ~ IsDirectory(p)   \* mutant: FILE_REGULAR instead of FILE_ANY
IsFileType(p) == Exists(p)

ReadEntry(s) ==
  /\ At(s, "read")
  /\ \E n \in stream[s].may :
       /\ stream' = [stream EXCEPT ![s].due = @ \ {n}, ![s].may = @ \ {n}]
       /\ listed' = [listed EXCEPT ![s] =
                       IF IsFileType(Joined(name[s], <<n>>)) THEN @ \union {n} ELSE @]
  /\ UNCHANGED <<tree, folder, argument, command, pc, target, name, rounds, touched, kept>>

FinishList(s) ==
  /\ stream[s].due = {}
  /\ UNCHANGED <<tree, folder, argument>>
  /\ Finish(s, "read", "LIST")

\* Both outcomes are answered with 250.
FinishDele(s) ==
  /\ IF Removable(name[s]) THEN Unlink(name[s]) ELSE UNCHANGED tree
  /\ Finish(s, "finish", "DELE")
  /\ UNCHANGED <<folder, argument>>

\* The argument is kept whatever the reply is.
FinishRnfr(s) ==
  /\ argument' = [argument EXCEPT ![s] = name[s]]
  /\ UNCHANGED <<tree, folder>>
  /\ Finish(s, "finish", "RNFR")

\* m_argument stays for another RNTO.
FinishRnto(s) ==
  /\ \/ ~ Renamable(name[s], target[s]) /\ UNCHANGED tree
     \/ Renamable(name[s], target[s]) /\ Rename(name[s], target[s])
  /\ Finish(s, "finish", "RNTO")
  /\ UNCHANGED <<folder, argument>>

RefuseRnto(s) ==
  /\ Refused(target[s])
  /\ UNCHANGED tree
  /\ Finish(s, "check", "RNTO")
  /\ UNCHANGED <<folder, argument>>

\* The code a command is answered with when it finishes; RNFR too finds directories only.
Reply(s) ==
  CASE command[s] = "CWD"  -> IF Folder(name[s]) THEN "250" ELSE "553"
    [] command[s] = "LIST" -> "226"
    [] command[s] = "DELE" -> "250"
    [] command[s] = "RNFR" -> IF Folder(name[s]) THEN "350" ELSE "500"
    [] command[s] = "RNTO" -> IF Renamable(name[s], target[s]) THEN "250" ELSE "500"

-----------------------------------------------------------------------------
Next ==
  \E s \in Session :
    \/ command_cwd(s)
    \/ command_list(s)
    \/ command_dele(s)
    \/ command_rnfr(s)
    \/ command_rnto(s)
    \/ command_stor(s)
    \/ CheckTarget(s)
    \/ Realpath(s)
    \/ Separator(s)
    \/ FinishCwd(s)
    \/ OpenFolder(s)
    \/ ReadEntry(s)
    \/ FinishList(s)
    \/ FinishDele(s)
    \/ FinishRnfr(s)
    \/ FinishRnto(s)
    \/ RefuseRnto(s)

Spec == Init /\ [][Next]_vars

-----------------------------------------------------------------------------
(* Properties. *)

Finishes(s, verb, code) ==
  At(s, "finish") /\ pc'[s] = "idle" /\ command[s] = verb /\ Reply(s) = code

\* RNTO overwrites no directory, unless another session changed the tree after it
\* had looked (ftp_session.cpp:574 to 578).
DirectoriesKept ==
  [][\A s \in Session :
       Finishes(s, "RNTO", "250") /\ ~ touched[s] /\ name[s].path # target[s]
         => DOMAIN tree \intersect Directory \subseteq DOMAIN tree']_vars

\* The folder that CWD adopts ends in a separator, so that names joined to it lie
\* below it, unless another session changed the tree during the command.
FolderEndsWell ==
  [][\A s \in Session :
       folder'[s] # folder[s] /\ ~ touched[s] => folder'[s].slash]_vars

\* A listing leaves out no name that was in the folder from the beginning of LIST to its
\* end, whatever other sessions rename, create and delete meanwhile, the folder itself
\* included; and it is exact if they do nothing (directory::get_specify_files).
ListingComplete ==
  [][\A s \in Session :
       At(s, "read") /\ pc'[s] = "idle" =>
         /\ kept[s] \subseteq listed[s]
         /\ ~ touched[s] => listed[s] = NamesIn(tree, target[s])]_vars

\* "500 RNTO command is failure (specified file or directory already exists)"
\* (ftp_session.cpp:575): RNTO to a name that exists is refused.
NothingOverwritten ==
  [][\A s \in Session :
       Finishes(s, "RNTO", "250") /\ name[s].path # target[s] => ~ Exists(target[s])]_vars

=============================================================================
