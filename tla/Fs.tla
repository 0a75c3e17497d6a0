---------------------------------- MODULE Fs ----------------------------------
(* The inode layer of fs.c under the file system calls of sysfile.c: inode     *)
(* cache, link counts, directories and path walks of concurrent processes.     *)
(* A process holds no lock between two steps unless the code then waits for    *)
(* another one, so a step goes from one acquiresleep() to the next, or to a    *)
(* change of ip->ref (module SleepLock justifies the lock as a variable).      *)
(* Transactions are the business of module Log, blocks of Bcache.  A step that *)
(* would panic is not enabled, and NoPanic says that none is ever due.         *)
EXTENDS Integers, Sequences, FiniteSets

CONSTANTS
  Procs,
  None,
  Inums,   \* inode numbers; a slot of icache is named after its inode
  Root,    \* ROOTINO
  Names,   \* names of files and directories other than . and ..
  Calls,   \* system calls, each with its paths; the first element may be /
  MaxLinks \* bound: links of an inode (a short in the code)

ASSUME FsAssumption == Root \in Inums /\ None \notin Inums \cup Procs

VARIABLES
  icache,  \* ref, valid, holder of the lock, type and nlink of an inode in memory
  dinode,  \* type and nlink of an inode on disk
  dirent,  \* the entries of a directory
  fd, cwd, \* of a process: its open file, its current directory
  call,    \* the call a process is in
  todo,    \* what is left of it, as on the stack: <<function, inode it is called with>>
  path,    \* what is left of the path
  at,      \* the inode namex() has reached, dp of the call afterwards
  ip       \* ip of the call

disk == <<dinode, dirent>>
files == <<fd, cwd>>
vars == <<icache, disk, files, call, todo, path, at, ip>>

NoEntries == [n \in Names \cup {".", ".."} |-> None]

(* mkfs makes the root directory; init's current directory is the root. *)
Init ==
  /\ dinode = [i \in Inums |-> IF i = Root THEN [type |-> "dir", nlink |-> 1]
                               ELSE [type |-> "none", nlink |-> 0]]
  /\ dirent = [i \in Inums |-> IF i = Root THEN [NoEntries EXCEPT !["."] = Root, ![".."] = Root]
                               ELSE NoEntries]
  /\ icache = [i \in Inums |-> [ref |-> IF i = Root THEN Cardinality(Procs) ELSE 0,
                                valid |-> FALSE, holder |-> None, type |-> "none", nlink |-> 0]]
  /\ fd = [p \in Procs |-> None]
  /\ cwd = [p \in Procs |-> Root]
  /\ call = [p \in Procs |-> "none"]
  /\ todo = [p \in Procs |-> <<>>]
  /\ path = [p \in Procs |-> <<>>]
  /\ at = [p \in Procs |-> None]
  /\ ip = [p \in Procs |-> None]

At(p, f) == todo[p] # <<>> /\ todo[p][1][1] = f

Arg(p) == todo[p][1][2]

(* The process goes on with the given functions and then what it had to do. *)
Then(p, fs) == todo' = [todo EXCEPT ![p] = fs \o Tail(@)]

------------------------------------------------------------------------------
(* The inode cache as a function of its former state. *)

iget(ic, i) ==
  [ic EXCEPT ![i] = IF @.ref > 0 THEN [@ EXCEPT !.ref = @ + 1]
                    ELSE [@ EXCEPT !.ref = 1, !.valid = FALSE]]

(* ilock() takes the lock and reads the inode if it is not valid. *)
ilock(p, i) ==
  [icache EXCEPT ![i] =
     IF @.valid THEN [@ EXCEPT !.holder = p]
     ELSE [@ EXCEPT !.holder = p, !.valid = TRUE, !.type = dinode[i].type, !.nlink = dinode[i].nlink]]

iunlock(ic, i) == [ic EXCEPT ![i].holder = None]

Lockable(i) == icache[i].holder = None

(* ilock() panics: "no type". *)
NoType(i) == ~icache[i].valid /\ dinode[i].type = "none"

AddLinks(ic, i, k) == [ic EXCEPT ![i].nlink = @ + k]

dirlookup(d, name) == dirent[d][name]

(* What dirlink() writes once it has not found the name. *)
dirlink(entries, d, name, i) == [entries EXCEPT ![d][name] = i]

(* iupdate() of the inodes in S. *)
iupdate(ic, S) ==
  dinode' = [i \in Inums |-> IF i \in S THEN [type |-> ic[i].type, nlink |-> ic[i].nlink]
                             ELSE dinode[i]]

------------------------------------------------------------------------------
(* iput(): test under the lock, free without icache.lock, drop the reference.  *)

(* Variant that does not ask who else refers to the inode. *)
LastReferenceIgnoringRef(i) == icache[i].valid /\ icache[i].nlink = 0

LastReference(i) == icache[i].valid /\ icache[i].nlink = 0 /\ icache[i].ref = 1

IputTest(p) ==
  LET i == Arg(p) IN
  /\ At(p, "iput") /\ Lockable(i)
  /\ IF LastReference(i)
     THEN icache' = [icache EXCEPT ![i].holder = p] /\ Then(p, <<<<"free", i>>>>)
     ELSE icache' = icache /\ Then(p, <<<<"deref", i>>>>)
  /\ UNCHANGED <<disk, files, call, path, at, ip>>

(* Variant that leaves valid set. *)
IputFreeKeepsValid(p) ==
  LET i == Arg(p) IN
  /\ At(p, "free")
  /\ dirent' = [dirent EXCEPT ![i] = NoEntries]
  /\ icache' = [icache EXCEPT ![i].type = "none", ![i].holder = None]
  /\ iupdate(icache', {i})
  /\ Then(p, <<<<"deref", i>>>>)
  /\ UNCHANGED <<files, call, path, at, ip>>

(* itrunc(), type = 0, iupdate(), valid = 0 and releasesleep(). *)
IputFree(p) ==
  LET i == Arg(p) IN
  /\ At(p, "free")
  /\ dirent' = [dirent EXCEPT ![i] = NoEntries]
  /\ icache' = [icache EXCEPT ![i].type = "none", ![i].valid = FALSE, ![i].holder = None]
  /\ iupdate(icache', {i})
  /\ Then(p, <<<<"deref", i>>>>)
  /\ UNCHANGED <<files, call, path, at, ip>>

IputDeref(p) ==
  /\ At(p, "deref")
  /\ icache' = [icache EXCEPT ![Arg(p)].ref = @ - 1]
  /\ Then(p, <<>>)
  /\ UNCHANGED <<disk, files, call, path, at, ip>>

(* iunlockput() of an inode that stayed locked over another call. *)
Iunlockput(p) ==
  /\ At(p, "iunlockput")
  /\ icache' = iunlock(icache, Arg(p))
  /\ Then(p, <<<<"iput", Arg(p)>>>>)
  /\ UNCHANGED <<disk, files, call, path, at, ip>>

------------------------------------------------------------------------------
(* namex() *)

(* One turn of the loop, from ilock() to iunlockput(). *)
Walk(p, parent) ==
  LET i == at[p]
      next == dirlookup(i, path[p][1])
      stop == parent /\ Len(path[p]) = 1
      lost == <<<<"iput", i>>>>
      ic == iunlock(ilock(p, i), i) IN
  /\ path[p] # <<>> /\ Lockable(i) /\ ~NoType(i)
  /\ CASE ic[i].type # "dir" \/ (~stop /\ next = None) ->
                    /\ icache' = ic
                    /\ at' = [at EXCEPT ![p] = None]
                    /\ Then(p, lost) /\ UNCHANGED path
               [] ic[i].type = "dir" /\ stop ->
                    /\ icache' = ic
                    /\ Then(p, <<>>) /\ UNCHANGED <<at, path>>
               [] OTHER ->
                    /\ icache' = iget(ic, next)
                    /\ at' = [at EXCEPT ![p] = next]
                    /\ path' = [path EXCEPT ![p] = Tail(@)]
                    /\ Then(p, lost \o <<todo[p][1]>>)
  /\ UNCHANGED <<disk, files, call, ip>>

(* The path ends: the inode is found, but has no parent to return. *)
WalkEnds(p, parent) ==
  /\ path[p] = <<>>
  /\ IF parent THEN at' = [at EXCEPT ![p] = None] /\ Then(p, <<<<"iput", at[p]>>>>)
     ELSE Then(p, <<>>) /\ UNCHANGED at
  /\ UNCHANGED <<icache, disk, files, call, path, ip>>

Namei(p) == At(p, "namei") /\ (Walk(p, FALSE) \/ WalkEnds(p, FALSE))

Nameiparent(p) == At(p, "nameiparent") /\ (Walk(p, TRUE) \/ WalkEnds(p, TRUE))

(* The start of a walk, from the root or from the current directory. *)
StartWalk(p, from, w) ==
  LET start == IF w # <<>> /\ w[1] = "/" THEN Root ELSE cwd[p] IN
  /\ icache' = iget(from, start)
  /\ at' = [at EXCEPT ![p] = start]
  /\ path' = [path EXCEPT ![p] = IF w # <<>> /\ w[1] = "/" THEN Tail(w) ELSE w]

(* The walk has failed and the call returns -1. *)
NotFound(p) ==
  /\ todo[p] # <<>>
  /\ todo[p][1][1] \in {"open", "create", "unlink", "link", "chdir"}
  /\ at[p] = None
  /\ Then(p, <<>>)
  /\ UNCHANGED <<icache, disk, files, call, path, at, ip>>

(* The call goes on with ilock(i). *)
Locks(p, f, i) == At(p, f) /\ i # None /\ Lockable(i) /\ ~NoType(i)

------------------------------------------------------------------------------
(* sys_open() without O_CREATE; one descriptor for each process (NOFILE). *)

(* The end of open: the locked inode becomes a file or is let go. *)
Opened(p, ic, i) ==
  /\ icache' = iunlock(ic, i)
  /\ IF fd[p] = None THEN fd' = [fd EXCEPT ![p] = i] /\ Then(p, <<>>)
     ELSE Then(p, <<<<"iput", i>>>>) /\ UNCHANGED fd

Open(p) ==
  LET i == at[p]
      ic == ilock(p, i) IN
  /\ Locks(p, "open", i)
  /\ IF ic[i].type = "dir" /\ call[p].op # "open_rdonly"
     THEN icache' = iunlock(ic, i) /\ Then(p, <<<<"iput", i>>>>) /\ UNCHANGED fd
     ELSE Opened(p, ic, i)
  /\ at' = [at EXCEPT ![p] = None]
  /\ UNCHANGED <<disk, cwd, call, path, ip>>

(* fileclose() of a file that no other descriptor refers to. *)
Close(p) ==
  /\ todo[p] = <<>> /\ fd[p] # None
  /\ todo' = [todo EXCEPT ![p] = <<<<"iput", fd[p]>>>>]
  /\ fd' = [fd EXCEPT ![p] = None]
  /\ UNCHANGED <<icache, disk, cwd, call, path, at, ip>>

(* sys_chdir(); nobody else looks at cwd, so it may be set before iput(). *)
Chdir(p) ==
  LET i == at[p]
      ic == ilock(p, i) IN
  /\ Locks(p, "chdir", i)
  /\ icache' = iunlock(ic, i)
  /\ IF ic[i].type = "dir"
     THEN cwd' = [cwd EXCEPT ![p] = i] /\ Then(p, <<<<"iput", cwd[p]>>>>)
     ELSE Then(p, <<<<"iput", i>>>>) /\ UNCHANGED cwd
  /\ at' = [at EXCEPT ![p] = None]
  /\ UNCHANGED <<disk, fd, call, path, ip>>

------------------------------------------------------------------------------
(* create(), for open with O_CREATE, mkdir and mknod *)

Type(op) == CASE op = "mkdir" -> "dir" [] op = "mknod" -> "dev" [] OTHER -> "file"

(* The name exists: let the directory go, then look at what it names. *)
CreateFinds(p) ==
  LET d == at[p]
      i == dirlookup(d, path[p][1]) IN
  /\ Locks(p, "create", d)
  /\ ilock(p, d)[d].type = "dir" /\ i # None
  /\ icache' = iget(iunlock(ilock(p, d), d), i)
  /\ at' = [at EXCEPT ![p] = i]
  /\ Then(p, <<<<"iput", d>>, <<"exists", None>>>>)
  /\ UNCHANGED <<disk, files, call, path, ip>>

CreateExists(p) ==
  LET i == at[p]
      ic == ilock(p, i) IN
  /\ Locks(p, "exists", i)
  /\ IF Type(call[p].op) = "file" /\ ic[i].type = "file"
     THEN Opened(p, ic, i)
     ELSE icache' = iunlock(ic, i) /\ Then(p, <<<<"iput", i>>>>) /\ UNCHANGED fd
  /\ at' = [at EXCEPT ![p] = None]
  /\ UNCHANGED <<disk, cwd, call, path, ip>>

(* It does not: ialloc() some inode that is free on disk.  Its scan may find   *)
(* any of them, as inodes are freed behind it (it panics if there is none).    *)
CreateAllocates(p) ==
  LET d == at[p]
      free == {i \in Inums : dinode[i].type = "none"} IN
  /\ Locks(p, "create", d)
  /\ ilock(p, d)[d].type = "dir" /\ dirlookup(d, path[p][1]) = None
  /\ \E i \in free :
       /\ dinode' = [dinode EXCEPT ![i] = [type |-> Type(call[p].op), nlink |-> 0]]
       /\ icache' = iget(ilock(p, d), i)
       /\ ip' = [ip EXCEPT ![p] = i]
       /\ Then(p, <<<<"init", None>>>>)
  /\ UNCHANGED <<dirent, files, call, path, at>>

(* Variant that forgets the link of the new inode. *)
CreateInitNoLink(p) ==
  LET d == at[p]
      i == ip[p]
      dir == Type(call[p].op) = "dir"
      new == ilock(p, i)
      ic == IF dir THEN AddLinks(new, d, 1) ELSE new
      dots == IF dir THEN [NoEntries EXCEPT !["."] = i, ![".."] = d] ELSE dirent[i] IN
  /\ Locks(p, "init", i)
  /\ iupdate(ic, IF dir THEN {i, d} ELSE {i})
  /\ dirent' = dirlink([dirent EXCEPT ![i] = dots], d, path[p][1], i)
  /\ icache' = iunlock(ic, d)
  /\ at' = [at EXCEPT ![p] = None]
  /\ Then(p, <<<<"iput", d>>, <<"created", None>>>>)
  /\ UNCHANGED <<files, call, path, ip>>

(* The new inode gets its fields and entries, the directory an entry for it;   *)
(* the directory is let go while the new inode stays locked.                   *)
CreateInit(p) ==
  LET d == at[p]
      i == ip[p]
      dir == Type(call[p].op) = "dir"
      new == [ilock(p, i) EXCEPT ![i].nlink = 1]
      ic == IF dir THEN AddLinks(new, d, 1) ELSE new
      dots == IF dir THEN [NoEntries EXCEPT !["."] = i, ![".."] = d] ELSE dirent[i] IN
  /\ Locks(p, "init", i)
  /\ iupdate(ic, IF dir THEN {i, d} ELSE {i})
  /\ dirent' = dirlink([dirent EXCEPT ![i] = dots], d, path[p][1], i)
  /\ icache' = iunlock(ic, d)
  /\ at' = [at EXCEPT ![p] = None]
  /\ Then(p, <<<<"iput", d>>, <<"created", None>>>>)
  /\ UNCHANGED <<files, call, path, ip>>

Created(p) ==
  LET i == ip[p] IN
  /\ At(p, "created")
  /\ IF Type(call[p].op) = "file" THEN Opened(p, icache, i)
     ELSE icache' = iunlock(icache, i) /\ Then(p, <<<<"iput", i>>>>) /\ UNCHANGED fd
  /\ ip' = [ip EXCEPT ![p] = None]
  /\ UNCHANGED <<disk, cwd, call, path, at>>

------------------------------------------------------------------------------
(* sys_link() *)

LinkOld(p) ==
  LET i == at[p]
      ic == ilock(p, i) IN
  /\ Locks(p, "link", i)
  /\ IF ic[i].type = "dir"
     THEN /\ icache' = iunlock(ic, i)
          /\ Then(p, <<<<"iput", i>>>>)
          /\ at' = [at EXCEPT ![p] = None]
          /\ UNCHANGED <<dinode, path, ip>>
     ELSE /\ ic[i].nlink < MaxLinks
          /\ iupdate(AddLinks(ic, i, 1), {i})
          /\ StartWalk(p, iunlock(AddLinks(ic, i, 1), i), call[p].new)
          /\ ip' = [ip EXCEPT ![p] = i]
          /\ Then(p, <<<<"nameiparent", None>>, <<"dirlink", None>>>>)
  /\ UNCHANGED <<dirent, files, call>>

LinkNoParent(p) ==
  /\ At(p, "dirlink") /\ at[p] = None
  /\ Then(p, <<<<"bad", None>>>>)
  /\ UNCHANGED <<icache, disk, files, call, path, at, ip>>

(* Variant without dirlink()'s iput(). *)
LinkExistsKeepsEntry(p) ==
  LET d == at[p]
      i == dirlookup(d, path[p][1]) IN
  /\ Locks(p, "dirlink", d)
  /\ i # None
  /\ icache' = iget(ilock(p, d), i)
  /\ at' = [at EXCEPT ![p] = None]
  /\ Then(p, <<<<"iunlockput", d>>, <<"bad", None>>>>)
  /\ UNCHANGED <<disk, files, call, path, ip>>

(* dirlink() finds the name and puts its inode with the directory locked. *)
LinkExists(p) ==
  LET d == at[p]
      i == dirlookup(d, path[p][1]) IN
  /\ Locks(p, "dirlink", d)
  /\ i # None
  /\ icache' = iget(ilock(p, d), i)
  /\ at' = [at EXCEPT ![p] = None]
  /\ Then(p, <<<<"iput", i>>, <<"iunlockput", d>>, <<"bad", None>>>>)
  /\ UNCHANGED <<disk, files, call, path, ip>>

LinkNew(p) ==
  LET d == at[p] IN
  /\ Locks(p, "dirlink", d)
  /\ dirlookup(d, path[p][1]) = None
  /\ dirent' = dirlink(dirent, d, path[p][1], ip[p])
  /\ icache' = iunlock(ilock(p, d), d)
  /\ at' = [at EXCEPT ![p] = None]
  /\ ip' = [ip EXCEPT ![p] = None]
  /\ Then(p, <<<<"iput", d>>, <<"iput", ip[p]>>>>)
  /\ UNCHANGED <<dinode, files, call, path>>

LinkBad(p) ==
  LET i == ip[p]
      ic == AddLinks(ilock(p, i), i, -1) IN
  /\ Locks(p, "bad", i)
  /\ iupdate(ic, {i})
  /\ icache' = iunlock(ic, i)
  /\ ip' = [ip EXCEPT ![p] = None]
  /\ Then(p, <<<<"iput", i>>>>)
  /\ UNCHANGED <<dirent, files, call, path, at>>

------------------------------------------------------------------------------
(* sys_unlink() *)

UnlinkFinds(p) ==
  LET d == at[p]
      i == dirlookup(d, path[p][1])
      ic == ilock(p, d) IN
  /\ Locks(p, "unlink", d)
  /\ IF path[p][1] \in {".", ".."} \/ i = None
     THEN /\ icache' = iunlock(ic, d)
          /\ at' = [at EXCEPT ![p] = None]
          /\ Then(p, <<<<"iput", d>>>>) /\ UNCHANGED ip
     ELSE /\ icache' = iget(ic, i)
          /\ ip' = [ip EXCEPT ![p] = i]
          /\ Then(p, <<<<"remove", None>>>>) /\ UNCHANGED at
  /\ UNCHANGED <<disk, files, call, path>>

isdirempty(i) == \A n \in Names : dirent[i][n] = None

(* Variant that takes a link from the directory for files too. *)
UnlinkRemovesAnyLink(p) ==
  LET d == at[p]
      i == ip[p]
      ic == ilock(p, i)
      dir == ic[i].type = "dir" IN
  /\ Locks(p, "remove", i)
  /\ ic[i].nlink >= 1
  /\ IF dir /\ ~isdirempty(i)
     THEN /\ icache' = iunlock(ic, i)
          /\ ip' = [ip EXCEPT ![p] = None]
          /\ Then(p, <<<<"iput", i>>, <<"iunlockput", d>>>>)
          /\ UNCHANGED disk
     ELSE LET less == AddLinks(ic, d, -1) IN
          /\ dirent' = [dirent EXCEPT ![d][path[p][1]] = None]
          /\ iupdate(less, {d})
          /\ icache' = iunlock(less, d)
          /\ Then(p, <<<<"iput", d>>, <<"unlinked", None>>>>)
          /\ UNCHANGED ip
  /\ at' = [at EXCEPT ![p] = None]
  /\ UNCHANGED <<files, call, path>>

(* With the directory locked it waits for the inode and removes the entry. *)
UnlinkRemoves(p) ==
  LET d == at[p]
      i == ip[p]
      ic == ilock(p, i)
      dir == ic[i].type = "dir" IN
  /\ Locks(p, "remove", i)
  /\ ic[i].nlink >= 1
  /\ IF dir /\ ~isdirempty(i)
     THEN /\ icache' = iunlock(ic, i)
          /\ ip' = [ip EXCEPT ![p] = None]
          /\ Then(p, <<<<"iput", i>>, <<"iunlockput", d>>>>)
          /\ UNCHANGED disk
     ELSE LET less == IF dir THEN AddLinks(ic, d, -1) ELSE ic IN
          /\ dirent' = [dirent EXCEPT ![d][path[p][1]] = None]
          /\ iupdate(less, IF dir THEN {d} ELSE {})
          /\ icache' = iunlock(less, d)
          /\ Then(p, <<<<"iput", d>>, <<"unlinked", None>>>>)
          /\ UNCHANGED ip
  /\ at' = [at EXCEPT ![p] = None]
  /\ UNCHANGED <<files, call, path>>

Unlinked(p) ==
  LET i == ip[p]
      ic == AddLinks(icache, i, -1) IN
  /\ At(p, "unlinked")
  /\ iupdate(ic, {i})
  /\ icache' = iunlock(ic, i)
  /\ ip' = [ip EXCEPT ![p] = None]
  /\ Then(p, <<<<"iput", i>>>>)
  /\ UNCHANGED <<dirent, files, call, path, at>>

------------------------------------------------------------------------------
(* What a call does, before it returns. *)
Program(op) ==
  CASE op \in {"open_rdonly", "open_wronly"} -> <<"namei", "open">>
    [] op = "chdir" -> <<"namei", "chdir">>
    [] op = "link" -> <<"namei", "link">>
    [] op = "unlink" -> <<"nameiparent", "unlink">>
    [] op \in {"open_create", "mkdir", "mknod"} -> <<"nameiparent", "create">>

Call(p, c) ==
  /\ todo[p] = <<>>
  /\ call' = [call EXCEPT ![p] = c]
  /\ StartWalk(p, icache, c.path)
  /\ todo' = [todo EXCEPT ![p] = [k \in 1..3 |-> <<Append(Program(c.op), "return")[k], None>>]]
  /\ UNCHANGED <<disk, files, ip>>

Return(p) ==
  /\ At(p, "return")
  /\ call' = [call EXCEPT ![p] = "none"]
  /\ path' = [path EXCEPT ![p] = <<>>]
  /\ Then(p, <<>>)
  /\ UNCHANGED <<icache, disk, files, at, ip>>

Step(p) ==
  \/ IputTest(p) \/ IputFree(p) \/ IputDeref(p) \/ Iunlockput(p)
  \/ Namei(p) \/ Nameiparent(p) \/ NotFound(p)
  \/ Open(p) \/ Chdir(p)
  \/ CreateFinds(p) \/ CreateExists(p) \/ CreateAllocates(p) \/ CreateInit(p) \/ Created(p)
  \/ LinkOld(p) \/ LinkNoParent(p) \/ LinkExists(p) \/ LinkNew(p) \/ LinkBad(p)
  \/ UnlinkFinds(p) \/ UnlinkRemoves(p) \/ Unlinked(p) \/ Return(p)

Next == \E p \in Procs : Step(p) \/ Close(p) \/ \E c \in Calls : Call(p, c)

Spec == Init /\ [][Next]_vars

------------------------------------------------------------------------------
(* Every variable has its type. *)
TypeOK ==
  LET Types == {"none", "dir", "file", "dev"} IN
  /\ icache \in [Inums -> [ref : Nat, valid : BOOLEAN, holder : Procs \cup {None},
                           type : Types, nlink : Nat]]
  /\ dinode \in [Inums -> [type : Types, nlink : Nat]]
  /\ dirent \in [Inums -> [Names \cup {".", ".."} -> Inums \cup {None}]]
  /\ fd \in [Procs -> Inums \cup {None}] /\ cwd \in [Procs -> Inums]
  /\ at \in [Procs -> Inums \cup {None}] /\ ip \in [Procs -> Inums \cup {None}]
  /\ \A p \in Procs : \A k \in DOMAIN todo[p] : todo[p][k][2] \in Inums \cup {None}

(* "ip->ref tracks the number of in-memory pointers to the entry": no path     *)
(* through a call, the failing ones included, loses a reference or drops one   *)
(* twice.                                                                      *)
RefsCounted ==
  \A i \in Inums :
    icache[i].ref = Cardinality({p \in Procs : fd[p] = i}) + Cardinality({p \in Procs : cwd[p] = i})
                    + Cardinality({p \in Procs : at[p] = i}) + Cardinality({p \in Procs : ip[p] = i})
                    + Cardinality({<<p, k>> \in Procs \X (1..5) :
                                     k \in DOMAIN todo[p] /\ todo[p][k][2] = i})

(* An inode is freed, and its number given to another file, only when nobody   *)
(* has it open or as current directory.                                        *)
HeldStay ==
  \A p \in Procs :
    /\ fd[p] # None => dinode[fd[p]].type # "none"
    /\ dinode[cwd[p]].type = "dir"

(* The references are right, and with them what nobody may lose. *)
RefsKept == TypeOK /\ RefsCounted /\ HeldStay

(* An inode has at least as many links as names, a directory one more for each *)
(* directory in it: none is freed that a name still leads to.  (It may have    *)
(* more: what is created in a directory that was removed meanwhile is lost.)   *)
NamesAreLinks ==
  \A i \in Inums :
    LET names == {<<d, n>> \in Inums \X Names : dirent[d][n] = i}
        subs == {n \in Names : dirent[i][n] # None /\ dinode[dirent[i][n]].type = "dir"} IN
    dinode[i].nlink >= Cardinality(names) + IF dinode[i].type = "dir" THEN Cardinality(subs) ELSE 0

(* The inode cache is write-through: whoever locks an inode next sees what is  *)
(* on disk, also when its number was freed and allocated in the meantime.      *)
WriteThrough ==
  \A i \in Inums :
    icache[i].ref > 0 /\ icache[i].valid /\ icache[i].holder = None =>
      dinode[i] = [type |-> icache[i].type, nlink |-> icache[i].nlink]

(* The inode that a process waits for, or takes next. *)
Wants(p) ==
  IF todo[p] = <<>> THEN None
  ELSE LET f == todo[p][1][1] IN
       CASE f = "iput" -> Arg(p)
         [] f \in {"namei", "nameiparent"} -> IF path[p] = <<>> THEN None ELSE at[p]
         [] f \in {"open", "chdir", "create", "exists", "link", "dirlink", "unlink"} -> at[p]
         [] f \in {"init", "remove", "bad"} -> ip[p]
         [] OTHER -> None

(* None of the panics "ilock: no type", "dirlookup not DIR", "create dots" and *)
(* "unlink: nlink < 1" is ever due.                                            *)
NoPanic ==
  \A p \in Procs :
    LET i == Wants(p) IN
    i # None /\ Lockable(i) /\ ~At(p, "iput") =>
      /\ ~NoType(i)
      /\ At(p, "create") \/ At(p, "dirlink") \/ At(p, "unlink") => ilock(p, i)[i].type = "dir"
      /\ At(p, "remove") => ilock(p, i)[i].nlink >= 1
      /\ At(p, "init") /\ call[p].op = "mkdir" => ilock(p, i)[i].type = "dir" /\ dirent[i] = NoEntries

(* No processes wait for inodes that they hold among themselves. *)
NoWaitCycle ==
  ~ \E S \in SUBSET Procs \ {{}} :
      \A p \in S : Wants(p) # None /\ icache[Wants(p)].holder \in S

(* "If that was the last reference and the inode has no links to it, free the  *)
(* inode (and its content) on disk": what no name and no reference leads to is *)
(* free.  iput() looks at nlink and ref under the inode's lock and drops the   *)
(* reference after it, so of two processes each can still see the other's.     *)
FreedAtLast ==
  \A i \in Inums :
    icache[i].ref = 0 /\ dinode[i].nlink = 0 => dinode[i].type = "none"
==============================================================================
