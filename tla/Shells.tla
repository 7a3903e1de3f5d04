-------------------------------- MODULE Shells --------------------------------
(***************************************************************************)
(* The shells of the sessions (src/shell.hpp): each turns what its user    *)
(* types into an absolute path and calls VFS under the mutex, so a command *)
(* is one step of Namespace.  Only cd is two: it releases the mutex        *)
(* between exists and real_path, and other sessions may come in between.   *)
(* Sessions has the threads and the mutex.                                 *)
(*                                                                         *)
(* A working directory is a sequence of names, or NoDir for the empty      *)
(* string that real_path returns when it fails.                            *)
(***************************************************************************)
EXTENDS Namespace

CONSTANTS Session,   \* sessions whose working directory matters
          Arg,       \* what they type: names, after Slash if absolute
          Slash,
          NoDir      \* the working directory ""

VARIABLES pwd,   \* working directory of each session
          gap    \* the sessions between the two halves of a cd

shell_vars == <<vars, pwd, gap>>

\* gap[s] is empty, or the path s is about to enter and, for the properties,
\* whether nothing has changed since it was looked up.
ShellInit ==
  /\ Init
  /\ pwd = [s \in Session |-> <<>>]
  /\ gap = [s \in Session |-> <<>>]

\* back() of the empty string reads the byte in front of its characters, which
\* is no slash, so that a name typed in NoDir is one in the root.
to_abs(dir, arg) ==
  IF arg = <<>> THEN dir
  ELSE IF Head(arg) = Slash THEN Tail(arg)
  ELSE IF dir = NoDir THEN arg
  ELSE dir \o arg

\* The gaps after a step of s, which ends its own.
Disturbed == [t \in Session |-> IF gap[t] = <<>> \/ fs' = fs THEN gap[t]
                                ELSE [gap[t] EXCEPT !.quiet = FALSE]]
-------------------------------------------------------------------------------
(* real_path (src/vfs.hpp): fa is the set of inodes visited *)

\* Slip: "." and the ".." of the root are not told apart.
Visit_NoStay(r, name, idx) ==
  IF idx \notin r.fa
  THEN [r EXCEPT !.fa = @ \cup {idx}, !.names = Append(@, name), !.idx = idx]
  ELSE IF r.names = <<>> THEN [r EXCEPT !.f = Stop(@, "pop_empty")]
  ELSE [r EXCEPT !.names = Front(@), !.idx = idx]

\* Slip: the root is not among the visited.
Visit_RootIsNew(r, name, idx) ==
  IF idx = r.idx THEN r
  ELSE IF idx \notin r.fa \ {ROOT_INODE}
  THEN [r EXCEPT !.fa = @ \cup {idx}, !.names = Append(@, name), !.idx = idx]
  ELSE IF r.names = <<>> THEN [r EXCEPT !.f = Stop(@, "pop_empty")]
  ELSE [r EXCEPT !.names = Front(@), !.idx = idx]

\* One component that leads to idx: a name is added when idx is new, and the
\* last is dropped when it is not, whichever way the component leads.
Visit(r, name, idx) ==
  IF idx = r.idx THEN r
  ELSE IF idx \notin r.fa
  THEN [r EXCEPT !.fa = @ \cup {idx}, !.names = Append(@, name), !.idx = idx]
  ELSE IF r.names = <<>> THEN [r EXCEPT !.f = Stop(@, "pop_empty")]
  ELSE [r EXCEPT !.names = Front(@), !.idx = idx]

\* A component that is missing is made; that fails for want of an inode.
real_path(f, path) ==
  LET Step(r, name) ==
        IF r.f.failed # "none" \/ r.names = NoDir THEN r
        ELSE IF Lookup(r.f, r.idx, name) = Lost THEN [r EXCEPT !.f = Stray(@, r.idx)]
        ELSE IF Lookup(r.f, r.idx, name) # 0 THEN Visit(r, name, Lookup(r.f, r.idx, name))
        ELSE IF A!ialloc(r.f.inode_bitmap) = 0 THEN [r EXCEPT !.names = NoDir]
        ELSE Visit([r EXCEPT !.f = MakeDir(@, r.idx, name)], name, A!ialloc(r.f.inode_bitmap))
  IN  FoldLeft(Step, [f |-> f, names |-> <<>>, idx |-> ROOT_INODE, fa |-> {ROOT_INODE}], path)

IsDir(f, path) == LET n == Walk(f, path).idx IN n \notin {0, Lost} /\ f.mode[n] = "dir"

\* cd, first half: exists.
CdCheck(s) ==
  /\ Running /\ gap[s] = <<>>
  /\ \E arg \in Arg \ {<<>>} :
       LET path == to_abs(pwd[s], arg)
           w == Walk(fs, path)
       IN  \/ /\ IsDir(fs, path)
              /\ gap' = [gap EXCEPT ![s] = [path |-> path, quiet |-> TRUE]]
              /\ UNCHANGED vars
           \/ /\ w.idx = Lost /\ Astray(w.father)
              /\ UNCHANGED gap
  /\ UNCHANGED pwd

\* cd, second half.
CdMove(s) ==
  /\ Running /\ gap[s] # <<>>
  /\ LET r == real_path(fs, gap[s].path)
     IN  /\ fs' = r.f
         /\ pwd' = IF r.f.failed = "none" THEN [pwd EXCEPT ![s] = r.names] ELSE pwd
  /\ gap' = [Disturbed EXCEPT ![s] = <<>>]
  /\ UNCHANGED ret
-------------------------------------------------------------------------------
(* The other commands *)

Command(path) == \/ mkdir_from_root(path) \/ create_file_from_root(path)
                 \/ rmdir_from_root(path) \/ unlink_from_root(path)
                 \/ write_to_file(path) \/ ls_from_root(path)

\* mkdir, touch, rmdir, rm, write, ls and mv typed in session s.
Type(s) ==
  /\ gap[s] = <<>>
  /\ \E arg \in Arg \ {<<>>} :
       \/ Command(to_abs(pwd[s], arg))
       \/ \E dst \in Arg \ {<<>>} : mv_from_root(to_abs(pwd[s], arg), to_abs(pwd[s], dst))
  /\ gap' = Disturbed
  /\ UNCHANGED pwd

\* ls without a name in NoDir: ls_from_root asserts that its path is absolute.
List(s) ==
  /\ Running /\ gap[s] = <<>> /\ <<>> \in Arg
  /\ to_abs(pwd[s], <<>>) = NoDir
  /\ Abort("not_absolute")
  /\ UNCHANGED <<pwd, gap>>

\* A command of a session that works in the root.
Elsewhere ==
  /\ \/ \E path \in Path : Command(path)
     \/ \E old \in Path, new \in NewPath : mv_from_root(old, new)
  /\ gap' = Disturbed
  /\ UNCHANGED pwd

ShellNext == \/ \E s \in Session : CdCheck(s) \/ CdMove(s) \/ Type(s) \/ List(s)
             \/ Elsewhere

ShellSpec == ShellInit /\ [][ShellNext]_shell_vars
-------------------------------------------------------------------------------
(* Properties *)

\* No name of the path leads down again to a directory the path visited before.
NeverBack(f, path) ==
  \A i \in DOMAIN path :
    path[i] \in Name => \A j \in 0 .. i - 1 :
                           Walk(f, SubSeq(path, 1, j)).idx # Walk(f, SubSeq(path, 1, i)).idx

Enters(s) == gap[s] # <<>> /\ gap'[s] = <<>>

\* A cd that nothing disturbed between its halves only looks: it makes no
\* directory, never loses the working directory, and fails only where its path
\* goes back into a directory, or ".." is not where the path came from.
CdOnlyLooks ==
  [][\A s \in Session :
       Enters(s) /\ gap[s].quiet =>
         /\ fs' = fs \/ fs'.failed = "pop_empty"
         /\ pwd'[s] # NoDir
         /\ fs'.failed = "pop_empty" =>
              ~NeverBack(fs, gap[s].path) \/ "moved" \in fs.defects]_shell_vars

\* Such a cd on an intact tree ends in the directory its path leads to, under a
\* name without dots, unless the path goes back into a directory it has left.
CdGoesThere ==
  [][\A s \in Session :
       Enters(s) /\ gap[s].quiet /\ Intact /\ NeverBack(fs, gap[s].path) =>
         /\ Walk(fs, pwd'[s]).idx = Walk(fs, gap[s].path).idx
         /\ ToSet(pwd'[s]) \subseteq Name]_shell_vars
===============================================================================
