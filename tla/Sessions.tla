------------------------------- MODULE Sessions -------------------------------
(***************************************************************************)
(* Clients (src/client.cpp), the handler threads that serve them and the   *)
(* sync thread (src/server.cpp), with what the threads share: the mutex    *)
(* around VFS calls and the static position of strtok (src/util.hpp).      *)
(*                                                                         *)
(* What VFS does inside a critical section is Shells; here it is a stay    *)
(* under the mutex that splits one path.  A command is its kind:           *)
(*   plain       answered without VFS (pwd, help, usage, unknown)          *)
(*   vfs         one critical section (ls, cat, touch, mkdir, ...)         *)
(*   cd          one that checks and one that moves                        *)
(*   exit        exactly "exit" or "logout"                                *)
(*   exit_words  "exit" or "logout" with blanks or words after it          *)
(*   blank       nothing but blanks                                        *)
(*   long        COMMAND_LEN characters or more                            *)
(*   bad_offset  a write whose offset is no number                         *)
(***************************************************************************)
EXTENDS Naturals, SequencesExt

CONSTANTS Client,    \* connections; a client that goes may come back on its own
          Kind,      \* the kinds of commands clients type
          Userlist,  \* the lines of userlist.txt: records of name and password
          Login,     \* the names and passwords clients try
          Nobody,    \* holds the mutex when it is free
          Syncer,    \* the sync thread
          MaxWords   \* bound: the words a split can pick up from other strings

AllKinds == {"plain", "vfs", "cd", "exit", "exit_words", "blank", "long", "bad_offset"}

ASSUME SessionAssumption ==
  /\ Kind \subseteq AllKinds
  /\ Nobody \notin Client /\ Syncer \notin Client /\ Nobody # Syncer
  /\ MaxWords \in Nat /\ MaxWords >= 2

VARIABLES client,   \* what each client does: off, login, prompt or await
          asked,    \* what it waits an answer for: a login or a kind
          request,  \* what it has sent and the server has not received
          reply,    \* what the server has sent and it has not received
          at,       \* where its handler is
          doing,    \* what its handler works on
          words,    \* the owners of the words its split has returned
          garbled,  \* the handlers whose table of users was split wrongly
          mutex,    \* who holds mtx
          strtok,   \* the static position: whose string, how many words are left
          raced,    \* history: a strtok went on in the string of another thread
          alive     \* the server process runs

protocol == <<client, asked, request, reply>>
handlers == <<at, doing, words, garbled>>
shared == <<mutex, strtok, raced, alive>>
vars == <<protocol, handlers, shared>>

Init ==
  /\ client = [c \in Client |-> "off"]
  /\ asked = [c \in Client |-> "none"]
  /\ request = [c \in Client |-> <<>>]
  /\ reply = [c \in Client |-> <<>>]
  /\ at = [c \in Client |-> "none"]
  /\ doing = [c \in Client |-> "none"]
  /\ words = [c \in Client |-> <<>>]
  /\ garbled = {}
  /\ mutex = Nobody
  /\ strtok = [owner |-> Nobody, left |-> 0]   \* no string
  /\ raced = FALSE
  /\ alive = TRUE
-------------------------------------------------------------------------------
(* The table of users (src/user.hpp) *)

\* A later line of the same name replaces an earlier one.
login(user, password) ==
  \E i \in DOMAIN Userlist :
    /\ Userlist[i] = [name |-> user, password |-> password]
    /\ \A j \in DOMAIN Userlist : j > i => Userlist[j].name # user

Outcome(try) == IF login(try.name, try.password) THEN "login_ok" ELSE "login_bad"
Logins == {"login_ok", "login_bad"}
-------------------------------------------------------------------------------
(* The client.  A message is what it asks; a reply is what it answers.  When *)
(* the server dies nothing more is modelled.                                *)

Move(c, from, to) == client[c] = from /\ client' = [client EXCEPT ![c] = to]
Asks(c, what) == asked' = [asked EXCEPT ![c] = what]
Put(channel, c, what) == [channel EXCEPT ![c] = Append(@, what)]

\* The server accepts it; its handler starts with the table of users.
Connect(c) ==
  /\ alive /\ at[c] = "none"
  /\ Move(c, "off", "login")
  /\ at' = [at EXCEPT ![c] = "split"]
  /\ doing' = [doing EXCEPT ![c] = "table"]
  /\ garbled' = garbled \ {c}
  /\ UNCHANGED <<asked, request, reply, words, shared>>

\* send_command does not send what is too long, a login as little as a command,
\* and the client waits all the same.
SendLogin(c) ==
  /\ alive
  /\ Move(c, "login", "await")
  /\ \/ \E try \in Login : Asks(c, Outcome(try)) /\ request' = Put(request, c, Outcome(try))
     \/ Asks(c, "long") /\ UNCHANGED request
  /\ UNCHANGED <<reply, handlers, shared>>

\* Slip: blanks are sent, but the client does not wait.
SendCommand_NoWait(c) ==
  /\ alive
  /\ \E k \in Kind :
       /\ IF k \in {"exit", "blank"}
          THEN Move(c, "prompt", IF k = "exit" THEN "off" ELSE "prompt") /\ UNCHANGED asked
          ELSE Move(c, "prompt", "await") /\ Asks(c, k)
       /\ request' = IF k = "long" THEN request ELSE Put(request, c, k)
  /\ UNCHANGED <<reply, handlers, shared>>

SendCommand(c) ==
  /\ alive
  /\ \E k \in Kind :
       /\ IF k = "exit" THEN Move(c, "prompt", "off") /\ UNCHANGED asked
                        ELSE Move(c, "prompt", "await") /\ Asks(c, k)
       /\ request' = IF k = "long" THEN request ELSE Put(request, c, k)
  /\ UNCHANGED <<reply, handlers, shared>>

\* Only the answer to a login is looked at.
Receive(c) ==
  /\ alive /\ reply[c] # <<>>
  /\ Move(c, "await", IF asked[c] \in Logins /\ Head(reply[c]) # "login_ok"
                      THEN "login" ELSE "prompt")
  /\ Asks(c, "none")
  /\ reply' = [reply EXCEPT ![c] = Tail(@)]
  /\ UNCHANGED <<request, handlers, shared>>

\* The user kills the client, or the connection breaks.
Vanish(c) ==
  /\ alive /\ client[c] # "off"
  /\ client' = [client EXCEPT ![c] = "off"]
  /\ Asks(c, "none")
  /\ reply' = [reply EXCEPT ![c] = <<>>]
  /\ UNCHANGED <<request, handlers, shared>>
-------------------------------------------------------------------------------
(* split (src/util.hpp): strtok on a string of its own, freed at the end.  A *)
(* string has two words, or none when the command is blank; which thread's   *)
(* string a word came from is all that is kept of it.                        *)

Freed == [owner |-> Nobody, left |-> 0]
Splitting(c) == at[c] \in {"split", "path"}

FirstWord(c) ==
  /\ alive /\ Splitting(c) /\ words[c] = <<>> /\ doing[c] # "blank"
  /\ words' = [words EXCEPT ![c] = <<c>>]
  /\ strtok' = [owner |-> c, left |-> 1]
  /\ UNCHANGED <<protocol, at, doing, garbled, mutex, raced, alive>>

\* Slip: the end of the string is not seen.
NextWord_PastEnd(c) ==
  /\ alive /\ Splitting(c) /\ words[c] # <<>> /\ Len(words[c]) < MaxWords
  /\ words' = [words EXCEPT ![c] = Append(@, strtok.owner)]
  /\ strtok' = [strtok EXCEPT !.left = @ - 1]
  /\ raced' = (raced \/ strtok.owner # c)
  /\ UNCHANGED <<protocol, at, doing, garbled, mutex, alive>>

\* strtok(NULL, ..) goes on wherever the last call of any thread stopped, and
\* in a string that is freed it may find anything.
NextWord(c) ==
  /\ alive /\ Splitting(c) /\ words[c] # <<>> /\ Len(words[c]) < MaxWords
  /\ \/ /\ strtok.left > 0
        /\ words' = [words EXCEPT ![c] = Append(@, strtok.owner)]
        /\ strtok' = [strtok EXCEPT !.left = @ - 1]
     \/ /\ strtok.owner = Nobody
        /\ words' = [words EXCEPT ![c] = Append(@, Nobody)]
        /\ UNCHANGED strtok
  /\ raced' = (raced \/ strtok.owner # c)
  /\ UNCHANGED <<protocol, at, doing, garbled, mutex, alive>>

\* strtok returns NULL.
NoMoreWords(c) ==
  /\ alive /\ Splitting(c)
  /\ \/ /\ words[c] = <<>> /\ doing[c] = "blank"
        /\ strtok' = Freed
        /\ UNCHANGED raced
     \/ /\ words[c] # <<>>
        /\ strtok.left = 0 \/ Len(words[c]) = MaxWords
        /\ strtok' = IF strtok.owner = c THEN Freed ELSE strtok
        /\ raced' = (raced \/ strtok.owner # c)
  /\ words' = [words EXCEPT ![c] = <<>>]
-------------------------------------------------------------------------------
(* The handler *)

Goes(c, place, work) ==
  /\ at' = [at EXCEPT ![c] = place]
  /\ doing' = [doing EXCEPT ![c] = work]

\* send_msg; what is sent to a client that has gone is lost.
send_msg(c, what) == reply' = IF client[c] = "off" THEN reply ELSE Put(reply, c, what)
Answer(c, what, place) == send_msg(c, what) /\ Goes(c, place, "none")

OwnWords(c) == words[c] = <<c, c>>

Take(c) ==
  /\ alive /\ at[c] \in {"login", "ready"} /\ request[c] # <<>>
  /\ Goes(c, "split", Head(request[c]))
  /\ request' = [request EXCEPT ![c] = Tail(@)]
  /\ UNCHANGED <<client, asked, reply, words, garbled, shared>>

\* Receive returns no more than 0: the handler returns, and ~Shell with it once
\* there is a Shell.
SeeGone(c) ==
  /\ alive /\ at[c] \in {"login", "ready"} /\ request[c] = <<>> /\ client[c] = "off"
  /\ Goes(c, IF at[c] = "login" THEN "none" ELSE "closing", "none")
  /\ UNCHANGED <<protocol, words, garbled, shared>>

ReadTable(c) ==
  /\ at[c] = "split" /\ doing[c] = "table"
  /\ NoMoreWords(c)
  /\ garbled' = IF OwnWords(c) THEN garbled ELSE garbled \cup {c}
  /\ Goes(c, "login", "none")
  /\ UNCHANGED <<protocol, mutex, alive>>

\* Slip: whoever is in the table passes, whatever the password.
AnswerLogin_AnyPassword(c) ==
  /\ at[c] = "split" /\ doing[c] \in Logins
  /\ NoMoreWords(c)
  /\ Answer(c, "login_ok", "ready")
  /\ UNCHANGED <<client, asked, request, garbled, mutex, alive>>

\* Wrong words, or a wrong table, may let the login pass or fail.
AnswerLogin(c) ==
  /\ at[c] = "split" /\ doing[c] \in Logins
  /\ NoMoreWords(c)
  /\ \E outcome \in IF OwnWords(c) /\ c \notin garbled THEN {doing[c]} ELSE Logins :
       Answer(c, outcome, IF outcome = "login_ok" THEN "ready" ELSE "login")
  /\ UNCHANGED <<client, asked, request, garbled, mutex, alive>>

\* What the handler makes of a command: its first word is always its own, but
\* its arguments may be too few or another's ("misled").
Understood(c) ==
  IF OwnWords(c) \/ doing[c] \notin {"vfs", "cd", "bad_offset"} THEN doing[c]
  ELSE "misled"

Dispatch(c) ==
  /\ at[c] = "split" /\ doing[c] \in AllKinds
  /\ NoMoreWords(c)
  /\ LET k == Understood(c)
     IN  \/ k = "blank" /\ Goes(c, "ready", "none") /\ UNCHANGED <<reply, alive>>
         \/ k \in {"plain", "misled"} /\ Answer(c, "done", "ready") /\ UNCHANGED alive
         \/ k \in {"exit", "exit_words"} /\ Goes(c, "closing", "none") /\ UNCHANGED <<reply, alive>>
         \/ k \in {"vfs", "cd", "misled"} /\ Goes(c, "want", k) /\ UNCHANGED <<reply, alive>>
         \/ k \in {"bad_offset", "misled"} /\ alive' = FALSE   \* stoi throws
            /\ UNCHANGED <<reply, at, doing>>
  /\ UNCHANGED <<client, asked, request, garbled, mutex>>
-------------------------------------------------------------------------------
(* Under the mutex *)

\* Slip: the mutex is not asked for.
Lock_NoWait(c) ==
  /\ alive /\ at[c] \in {"want", "closing"}
  /\ mutex' = c
  /\ at' = [at EXCEPT ![c] = IF @ = "want" THEN "path" ELSE "sync"]
  /\ UNCHANGED <<protocol, doing, words, garbled, strtok, raced, alive>>

\* _mtx.lock() before VFS, which starts by splitting a path, or before the
\* sync of ~Shell.
Lock(c) ==
  /\ alive /\ mutex = Nobody /\ at[c] \in {"want", "closing"}
  /\ mutex' = c
  /\ at' = [at EXCEPT ![c] = IF @ = "want" THEN "path" ELSE "sync"]
  /\ UNCHANGED <<protocol, doing, words, garbled, strtok, raced, alive>>

WalkPath(c) ==
  /\ at[c] = "path"
  /\ NoMoreWords(c)
  /\ Goes(c, "inside", IF OwnWords(c) THEN doing[c]
                       ELSE IF doing[c] = "cd_move" THEN "misled_move" ELSE "misled")
  /\ UNCHANGED <<protocol, garbled, mutex, alive>>

\* Slip: an early return keeps the mutex.
Leave_Leak(c) ==
  /\ alive /\ at[c] = "inside"
  /\ mutex' \in {mutex, Nobody}
  /\ \/ Answer(c, "done", "ready")
     \/ doing[c] \in {"cd", "misled"} /\ Goes(c, "want", "cd_move") /\ UNCHANGED reply
  /\ UNCHANGED <<client, asked, request, words, garbled, strtok, raced, alive>>

\* The end of the critical section; cd goes on to a second one when the first
\* found a directory.
Leave(c) ==
  /\ alive /\ at[c] = "inside"
  /\ mutex' = Nobody
  /\ \/ Answer(c, "done", "ready")
     \/ doing[c] \in {"cd", "misled"} /\ Goes(c, "want", "cd_move") /\ UNCHANGED reply
  /\ UNCHANGED <<client, asked, request, words, garbled, strtok, raced, alive>>

\* The section never ends: the walk of a directory comes by no end of a block
\* (Namespace says when), and the handler turns in it with the mutex.
Loop(c) ==
  /\ alive /\ at[c] = "inside"
  /\ at' = [at EXCEPT ![c] = "stuck"]
  /\ UNCHANGED <<protocol, doing, words, garbled, shared>>

\* An assert in VFS fails.
Fail(c) ==
  /\ alive /\ at[c] = "inside"
  /\ alive' = FALSE
  /\ UNCHANGED <<protocol, handlers, mutex, strtok, raced>>

\* ~Shell is done, and the thread ends; nothing closes the socket.
End(c) ==
  /\ alive /\ at[c] = "sync"
  /\ mutex' = Nobody
  /\ Goes(c, "none", "none")
  /\ UNCHANGED <<protocol, words, garbled, strtok, raced, alive>>

\* The sync thread.
SyncStart == alive /\ mutex = Nobody /\ mutex' = Syncer
             /\ UNCHANGED <<protocol, handlers, strtok, raced, alive>>
SyncEnd == alive /\ mutex = Syncer /\ mutex' = Nobody
           /\ UNCHANGED <<protocol, handlers, strtok, raced, alive>>

HandlerStep(c) == \/ Take(c) \/ SeeGone(c) \/ FirstWord(c) \/ NextWord(c)
                  \/ ReadTable(c) \/ AnswerLogin(c) \/ Dispatch(c)
                  \/ WalkPath(c) \/ Leave(c) \/ Loop(c) \/ Fail(c) \/ End(c)

Next == \/ \E c \in Client : \/ Connect(c) \/ SendLogin(c) \/ SendCommand(c)
                             \/ Receive(c) \/ Vanish(c)
                             \/ HandlerStep(c) \/ Lock(c)
        \/ SyncStart \/ SyncEnd

\* A thread that can go on does, though what it does under the mutex may be to
\* turn in a walk for ever.  One that waits for a mutex that is left again and
\* again gets it in the end, for the sync thread sleeps ten seconds between two
\* turns.  Users need not type.
Fairness == /\ \A c \in Client : WF_vars(Receive(c)) /\ WF_vars(HandlerStep(c)) /\ SF_vars(Lock(c))
            /\ SF_vars(SyncStart) /\ WF_vars(SyncEnd)

Spec == Init /\ [][Next]_vars /\ Fairness
-------------------------------------------------------------------------------
(* Properties *)

Work == AllKinds \cup Logins \cup {"none", "table", "misled", "cd_move", "misled_move"}
Owner == Client \cup {Nobody}

\* Type invariant.
TypeOK ==
  /\ client \in [Client -> {"off", "login", "prompt", "await"}]
  /\ asked \in [Client -> AllKinds \cup Logins \cup {"none"}]
  /\ request \in [Client -> Seq(AllKinds \cup Logins)]
  /\ reply \in [Client -> Seq(Logins \cup {"done"})]
  /\ at \in [Client -> {"none", "split", "login", "ready", "want", "path", "inside", "stuck",
                       "closing", "sync"}]
  /\ doing \in [Client -> Work]
  /\ words \in [Client -> Seq(Owner)]
  /\ garbled \subseteq Client
  /\ mutex \in Owner \cup {Syncer}
  /\ strtok \in [owner : Owner, left : 0 .. 1]
  /\ raced \in BOOLEAN
  /\ alive \in BOOLEAN

Unanswered == {"blank", "long", "exit_words"}
Serving(c) == at[c] \in {"split", "want", "path", "inside", "stuck"} /\ doing[c] # "table"
Underway(c) == Len(request[c]) + Len(reply[c]) + (IF Serving(c) THEN 1 ELSE 0)

\* The two ends agree.  While a user is asked for a command the handler waits
\* for one, logged in; while he is asked for a name it waits for a login, or
\* still reads its table.  While the client waits exactly one thing is underway
\* for it, a request, its execution or its answer, unless it asked one of the
\* things that get no answer; and an answer to a login answers a login.  So no
\* command ever takes the answer of the one before.
InStep ==
  \A c \in Client :
    /\ client[c] = "prompt" => Underway(c) = 0 /\ at[c] = "ready"
    /\ client[c] = "login" =>
         Underway(c) = 0 /\ (at[c] = "login" \/ (at[c] = "split" /\ doing[c] = "table"))
    /\ client[c] = "await" =>
         /\ Underway(c) <= 1
         /\ asked[c] \notin Unanswered => Underway(c) = 1
         /\ reply[c] # <<>> => (Head(reply[c]) \in Logins <=> asked[c] \in Logins)

\* What InStep needs to be inductive, of one client: what it does, what it
\* asked, its two channels, and where and at what its handler is.
HandlerFits(place, work) ==
  /\ place = "split" => work \in {"table"} \cup Logins \cup AllKinds
  /\ place \in {"want", "path", "inside", "stuck"} =>
       work \in {"vfs", "cd", "misled", "cd_move", "misled_move"}
  /\ place \notin {"split", "want", "path", "inside", "stuck"} => work = "none"
RequestFits(req, rep, place, work) ==
  req # <<>> =>
    /\ req = <<Head(req)>> /\ rep = <<>>
    /\ place \in {"login", "ready"} \/ (place = "split" /\ work = "table")
    /\ Head(req) \in Logins <=> place # "ready"
ReplyFits(doer, what, rep, place) ==
  rep # <<>> =>
    /\ rep = <<Head(rep)>> /\ doer = "await"
    /\ place = IF Head(rep) = "login_bad" THEN "login" ELSE "ready"
    /\ Head(rep) \in Logins <=> what \in Logins
ClientFits(doer, what, req, rep, place, work) ==
  /\ doer = "prompt" => req = <<>> /\ rep = <<>> /\ place = "ready"
  /\ doer = "login" => /\ req = <<>> /\ rep = <<>>
                       /\ place = "login" \/ (place = "split" /\ work = "table")
  /\ doer = "await" =>
       /\ what \notin {"none", "exit"}
       /\ req # <<>> => Head(req) = what
       /\ place = "split" /\ work # "table" => work = what
       /\ place \in {"want", "path", "inside", "stuck"} => what \in AllKinds
       /\ what \in Unanswered \/ req # <<>> \/ rep # <<>>
            \/ (place \in {"split", "want", "path", "inside", "stuck"} /\ work # "table")
Fits(c) == /\ HandlerFits(at[c], doing[c])
           /\ RequestFits(request[c], reply[c], at[c], doing[c])
           /\ ReplyFits(client[c], asked[c], reply[c], at[c])
           /\ ClientFits(client[c], asked[c], request[c], reply[c], at[c], doing[c])
StepInv == \A c \in Client : Fits(c)

\* A handler is in a critical section exactly while it holds the mutex: two are
\* never in VFS at once, and no path out of a section keeps the mutex.
LockedWhileInside ==
  \A c \in Client : mutex = c <=> at[c] \in {"path", "inside", "stuck", "sync"}

\* The words, paths and user tables that handlers work on are their own, and
\* who is logged in gave a right password, until two threads have been in
\* strtok at once.
OnlyARaceMisleads ==
  ~raced => /\ garbled = {}
            /\ \A c \in Client :
                 /\ ToSet(words[c]) \subseteq {c}
                 /\ doing[c] \notin {"misled", "misled_move"}
                 /\ client[c] = "await" /\ at[c] \in {"want", "path", "inside", "stuck"} =>
                      doing[c] \in {asked[c], "cd_move"}
                 /\ asked[c] = "login_bad" => reply[c] # <<"login_ok">>

\* The invariant behind it, of one client: its words are its own, and as long as
\* strtok is in its string they are as many as strtok has passed.
NotMisled(c) ==
  /\ words[c] \in {<<>>, <<c>>, <<c, c>>}
  /\ strtok.owner = c => \/ words[c] = <<c>> /\ strtok.left = 1
                         \/ words[c] = <<c, c>> /\ strtok.left = 0
  /\ c \notin garbled
  /\ doing[c] \notin {"misled", "misled_move"}
  /\ client[c] = "await" /\ at[c] \in {"want", "path", "inside", "stuck"} =>
       doing[c] \in {asked[c], "cd_move"}
  /\ asked[c] = "login_bad" => reply[c] # <<"login_ok">>
RaceInv == ~raced => \A c \in Client : NotMisled(c)

Stuck == \E c \in Client : at[c] = "stuck"

\* A client that waits is answered, or goes, or it sent or should have sent one
\* of the three things that get no answer, or the server dies, or some handler
\* turns in a walk with the mutex.  Nothing else makes a client wait for ever: no
\* return that forgets the mutex or the answer, and no crowd at the mutex.
Answered ==
  \A c \in Client :
    client[c] = "await" ~> \/ client[c] # "await"
                           \/ asked[c] \in Unanswered
                           \/ ~alive \/ Stuck

\* The sync thread gets the mutex again and again, however busy the clients
\* are, until the server dies or a handler turns in a walk with the mutex: then
\* nothing is made durable any more.
SyncGoesOn == []<>(mutex = Syncer \/ ~alive \/ Stuck)
===============================================================================
