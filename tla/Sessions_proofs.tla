---------------------------- MODULE Sessions_proofs ----------------------------
(***************************************************************************)
(* Proofs about Sessions, for any number of clients, any users and any     *)
(* kinds of commands: types, the mutex, and the step of requests and       *)
(* answers.                                                                *)
(***************************************************************************)
EXTENDS Sessions, SequenceTheorems, TLAPS

Places == {"none", "split", "login", "ready", "want", "path", "inside", "stuck", "closing", "sync"}

\* A channel of one message and what receiving it leaves.
LEMMA OneMessage ==
  ASSUME NEW x
  PROVE  /\ <<x>> # <<>> /\ Head(<<x>>) = x /\ Tail(<<x>>) = <<>>
         /\ Append(<<>>, x) = <<x>> /\ Len(<<x>>) = 1
OBVIOUS

LEMMA TwoMessages == ASSUME NEW x PROVE Append(<<x>>, x) = <<x, x>>
<1>1. <<x>> \in Seq({x}) /\ <<x, x>> \in Seq({x})
  OBVIOUS
<1>2. Append(<<x>>, x) \in Seq({x}) /\ Len(Append(<<x>>, x)) = 2
  BY <1>1
<1>3. Len(<<x, x>>) = 2
  OBVIOUS
<1>4. \A i \in 1 .. 2 : Append(<<x>>, x)[i] = <<x, x>>[i]
  BY <1>1
<1> QED
  BY <1>1, <1>2, <1>3, <1>4, SeqEqual

\* What a client tries is one of the two outcomes.
LEMMA OutcomeType == ASSUME NEW try PROVE Outcome(try) \in Logins
BY DEF Outcome, Logins

-------------------------------------------------------------------------------
(* Types *)

LEMMA InitTypeOK == Init => TypeOK
<1> SUFFICES ASSUME Init PROVE TypeOK
  OBVIOUS
<1>1. /\ client \in [Client -> {"off", "login", "prompt", "await"}]
      /\ asked \in [Client -> AllKinds \cup Logins \cup {"none"}]
      /\ doing \in [Client -> Work]
  BY DEF Init, Work
<1>2. /\ request \in [Client -> Seq(AllKinds \cup Logins)]
      /\ reply \in [Client -> Seq(Logins \cup {"done"})]
      /\ words \in [Client -> Seq(Owner)]
  <2>1. \A S : <<>> \in Seq(S)
    OBVIOUS
  <2> QED
    BY <2>1 DEF Init
<1>3. at \in [Client -> {"none", "split", "login", "ready", "want", "path", "inside", "stuck", "closing", "sync"}]
  BY DEF Init
<1>4. strtok \in [owner : Owner, left : 0 .. 1] /\ mutex \in Owner \cup {Syncer}
  BY DEF Init, Owner
<1> QED
  BY <1>1, <1>2, <1>3, <1>4 DEF Init, TypeOK

\* strtok's position and the words split so far keep their types.
LEMMA NoMoreWordsType ==
  ASSUME TypeOK, NEW c \in Client, NoMoreWords(c)
  PROVE  /\ words' \in [Client -> Seq(Owner)]
         /\ strtok' \in [owner : Owner, left : 0 .. 1]
         /\ raced' \in BOOLEAN
<1>1. words' \in [Client -> Seq(Owner)]
  <2>1. <<>> \in Seq(Owner)
    OBVIOUS
  <2> QED
    BY <2>1 DEF TypeOK, NoMoreWords
<1>2. strtok' \in [owner : Owner, left : 0 .. 1]
  <2>1. Freed \in [owner : Owner, left : 0 .. 1]
    BY DEF Freed, Owner
  <2>2. strtok' = Freed \/ strtok' = strtok
    BY DEF NoMoreWords
  <2> QED
    BY <2>1, <2>2 DEF TypeOK
<1>3. raced' \in BOOLEAN
  BY DEF TypeOK, NoMoreWords
<1> QED
  BY <1>1, <1>2, <1>3

LEMMA AnswerType ==
  ASSUME TypeOK, NEW c \in Client, NEW what \in Logins \cup {"done"}, NEW place \in Places,
         Answer(c, what, place)
  PROVE  /\ reply' \in [Client -> Seq(Logins \cup {"done"})]
         /\ at' \in [Client -> Places] /\ doing' \in [Client -> Work]
BY DEF TypeOK, Answer, send_msg, Goes, Put, Places, Work

LEMMA NextTypeOK == TypeOK /\ [Next]_vars => TypeOK'
<1> SUFFICES ASSUME TypeOK, [Next]_vars PROVE TypeOK'
  OBVIOUS
<1> USE SessionAssumption DEF TypeOK
<1>1. ASSUME NEW c \in Client, Connect(c) PROVE TypeOK'
  BY <1>1 DEF Connect, Move, Work, shared
<1>2. ASSUME NEW c \in Client, SendLogin(c) PROVE TypeOK'
  <2>1. PICK what \in AllKinds \cup Logins :
          Asks(c, what) /\ (request' = request \/ request' = Put(request, c, what))
    BY <1>2, OutcomeType DEF SendLogin, AllKinds
  <2>2. asked' \in [Client -> AllKinds \cup Logins \cup {"none"}]
    BY <2>1 DEF Asks
  <2>3. request' \in [Client -> Seq(AllKinds \cup Logins)]
    <3>1. Append(request[c], what) \in Seq(AllKinds \cup Logins)
      OBVIOUS
    <3> QED
      BY <2>1, <3>1 DEF Put
  <2> QED
    BY <1>2, <2>2, <2>3 DEF SendLogin, Move, handlers, shared
<1>3. ASSUME NEW c \in Client, SendCommand(c) PROVE TypeOK'
  <2>1. PICK k \in Kind :
          /\ IF k = "exit" THEN Move(c, "prompt", "off") /\ UNCHANGED asked
                           ELSE Move(c, "prompt", "await") /\ Asks(c, k)
          /\ request' = IF k = "long" THEN request ELSE Put(request, c, k)
    BY <1>3 DEF SendCommand
  <2>2. k \in AllKinds
    OBVIOUS
  <2>3. request' \in [Client -> Seq(AllKinds \cup Logins)]
    BY <2>1, <2>2 DEF Put
  <2>4. /\ client' \in [Client -> {"off", "login", "prompt", "await"}]
        /\ asked' \in [Client -> AllKinds \cup Logins \cup {"none"}]
    <3>1. CASE k = "exit"
      BY <2>1, <3>1 DEF Move
    <3>2. CASE k # "exit"
      <4>1. Move(c, "prompt", "await") /\ Asks(c, k)
        BY <2>1, <3>2
      <4>2. client' \in [Client -> {"off", "login", "prompt", "await"}]
        BY <4>1 DEF Move
      <4>3. asked' \in [Client -> AllKinds \cup Logins \cup {"none"}]
        BY <4>1, <2>2 DEF Asks
      <4> QED
        BY <4>2, <4>3
    <3> QED
      BY <3>1, <3>2
  <2> QED
    BY <1>3, <2>3, <2>4 DEF SendCommand, handlers, shared
<1>4. ASSUME NEW c \in Client, Receive(c) PROVE TypeOK'
  BY <1>4 DEF Receive, Move, Asks, handlers, shared
<1>5. ASSUME NEW c \in Client, Vanish(c) PROVE TypeOK'
  BY <1>5 DEF Vanish, Asks, handlers, shared
<1>6. ASSUME NEW c \in Client, Take(c) PROVE TypeOK'
  BY <1>6 DEF Take, Goes, Work, shared
<1>7. ASSUME NEW c \in Client, SeeGone(c) PROVE TypeOK'
  BY <1>7 DEF SeeGone, Goes, Work, protocol, shared
<1>8. ASSUME NEW c \in Client, FirstWord(c) PROVE TypeOK'
  BY <1>8 DEF FirstWord, Owner, protocol
<1>9. ASSUME NEW c \in Client, NextWord(c) PROVE TypeOK'
  <2>1. strtok.owner \in Owner /\ strtok.left \in 0 .. 1
    OBVIOUS
  <2>2. words' \in [Client -> Seq(Owner)]
    <3>1. PICK w \in Owner : words' = [words EXCEPT ![c] = Append(@, w)]
      BY <1>9, <2>1 DEF NextWord, Owner
    <3> QED
      BY <3>1
  <2>3. strtok' \in [owner : Owner, left : 0 .. 1]
    <3>1. CASE UNCHANGED strtok
      BY <3>1
    <3>2. CASE strtok.left > 0 /\ strtok' = [strtok EXCEPT !.left = @ - 1]
      <4>1. strtok.left - 1 \in 0 .. 1
        BY <3>2, <2>1
      <4> QED
        BY <3>2, <4>1
    <3> QED
      BY <1>9, <3>1, <3>2 DEF NextWord
  <2>4. raced' \in BOOLEAN
    BY <1>9 DEF NextWord
  <2> QED
    BY <1>9, <2>2, <2>3, <2>4 DEF NextWord, protocol
<1>10. ASSUME NEW c \in Client, ReadTable(c) PROVE TypeOK'
  BY <1>10, NoMoreWordsType DEF ReadTable, Goes, Work, protocol
<1>11. ASSUME NEW c \in Client, AnswerLogin(c) PROVE TypeOK'
  <2>1. PICK outcome \in Logins : Answer(c, outcome, IF outcome = "login_ok" THEN "ready" ELSE "login")
    BY <1>11 DEF AnswerLogin
  <2> QED
    BY <1>11, <2>1, NoMoreWordsType, AnswerType DEF AnswerLogin, Places
<1>12. ASSUME NEW c \in Client, Dispatch(c) PROVE TypeOK'
  <2>1. alive' \in BOOLEAN /\ reply' \in [Client -> Seq(Logins \cup {"done"})]
        /\ at' \in [Client -> Places] /\ doing' \in [Client -> Work]
    BY <1>12, AnswerType DEF Dispatch, Goes, Understood, Work, Places, AllKinds
  <2> QED
    BY <1>12, <2>1, NoMoreWordsType DEF Dispatch, Places
<1>13. ASSUME NEW c \in Client, WalkPath(c) PROVE TypeOK'
  BY <1>13, NoMoreWordsType DEF WalkPath, Goes, Work, protocol
<1>14. ASSUME NEW c \in Client, Leave(c) PROVE TypeOK'
  <2>1. reply' \in [Client -> Seq(Logins \cup {"done"})]
        /\ at' \in [Client -> Places] /\ doing' \in [Client -> Work]
    BY <1>14, AnswerType DEF Leave, Goes, Work, Places
  <2> QED
    BY <1>14, <2>1 DEF Leave, Owner, Places
<1>15. ASSUME NEW c \in Client, End(c) PROVE TypeOK'
  BY <1>15 DEF End, Goes, Work, Owner, protocol
<1>16. ASSUME NEW c \in Client, Lock(c) PROVE TypeOK'
  BY <1>16 DEF Lock, Owner, protocol
<1>17. CASE SyncStart \/ SyncEnd
  BY <1>17 DEF SyncStart, SyncEnd, Owner, protocol, handlers
<1>18. CASE UNCHANGED vars
  BY <1>18 DEF vars, protocol, handlers, shared
<1>19. ASSUME NEW c \in Client, Loop(c) PROVE TypeOK'
  BY <1>19 DEF Loop, protocol, shared
<1>20. ASSUME NEW c \in Client, Fail(c) PROVE TypeOK'
  BY <1>20 DEF Fail, protocol, handlers
<1> QED
  BY <1>1, <1>2, <1>3, <1>4, <1>5, <1>6, <1>7, <1>8, <1>9, <1>10, <1>11, <1>12, <1>13,
     <1>14, <1>15, <1>16, <1>17, <1>18, <1>19, <1>20 DEF Next, HandlerStep

\* Clients, handlers, channels, strtok and the mutex keep their types: every
\* answer is one the client can read, and strtok never goes past its string.
THEOREM TypeCorrect == Spec => []TypeOK
<1>1. Init => TypeOK
  BY InitTypeOK
<1>2. TypeOK /\ [Next]_vars => TypeOK'
  BY NextTypeOK
<1> QED
  BY <1>1, <1>2, PTL DEF Spec
-------------------------------------------------------------------------------
(* The mutex *)

\* A handler enters a critical section when it takes the mutex and leaves it
\* when it gives it back; nobody else touches either meanwhile.
LEMMA NextLocked == TypeOK /\ LockedWhileInside /\ [Next]_vars => LockedWhileInside'
<1> SUFFICES ASSUME TypeOK, LockedWhileInside, [Next]_vars PROVE LockedWhileInside'
  OBVIOUS
<1> USE SessionAssumption DEF TypeOK, LockedWhileInside
<1>1. ASSUME NEW c \in Client, Connect(c) PROVE LockedWhileInside'
  BY <1>1 DEF Connect, shared
<1>2. ASSUME NEW c \in Client, SendLogin(c) \/ SendCommand(c) \/ Receive(c) \/ Vanish(c)
      PROVE  LockedWhileInside'
  BY <1>2 DEF SendLogin, SendCommand, Receive, Vanish, handlers, shared
<1>3. ASSUME NEW c \in Client, Take(c) \/ SeeGone(c) PROVE LockedWhileInside'
  <2>1. \E place \in {"split", "none", "closing"} : at' = [at EXCEPT ![c] = place]
    BY <1>3 DEF Take, SeeGone, Goes
  <2>2. at[c] \in {"login", "ready"} /\ mutex' = mutex
    BY <1>3 DEF Take, SeeGone, shared
  <2> QED
    BY <2>1, <2>2
<1>4. ASSUME NEW c \in Client, FirstWord(c) \/ NextWord(c) PROVE LockedWhileInside'
  BY <1>4 DEF FirstWord, NextWord
<1>5. ASSUME NEW c \in Client, ReadTable(c) PROVE LockedWhileInside'
  BY <1>5 DEF ReadTable, Goes
<1>6. ASSUME NEW c \in Client, AnswerLogin(c) PROVE LockedWhileInside'
  BY <1>6 DEF AnswerLogin, Answer, Goes
<1>7. ASSUME NEW c \in Client, Dispatch(c) PROVE LockedWhileInside'
  BY <1>7 DEF Dispatch, Answer, Goes
<1>8. ASSUME NEW c \in Client, WalkPath(c) PROVE LockedWhileInside'
  BY <1>8 DEF WalkPath, Goes
<1>9. ASSUME NEW c \in Client, Lock(c) PROVE LockedWhileInside'
  BY <1>9 DEF Lock
<1>10. ASSUME NEW c \in Client, Leave(c) PROVE LockedWhileInside'
  <2>1. \E place \in {"ready", "want"} : at' = [at EXCEPT ![c] = place]
    BY <1>10 DEF Leave, Answer, Goes
  <2>2. at[c] = "inside" /\ mutex' = Nobody
    BY <1>10 DEF Leave
  <2> QED
    BY <2>1, <2>2
<1>11. ASSUME NEW c \in Client, End(c) PROVE LockedWhileInside'
  BY <1>11 DEF End, Goes
<1>12. CASE SyncStart \/ SyncEnd
  BY <1>12 DEF SyncStart, SyncEnd, handlers
<1>13. CASE UNCHANGED vars
  BY <1>13 DEF vars, handlers, shared
<1>14. ASSUME NEW c \in Client, Loop(c) \/ Fail(c) PROVE LockedWhileInside'
  BY <1>14 DEF Loop, Fail, handlers, shared
<1> QED
  BY <1>1, <1>2, <1>3, <1>4, <1>5, <1>6, <1>7, <1>8, <1>9, <1>10, <1>11, <1>12, <1>13,
     <1>14 DEF Next, HandlerStep

\* A handler is in a critical section exactly while it holds the mutex, so that
\* two are never in VFS at once, and none keeps the mutex when it leaves.
THEOREM MutexHeld == Spec => []LockedWhileInside
<1>1. Init => LockedWhileInside
  BY SessionAssumption DEF Init, LockedWhileInside
<1>2. TypeOK /\ LockedWhileInside /\ [Next]_vars => LockedWhileInside'
  BY NextLocked
<1> QED
  BY <1>1, <1>2, TypeCorrect, PTL DEF Spec
-------------------------------------------------------------------------------
(* Requests and answers *)

\* A step of one client or of its handler leaves the others' alone.
OthersStay(c) ==
  \A d \in Client \ {c} :
    /\ client'[d] = client[d] /\ asked'[d] = asked[d]
    /\ request'[d] = request[d] /\ reply'[d] = reply[d]
    /\ at'[d] = at[d] /\ doing'[d] = doing[d]

LEMMA OthersFit ==
  ASSUME StepInv, NEW c \in Client, Fits(c)', OthersStay(c)
  PROVE  StepInv'
BY DEF StepInv, Fits, OthersStay

\* While the handler is neither waiting for a request nor reading its table
\* both channels are empty.
LEMMA Quiet ==
  ASSUME NEW c \in Client, Fits(c),
         at[c] \notin {"login", "ready"}, ~(at[c] = "split" /\ doing[c] = "table")
  PROVE  request[c] = <<>> /\ reply[c] = <<>>
BY DEF Fits, RequestFits, ReplyFits

\* A login is none of the kinds, and no kind is a login.
LEMMA LoginsApart ==
  /\ \A k \in AllKinds : k \notin Logins /\ k # "none" /\ k # "table"
  /\ \A l \in Logins : l # "none" /\ l # "exit" /\ l \notin Unanswered
BY DEF AllKinds, Logins, Unanswered

LEMMA NextInStep == TypeOK /\ StepInv /\ [Next]_vars => StepInv'
<1> SUFFICES ASSUME TypeOK, StepInv, [Next]_vars PROVE StepInv'
  OBVIOUS
<1> USE SessionAssumption DEF TypeOK
<1>1. ASSUME NEW c \in Client, Connect(c) PROVE StepInv'
  <2>1. /\ client'[c] = "login" /\ asked'[c] = asked[c]
        /\ request'[c] = request[c] /\ reply'[c] = reply[c]
        /\ at'[c] = "split" /\ doing'[c] = "table"
    BY <1>1 DEF Connect, Move, shared
  <2>2. OthersStay(c)
    BY <1>1 DEF OthersStay, Connect, Move, shared
  <2>3. Fits(c)'
    <3>1. request[c] = <<>> /\ reply[c] = <<>>
      BY <1>1, Quiet DEF Connect, StepInv
    <3> QED
      BY <2>1, <3>1 DEF Fits, HandlerFits, RequestFits, ReplyFits, ClientFits
  <2> QED
    BY <2>2, <2>3, OthersFit
<1>2. ASSUME NEW c \in Client, SendLogin(c) PROVE StepInv'
  <2>1. /\ client'[c] = "await" /\ reply'[c] = reply[c]
        /\ at'[c] = at[c] /\ doing'[c] = doing[c]
    BY <1>2 DEF SendLogin, Move, handlers
  <2>2. OthersStay(c)
    BY <1>2 DEF OthersStay, SendLogin, Move, Asks, Put, handlers
  <2>3. /\ request[c] = <<>> /\ reply[c] = <<>>
        /\ at[c] = "login" \/ (at[c] = "split" /\ doing[c] = "table")
        /\ HandlerFits(at[c], doing[c])
    BY <1>2 DEF SendLogin, Move, StepInv, Fits, ClientFits
  <2>4. CASE Asks(c, "long") /\ UNCHANGED request
    <3>1. asked'[c] = "long" /\ request'[c] = <<>> /\ "long" \in Unanswered
      BY <2>3, <2>4 DEF Asks, Unanswered
    <3> QED
      <4>1. Fits(c)'
        BY <2>1, <2>3, <3>1 DEF Fits, HandlerFits, RequestFits, ReplyFits, ClientFits
      <4> QED
        BY <2>2, <4>1, OthersFit
  <2>5. ASSUME NEW try \in Login, Asks(c, Outcome(try)), request' = Put(request, c, Outcome(try))
        PROVE  StepInv'
    <3> DEFINE outcome == Outcome(try)
    <3>1. asked'[c] = outcome /\ request'[c] = Append(request[c], outcome)
      BY <2>5 DEF Asks, Put
    <3>2. outcome \in Logins /\ outcome \notin Unanswered /\ outcome \notin {"none", "exit"}
      BY OutcomeType, LoginsApart
    <3> HIDE DEF outcome
    <3>3. request'[c] = <<outcome>> /\ <<outcome>> # <<>> /\ Head(<<outcome>>) = outcome
      BY <2>3, <3>1, OneMessage
    <3>4. Fits(c)'
      BY <2>1, <2>3, <3>1, <3>2, <3>3 DEF Fits, HandlerFits, RequestFits, ReplyFits, ClientFits
    <3> QED
      BY <2>2, <3>4, OthersFit
  <2> QED
    BY <1>2, <2>4, <2>5 DEF SendLogin
<1>3. ASSUME NEW c \in Client, SendCommand(c) PROVE StepInv'
  <2>1. PICK k \in Kind :
          /\ IF k = "exit" THEN Move(c, "prompt", "off") /\ UNCHANGED asked
                           ELSE Move(c, "prompt", "await") /\ Asks(c, k)
          /\ request' = IF k = "long" THEN request ELSE Put(request, c, k)
    BY <1>3 DEF SendCommand
  <2>2. k \in AllKinds /\ k \notin Logins /\ k # "none"
    BY LoginsApart
  <2>3. OthersStay(c)
    BY <1>3, <2>1 DEF OthersStay, SendCommand, Move, Asks, Put, handlers
  <2>4. request[c] = <<>> /\ reply[c] = <<>> /\ at[c] = "ready"
    BY <1>3 DEF SendCommand, Move, StepInv, Fits, ClientFits
  <2>5. /\ client'[c] = IF k = "exit" THEN "off" ELSE "await"
        /\ k # "exit" => asked'[c] = k
    BY <2>1 DEF Move, Asks
  <2>6. /\ request'[c] = IF k = "long" THEN <<>> ELSE <<k>>
        /\ <<k>> # <<>> /\ Head(<<k>>) = k
    BY <2>1, <2>4, OneMessage DEF Put
  <2>7. reply'[c] = <<>> /\ at'[c] = "ready" /\ doing'[c] = doing[c]
    BY <1>3, <2>4 DEF SendCommand, handlers
  <2>8. HandlerFits(at[c], doing[c])
    BY DEF StepInv, Fits
  <2>9. Fits(c)'
    BY <2>2, <2>4, <2>5, <2>6, <2>7, <2>8 DEF Fits, HandlerFits, RequestFits, ReplyFits, ClientFits, Unanswered
  <2> QED
    BY <2>3, <2>9, OthersFit
<1>4. ASSUME NEW c \in Client, Receive(c) PROVE StepInv'
  <2> DEFINE next == IF asked[c] \in Logins /\ Head(reply[c]) # "login_ok" THEN "login" ELSE "prompt"
  <2>1. /\ client'[c] = next /\ asked'[c] = "none"
        /\ request'[c] = request[c] /\ reply'[c] = Tail(reply[c])
        /\ at'[c] = at[c] /\ doing'[c] = doing[c]
    BY <1>4 DEF Receive, Move, Asks, handlers
  <2>2. OthersStay(c)
    BY <1>4 DEF OthersStay, Receive, Move, Asks, handlers
  <2>3. /\ reply[c] = <<Head(reply[c])>> /\ request[c] = <<>>
        /\ at[c] = IF Head(reply[c]) = "login_bad" THEN "login" ELSE "ready"
        /\ Head(reply[c]) \in Logins <=> asked[c] \in Logins
        /\ HandlerFits(at[c], doing[c])
    BY <1>4 DEF Receive, StepInv, Fits, RequestFits, ReplyFits
  <2>4. Tail(reply[c]) = <<>>
    BY <2>3, OneMessage
  <2>5. next = IF at[c] = "login" THEN "login" ELSE "prompt"
    BY <2>3 DEF Logins
  <2> HIDE DEF next
  <2>6. Fits(c)'
    BY <2>1, <2>3, <2>4, <2>5 DEF Fits, HandlerFits, RequestFits, ReplyFits, ClientFits
  <2> QED
    BY <2>2, <2>6, OthersFit
<1>5. ASSUME NEW c \in Client, Vanish(c) PROVE StepInv'
  <2>1. /\ client'[c] = "off" /\ asked'[c] = "none"
        /\ request'[c] = request[c] /\ reply'[c] = <<>>
        /\ at'[c] = at[c] /\ doing'[c] = doing[c]
    BY <1>5 DEF Vanish, Asks, handlers
  <2>2. OthersStay(c)
    BY <1>5 DEF OthersStay, Vanish, Asks, handlers
  <2>3. Fits(c)'
    BY <2>1 DEF StepInv, Fits, HandlerFits, RequestFits, ReplyFits, ClientFits
  <2> QED
    BY <2>2, <2>3, OthersFit
<1>6. ASSUME NEW c \in Client, Take(c) PROVE StepInv'
  <2> DEFINE work == Head(request[c])
  <2>1. /\ client'[c] = client[c] /\ asked'[c] = asked[c]
        /\ request'[c] = Tail(request[c]) /\ reply'[c] = reply[c]
        /\ at'[c] = "split" /\ doing'[c] = work
    BY <1>6 DEF Take, Goes
  <2>2. OthersStay(c)
    BY <1>6 DEF OthersStay, Take, Goes
  <2>3. /\ request[c] = <<work>> /\ reply[c] = <<>>
        /\ client[c] = "await" => work = asked[c] /\ asked[c] \notin {"none", "exit"}
        /\ client[c] \notin {"prompt", "login"}
    BY <1>6 DEF Take, StepInv, Fits, RequestFits, ClientFits
  <2>4. Tail(request[c]) = <<>>
    BY <2>3, OneMessage
  <2>5. work \in AllKinds \cup Logins
    BY <1>6 DEF Take
  <2>6. work # "table"
    BY <2>5 DEF AllKinds, Logins
  <2> HIDE DEF work
  <2>7. Fits(c)'
    BY <2>1, <2>3, <2>4, <2>5, <2>6 DEF Fits, HandlerFits, RequestFits, ReplyFits, ClientFits
  <2> QED
    BY <2>2, <2>7, OthersFit
<1>7. ASSUME NEW c \in Client, SeeGone(c) PROVE StepInv'
  <2>1. /\ client'[c] = client[c] /\ asked'[c] = asked[c]
        /\ request'[c] = request[c] /\ reply'[c] = reply[c]
        /\ at'[c] = (IF at[c] = "login" THEN "none" ELSE "closing") /\ doing'[c] = "none"
    BY <1>7 DEF SeeGone, Goes, protocol
  <2>2. OthersStay(c)
    BY <1>7 DEF OthersStay, SeeGone, Goes, protocol
  <2>3. request[c] = <<>> /\ client[c] = "off" /\ reply[c] = <<>>
    BY <1>7 DEF SeeGone, StepInv, Fits, ReplyFits
  <2>4. Fits(c)'
    BY <2>1, <2>3 DEF Fits, HandlerFits, RequestFits, ReplyFits, ClientFits
  <2> QED
    BY <2>2, <2>4, OthersFit
<1>8. ASSUME NEW c \in Client, FirstWord(c) \/ NextWord(c) PROVE StepInv'
  BY <1>8 DEF FirstWord, NextWord, protocol, StepInv, Fits
<1>9. ASSUME NEW c \in Client, ReadTable(c) PROVE StepInv'
  <2>1. /\ client'[c] = client[c] /\ asked'[c] = asked[c]
        /\ request'[c] = request[c] /\ reply'[c] = reply[c]
        /\ at'[c] = "login" /\ doing'[c] = "none"
    BY <1>9 DEF ReadTable, Goes, protocol
  <2>2. OthersStay(c)
    BY <1>9 DEF OthersStay, ReadTable, Goes, protocol
  <2>3. at[c] = "split" /\ doing[c] = "table"
    BY <1>9 DEF ReadTable
  <2>4. Fits(c)'
    BY <2>1, <2>3 DEF StepInv, Fits, HandlerFits, RequestFits, ReplyFits, ClientFits
  <2> QED
    BY <2>2, <2>4, OthersFit
<1>10. ASSUME NEW c \in Client, AnswerLogin(c) PROVE StepInv'
  <2> DEFINE Place(outcome) == IF outcome = "login_ok" THEN "ready" ELSE "login"
  <2>1. PICK outcome \in Logins : Answer(c, outcome, Place(outcome))
    BY <1>10 DEF AnswerLogin
  <2>2. OthersStay(c)
    BY <1>10, <2>1 DEF OthersStay, AnswerLogin, Answer, send_msg, Put, Goes
  <2>3. /\ at[c] = "split" /\ doing[c] \in Logins /\ doing[c] # "table"
        /\ request[c] = <<>> /\ reply[c] = <<>>
    BY <1>10, Quiet, LoginsApart DEF AnswerLogin, StepInv, Logins
  <2>4. client[c] \notin {"prompt", "login"} /\ (client[c] = "await" => asked[c] = doing[c])
    BY <2>3 DEF StepInv, Fits, ClientFits
  <2>5. /\ client'[c] = client[c] /\ asked'[c] = asked[c] /\ request'[c] = request[c]
        /\ at'[c] = Place(outcome) /\ doing'[c] = "none"
        /\ reply'[c] = IF client[c] = "off" THEN reply[c] ELSE Append(reply[c], outcome)
    BY <1>10, <2>1 DEF AnswerLogin, Answer, send_msg, Put, Goes
  <2>6. /\ reply'[c] = IF client[c] = "off" THEN <<>> ELSE <<outcome>>
        /\ <<outcome>> # <<>> /\ Head(<<outcome>>) = outcome
    BY <2>3, <2>5, OneMessage
  <2>7. client[c] # "off" => client[c] = "await"
    BY <2>4
  <2>8. outcome = "login_ok" \/ outcome = "login_bad"
    BY DEF Logins
  <2>9. Fits(c)'
    BY <2>3, <2>4, <2>5, <2>6, <2>7, <2>8, LoginsApart DEF Fits, HandlerFits, RequestFits, ReplyFits, ClientFits
  <2> QED
    BY <2>2, <2>9, OthersFit
<1>11. ASSUME NEW c \in Client, Dispatch(c) PROVE StepInv'
  <2>1. /\ at[c] = "split" /\ doing[c] \in AllKinds /\ doing[c] # "table"
        /\ request[c] = <<>> /\ reply[c] = <<>>
    BY <1>11, Quiet, LoginsApart DEF Dispatch, StepInv
  <2>2. /\ client[c] \notin {"prompt", "login"}
        /\ client[c] = "await" => asked[c] = doing[c] /\ asked[c] # "exit"
    BY <2>1 DEF StepInv, Fits, ClientFits
  <2>3. client[c] = "off" \/ client[c] = "await"
    BY <2>2
  <2>4. client'[c] = client[c] /\ asked'[c] = asked[c] /\ request'[c] = <<>>
    BY <1>11, <2>1 DEF Dispatch
  <2>5. OthersStay(c)
    BY <1>11 DEF OthersStay, Dispatch, Answer, send_msg, Put, Goes
  <2>6. CASE Goes(c, "ready", "none") /\ UNCHANGED reply /\ Understood(c) = "blank"
    <3>1. at'[c] = "ready" /\ doing'[c] = "none" /\ reply'[c] = <<>>
      BY <2>1, <2>6 DEF Goes
    <3>2. doing[c] = "blank"
      BY <2>6 DEF Understood
    <3>3. Fits(c)'
      BY <2>2, <2>3, <2>4, <3>1, <3>2 DEF Fits, HandlerFits, RequestFits, ReplyFits, ClientFits, Unanswered
    <3> QED
      BY <2>5, <3>3, OthersFit
  <2>7. CASE Answer(c, "done", "ready")
    <3>1. /\ at'[c] = "ready" /\ doing'[c] = "none"
          /\ reply'[c] = IF client[c] = "off" THEN <<>> ELSE <<"done">>
      BY <2>1, <2>7, OneMessage DEF Answer, send_msg, Put, Goes
    <3>2. <<"done">> # <<>> /\ Head(<<"done">>) = "done" /\ "done" \notin Logins
      BY OneMessage DEF Logins
    <3>3. doing[c] \notin Logins /\ doing[c] # "none"
      BY <2>1, LoginsApart
    <3>4. Fits(c)'
      BY <2>2, <2>3, <2>4, <3>1, <3>2, <3>3 DEF Fits, HandlerFits, RequestFits, ReplyFits, ClientFits
    <3> QED
      BY <2>5, <3>4, OthersFit
  <2>8. CASE Goes(c, "closing", "none") /\ UNCHANGED reply /\ Understood(c) \in {"exit", "exit_words"}
    <3>1. at'[c] = "closing" /\ doing'[c] = "none" /\ reply'[c] = <<>>
      BY <2>1, <2>8 DEF Goes
    <3>2. doing[c] \in {"exit", "exit_words"}
      BY <2>8 DEF Understood
    <3>3. Fits(c)'
      BY <2>2, <2>3, <2>4, <3>1, <3>2 DEF Fits, HandlerFits, RequestFits, ReplyFits, ClientFits, Unanswered
    <3> QED
      BY <2>5, <3>3, OthersFit
  <2>9. CASE \E k \in {"vfs", "cd", "misled"} : Goes(c, "want", k) /\ UNCHANGED reply
    <3>1. PICK k \in {"vfs", "cd", "misled"} : at'[c] = "want" /\ doing'[c] = k /\ reply'[c] = <<>>
      BY <2>1, <2>9 DEF Goes
    <3>2. doing[c] # "none"
      BY <2>1, LoginsApart
    <3>3. Fits(c)'
      BY <2>1, <2>2, <2>3, <2>4, <3>1, <3>2 DEF Fits, HandlerFits, RequestFits, ReplyFits, ClientFits
    <3> QED
      BY <2>5, <3>3, OthersFit
  <2>10. CASE UNCHANGED <<reply, at, doing>>
    <3>1. Fits(c)'
      BY <1>11, <2>10 DEF Dispatch, StepInv, Fits
    <3> QED
      BY <2>5, <3>1, OthersFit
  <2> QED
    BY <1>11, <2>6, <2>7, <2>8, <2>9, <2>10 DEF Dispatch
<1>12. ASSUME NEW c \in Client, WalkPath(c) PROVE StepInv'
  <2>1. PICK work \in {doing[c], "misled_move", "misled"} : Goes(c, "inside", work)
    BY <1>12 DEF WalkPath
  <2>2. /\ client'[c] = client[c] /\ asked'[c] = asked[c]
        /\ request'[c] = request[c] /\ reply'[c] = reply[c]
        /\ at'[c] = "inside" /\ doing'[c] = work
    BY <1>12, <2>1 DEF WalkPath, Goes, protocol
  <2>3. OthersStay(c)
    BY <1>12, <2>1 DEF OthersStay, WalkPath, Goes, protocol
  <2>4. at[c] = "path"
    BY <1>12 DEF WalkPath
  <2>5. Fits(c)'
    BY <2>1, <2>2, <2>4 DEF StepInv, Fits, HandlerFits, RequestFits, ReplyFits, ClientFits
  <2> QED
    BY <2>3, <2>5, OthersFit
<1>13. ASSUME NEW c \in Client, Leave(c) PROVE StepInv'
  <2>1. at[c] = "inside" /\ request[c] = <<>> /\ reply[c] = <<>>
    BY <1>13, Quiet DEF Leave, StepInv
  <2>2. /\ client[c] \notin {"prompt", "login"}
        /\ client[c] = "await" => asked[c] \in AllKinds /\ asked[c] \notin {"none", "exit"}
    BY <2>1 DEF StepInv, Fits, ClientFits
  <2>3. client[c] = "off" \/ client[c] = "await"
    BY <2>2
  <2>4. client'[c] = client[c] /\ asked'[c] = asked[c] /\ request'[c] = <<>>
    BY <1>13, <2>1 DEF Leave
  <2>5. OthersStay(c)
    BY <1>13 DEF OthersStay, Leave, Answer, send_msg, Put, Goes
  <2>6. CASE Answer(c, "done", "ready")
    <3>1. /\ at'[c] = "ready" /\ doing'[c] = "none"
          /\ reply'[c] = IF client[c] = "off" THEN <<>> ELSE <<"done">>
      BY <2>1, <2>6, OneMessage DEF Answer, send_msg, Put, Goes
    <3>2. <<"done">> # <<>> /\ Head(<<"done">>) = "done" /\ "done" \notin Logins
      BY OneMessage DEF Logins
    <3>3. client[c] = "await" => asked[c] \notin Logins
      BY <2>2, LoginsApart
    <3>4. Fits(c)'
      BY <2>2, <2>3, <2>4, <3>1, <3>2, <3>3 DEF Fits, HandlerFits, RequestFits, ReplyFits, ClientFits
    <3> QED
      BY <2>5, <3>4, OthersFit
  <2>7. CASE Goes(c, "want", "cd_move") /\ UNCHANGED reply
    <3>1. at'[c] = "want" /\ doing'[c] = "cd_move" /\ reply'[c] = <<>>
      BY <2>1, <2>7 DEF Goes
    <3>2. Fits(c)'
      BY <2>2, <2>3, <2>4, <3>1 DEF Fits, HandlerFits, RequestFits, ReplyFits, ClientFits
    <3> QED
      BY <2>5, <3>2, OthersFit
  <2> QED
    BY <1>13, <2>6, <2>7 DEF Leave
<1>14. ASSUME NEW c \in Client, Lock(c) PROVE StepInv'
  <2>1. /\ client'[c] = client[c] /\ asked'[c] = asked[c]
        /\ request'[c] = request[c] /\ reply'[c] = reply[c]
        /\ at'[c] = (IF at[c] = "want" THEN "path" ELSE "sync") /\ doing'[c] = doing[c]
    BY <1>14 DEF Lock, protocol
  <2>2. OthersStay(c)
    BY <1>14 DEF OthersStay, Lock, protocol
  <2>3. at[c] \in {"want", "closing"}
    BY <1>14 DEF Lock
  <2>4. Fits(c)'
    BY <2>1, <2>3 DEF StepInv, Fits, HandlerFits, RequestFits, ReplyFits, ClientFits
  <2> QED
    BY <2>2, <2>4, OthersFit
<1>15. ASSUME NEW c \in Client, End(c) PROVE StepInv'
  <2>1. /\ client'[c] = client[c] /\ asked'[c] = asked[c]
        /\ request'[c] = request[c] /\ reply'[c] = reply[c]
        /\ at'[c] = "none" /\ doing'[c] = "none"
    BY <1>15 DEF End, Goes, protocol
  <2>2. OthersStay(c)
    BY <1>15 DEF OthersStay, End, Goes, protocol
  <2>3. at[c] = "sync"
    BY <1>15 DEF End
  <2>4. Fits(c)'
    BY <2>1, <2>3 DEF StepInv, Fits, HandlerFits, RequestFits, ReplyFits, ClientFits
  <2> QED
    BY <2>2, <2>4, OthersFit
<1>16. CASE SyncStart \/ SyncEnd \/ UNCHANGED vars
  BY <1>16 DEF SyncStart, SyncEnd, vars, protocol, handlers, StepInv, Fits
<1>17. ASSUME NEW c \in Client, Loop(c) PROVE StepInv'
  <2>1. /\ client'[c] = client[c] /\ asked'[c] = asked[c]
        /\ request'[c] = request[c] /\ reply'[c] = reply[c]
        /\ at'[c] = "stuck" /\ doing'[c] = doing[c]
    BY <1>17 DEF Loop, protocol
  <2>2. OthersStay(c)
    BY <1>17 DEF OthersStay, Loop, protocol
  <2>3. at[c] = "inside"
    BY <1>17 DEF Loop
  <2>4. Fits(c)'
    BY <2>1, <2>3 DEF StepInv, Fits, HandlerFits, RequestFits, ReplyFits, ClientFits
  <2> QED
    BY <2>2, <2>4, OthersFit
<1>18. ASSUME NEW c \in Client, Fail(c) PROVE StepInv'
  BY <1>18 DEF Fail, protocol, handlers, StepInv, Fits
<1> QED
  BY <1>1, <1>2, <1>3, <1>4, <1>5, <1>6, <1>7, <1>8, <1>9, <1>10, <1>11, <1>12, <1>13,
     <1>14, <1>15, <1>16, <1>17, <1>18 DEF Next, HandlerStep

\* The parts of the invariant are what InStep counts.
LEMMA FitsCounts == TypeOK /\ StepInv => InStep
<1> SUFFICES ASSUME TypeOK, StepInv, NEW c \in Client
             PROVE  /\ client[c] = "prompt" => Underway(c) = 0 /\ at[c] = "ready"
                    /\ client[c] = "login" =>
                         /\ Underway(c) = 0
                         /\ at[c] = "login" \/ (at[c] = "split" /\ doing[c] = "table")
                    /\ client[c] = "await" =>
                         /\ Underway(c) <= 1
                         /\ asked[c] \notin Unanswered => Underway(c) = 1
                         /\ reply[c] # <<>> => (Head(reply[c]) \in Logins <=> asked[c] \in Logins)
  BY DEF InStep
<1>1. Fits(c)
  BY DEF StepInv
<1>2. Len(request[c]) = IF request[c] = <<>> THEN 0 ELSE 1
  BY <1>1, OneMessage DEF Fits, RequestFits
<1>3. Len(reply[c]) = IF reply[c] = <<>> THEN 0 ELSE 1
  BY <1>1, OneMessage DEF Fits, ReplyFits
<1>4. request[c] # <<>> => reply[c] = <<>> /\ ~Serving(c)
  BY <1>1 DEF Fits, RequestFits, Serving
<1>5. reply[c] # <<>> => request[c] = <<>> /\ ~Serving(c)
  BY <1>1 DEF Fits, RequestFits, ReplyFits, Serving
<1>6. Underway(c) = IF request[c] # <<>> \/ reply[c] # <<>> \/ Serving(c) THEN 1 ELSE 0
  BY <1>2, <1>3, <1>4, <1>5 DEF Underway
<1>7. /\ client[c] = "prompt" => request[c] = <<>> /\ reply[c] = <<>> /\ at[c] = "ready"
      /\ client[c] = "login" => /\ request[c] = <<>> /\ reply[c] = <<>>
                                /\ at[c] = "login" \/ (at[c] = "split" /\ doing[c] = "table")
      /\ client[c] = "await" =>
           asked[c] \in Unanswered \/ request[c] # <<>> \/ reply[c] # <<>> \/ Serving(c)
  BY <1>1 DEF Fits, ClientFits, Serving
<1>8. reply[c] # <<>> => (Head(reply[c]) \in Logins <=> asked[c] \in Logins)
  BY <1>1 DEF Fits, ReplyFits
<1>9. client[c] \in {"prompt", "login"} => ~Serving(c)
  BY <1>7 DEF Serving
<1> QED
  BY <1>6, <1>7, <1>8, <1>9

\* A client that is asked for a command or a name has nothing underway, and one
\* that waits has exactly one thing, unless it asked what is never answered; so
\* no client ever takes the answer to one request for that to another.
THEOREM RequestsAnswersInStep == Spec => []InStep
<1>1. Init => StepInv
  BY DEF Init, StepInv, Fits, HandlerFits, RequestFits, ReplyFits, ClientFits
<1>2. TypeOK /\ StepInv /\ [Next]_vars => StepInv'
  BY NextInStep
<1>3. TypeOK /\ StepInv => InStep
  BY FitsCounts
<1> QED
  BY <1>1, <1>2, <1>3, TypeCorrect, PTL DEF Spec
-------------------------------------------------------------------------------
(* The race *)

\* The words of the others, their tables and the string of strtok, if it is
\* theirs, are as they were.
WordsStay(c) ==
  \A d \in Client \ {c} : /\ words'[d] = words[d]
                          /\ d \in garbled' => d \in garbled
                          /\ strtok' = strtok \/ strtok'.owner # d

LEMMA OthersNotMisled ==
  ASSUME ~raced => \A d \in Client : NotMisled(d),
         NEW c \in Client, OthersStay(c), WordsStay(c), raced => raced',
         ~raced' => NotMisled(c)'
  PROVE  RaceInv'
<1> SUFFICES ASSUME ~raced', NEW d \in Client, d # c PROVE NotMisled(d)'
  BY DEF RaceInv
<1>1. NotMisled(d)
  OBVIOUS
<1>2. /\ client'[d] = client[d] /\ asked'[d] = asked[d] /\ reply'[d] = reply[d]
      /\ at'[d] = at[d] /\ doing'[d] = doing[d] /\ words'[d] = words[d]
      /\ d \in garbled' => d \in garbled
      /\ strtok' = strtok \/ strtok'.owner # d
  BY DEF OthersStay, WordsStay
<1> QED
  BY <1>1, <1>2 DEF NotMisled

\* A split that meets nobody else in strtok ends with the words of its own
\* string.
LEMMA SplitEnds ==
  ASSUME TypeOK, RaceInv, NEW c \in Client, NoMoreWords(c)
  PROVE  /\ words'[c] = <<>>
         /\ raced => raced'
         /\ \A d \in Client \ {c} : words'[d] = words[d] /\ (strtok' = strtok \/ strtok'.owner # d)
         /\ ~raced' => strtok'.owner # c /\ (doing[c] # "blank" => OwnWords(c))
<1>1. words'[c] = <<>> /\ \A d \in Client \ {c} : words'[d] = words[d]
  BY DEF TypeOK, NoMoreWords
<1>2. Freed.owner = Nobody /\ Nobody \notin Client
  BY SessionAssumption DEF Freed
<1>3. strtok' = strtok \/ strtok' = Freed
  BY DEF NoMoreWords
<1>4. CASE words[c] = <<>> /\ doing[c] = "blank" /\ strtok' = Freed /\ UNCHANGED raced
  BY <1>1, <1>2, <1>3, <1>4
<1>5. CASE /\ words[c] # <<>>
           /\ strtok.left = 0 \/ Len(words[c]) = MaxWords
           /\ strtok' = IF strtok.owner = c THEN Freed ELSE strtok
           /\ raced' = (raced \/ strtok.owner # c)
  <2>1. raced => raced'
    BY <1>5
  <2>2. ASSUME ~raced' PROVE strtok'.owner # c /\ OwnWords(c)
    <3>1. ~raced /\ strtok.owner = c
      BY <1>5, <2>2
    <3>2. \/ words[c] = <<c>> /\ strtok.left = 1
          \/ words[c] = <<c, c>> /\ strtok.left = 0
      BY <3>1 DEF RaceInv, NotMisled
    <3>3. Len(<<c>>) # MaxWords
      BY SessionAssumption, OneMessage
    <3>4. words[c] = <<c, c>>
      <4>1. strtok.left # 0 => Len(words[c]) = MaxWords
        BY <1>5
      <4>2. ASSUME words[c] = <<c>>, strtok.left = 1 PROVE FALSE
        BY <3>3, <4>1, <4>2
      <4> QED
        BY <3>2, <4>2
    <3> QED
      BY <1>2, <1>5, <3>1, <3>4 DEF OwnWords
  <2> QED
    BY <1>1, <1>2, <1>3, <2>1, <2>2
<1> QED
  BY <1>4, <1>5 DEF NoMoreWords

LEMMA NextNotMisled == TypeOK /\ StepInv /\ RaceInv /\ [Next]_vars => RaceInv'
<1> SUFFICES ASSUME TypeOK, StepInv, RaceInv, [Next]_vars PROVE RaceInv'
  OBVIOUS
<1> USE SessionAssumption DEF TypeOK
<1>0. ASSUME NEW c \in Client, OthersStay(c), WordsStay(c), raced => raced', ~raced' => NotMisled(c)'
      PROVE  RaceInv'
  BY <1>0, OthersNotMisled DEF RaceInv
<1>1. ASSUME NEW c \in Client, Connect(c) PROVE RaceInv'
  <2>1. OthersStay(c)
    BY <1>1 DEF OthersStay, Connect, Move, shared
  <2>2. WordsStay(c) /\ raced' = raced
    BY <1>1 DEF WordsStay, Connect, Move, shared
  <2>3. /\ words'[c] = words[c] /\ strtok' = strtok /\ c \notin garbled'
        /\ at'[c] = "split" /\ doing'[c] = "table"
        /\ asked'[c] = asked[c] /\ reply'[c] = reply[c]
    BY <1>1 DEF Connect, Move, shared, StepInv, Fits, ClientFits
  <2>4. ~raced' => NotMisled(c)'
    BY <2>2, <2>3 DEF RaceInv, NotMisled
  <2> QED
    BY <1>0, <2>1, <2>2, <2>4
<1>2. ASSUME NEW c \in Client, SendLogin(c) PROVE RaceInv'
  <2>1. OthersStay(c) /\ WordsStay(c) /\ raced' = raced
    BY <1>2 DEF OthersStay, WordsStay, SendLogin, Move, Asks, Put, handlers, shared
  <2>2. /\ words'[c] = words[c] /\ strtok' = strtok /\ garbled' = garbled
        /\ at'[c] = at[c] /\ doing'[c] = doing[c] /\ reply'[c] = reply[c]
    BY <1>2 DEF SendLogin, handlers, shared
  <2>3. at[c] \notin {"want", "path", "inside", "stuck"} /\ reply[c] = <<>>
    BY <1>2 DEF SendLogin, Move, StepInv, Fits, ClientFits
  <2>4. reply[c] # <<"login_ok">>
    BY <2>3, OneMessage
  <2>5. ~raced' => NotMisled(c)'
    BY <2>1, <2>2, <2>3, <2>4 DEF RaceInv, NotMisled
  <2> QED
    BY <1>0, <2>1, <2>5
<1>3. ASSUME NEW c \in Client, SendCommand(c) PROVE RaceInv'
  <2>1. PICK k \in Kind :
          /\ IF k = "exit" THEN Move(c, "prompt", "off") /\ UNCHANGED asked
                           ELSE Move(c, "prompt", "await") /\ Asks(c, k)
          /\ request' = IF k = "long" THEN request ELSE Put(request, c, k)
    BY <1>3 DEF SendCommand
  <2>2. OthersStay(c)
    BY <1>3, <2>1 DEF OthersStay, SendCommand, Move, Asks, Put, handlers
  <2>3. WordsStay(c) /\ raced' = raced
    BY <1>3 DEF WordsStay, SendCommand, handlers, shared
  <2>4. /\ words'[c] = words[c] /\ strtok' = strtok /\ garbled' = garbled
        /\ at'[c] = at[c] /\ doing'[c] = doing[c] /\ reply'[c] = reply[c]
    BY <1>3 DEF SendCommand, handlers, shared
  <2>5. at[c] = "ready" /\ reply[c] = <<>>
    BY <1>3 DEF SendCommand, Move, StepInv, Fits, ClientFits
  <2>6. reply[c] # <<"login_ok">>
    BY <2>5, OneMessage
  <2>7. ~raced' => NotMisled(c)'
    BY <2>3, <2>4, <2>5, <2>6 DEF RaceInv, NotMisled
  <2> QED
    BY <1>0, <2>2, <2>3, <2>7
<1>4. ASSUME NEW c \in Client, Receive(c) PROVE RaceInv'
  <2>1. OthersStay(c)
    BY <1>4 DEF OthersStay, Receive, Move, Asks, handlers
  <2>2. WordsStay(c) /\ raced' = raced
    BY <1>4 DEF WordsStay, Receive, handlers, shared
  <2>3. /\ words'[c] = words[c] /\ strtok' = strtok /\ garbled' = garbled
        /\ doing'[c] = doing[c] /\ asked'[c] = "none" /\ client'[c] # "await"
    BY <1>4 DEF Receive, Move, Asks, handlers, shared
  <2>4. ~raced' => NotMisled(c)'
    BY <2>2, <2>3 DEF RaceInv, NotMisled
  <2> QED
    BY <1>0, <2>1, <2>2, <2>4
<1>5. ASSUME NEW c \in Client, Vanish(c) PROVE RaceInv'
  <2>1. OthersStay(c)
    BY <1>5 DEF OthersStay, Vanish, Asks, handlers
  <2>2. WordsStay(c) /\ raced' = raced
    BY <1>5 DEF WordsStay, Vanish, handlers, shared
  <2>3. /\ words'[c] = words[c] /\ strtok' = strtok /\ garbled' = garbled
        /\ doing'[c] = doing[c] /\ asked'[c] = "none" /\ client'[c] # "await"
    BY <1>5 DEF Vanish, Asks, handlers, shared
  <2>4. ~raced' => NotMisled(c)'
    BY <2>2, <2>3 DEF RaceInv, NotMisled
  <2> QED
    BY <1>0, <2>1, <2>2, <2>4
<1>6. ASSUME NEW c \in Client, Take(c) PROVE RaceInv'
  <2>1. OthersStay(c)
    BY <1>6 DEF OthersStay, Take, Goes
  <2>2. WordsStay(c) /\ raced' = raced
    BY <1>6 DEF WordsStay, Take, shared
  <2>3. /\ words'[c] = words[c] /\ strtok' = strtok /\ garbled' = garbled
        /\ at'[c] = "split" /\ doing'[c] = Head(request[c])
        /\ asked'[c] = asked[c] /\ reply'[c] = reply[c]
    BY <1>6 DEF Take, Goes, shared
  <2>4. Head(request[c]) \in AllKinds \cup Logins
    BY <1>6 DEF Take
  <2>5. Head(request[c]) \notin {"misled", "misled_move"}
    BY <2>4 DEF AllKinds, Logins
  <2>6. ~raced' => NotMisled(c)'
    BY <2>2, <2>3, <2>5 DEF RaceInv, NotMisled
  <2> QED
    BY <1>0, <2>1, <2>2, <2>6
<1>7. ASSUME NEW c \in Client, SeeGone(c) \/ Lock(c) PROVE RaceInv'
  <2>1. OthersStay(c)
    BY <1>7 DEF OthersStay, SeeGone, Lock, Goes, protocol
  <2>2. WordsStay(c) /\ raced' = raced
    BY <1>7 DEF WordsStay, SeeGone, Lock, shared
  <2>3. /\ words'[c] = words[c] /\ strtok' = strtok /\ garbled' = garbled
        /\ client'[c] = client[c] /\ asked'[c] = asked[c] /\ reply'[c] = reply[c]
    BY <1>7 DEF SeeGone, Lock, protocol, shared
  <2>4. \/ at'[c] \in {"none", "closing"} /\ doing'[c] = "none"
        \/ at[c] = "want" /\ at'[c] = "path" /\ doing'[c] = doing[c]
        \/ at'[c] = "sync" /\ doing'[c] = doing[c]
    BY <1>7 DEF SeeGone, Lock, Goes
  <2>5. ~raced' => NotMisled(c)'
    BY <2>2, <2>3, <2>4 DEF RaceInv, NotMisled
  <2> QED
    BY <1>0, <2>1, <2>2, <2>5
<1>8. ASSUME NEW c \in Client, FirstWord(c) PROVE RaceInv'
  <2>1. OthersStay(c)
    BY <1>8 DEF OthersStay, FirstWord, protocol
  <2>2. WordsStay(c) /\ raced' = raced
    BY <1>8 DEF WordsStay, FirstWord
  <2>3. /\ words'[c] = <<c>> /\ strtok'.owner = c /\ strtok'.left = 1 /\ garbled' = garbled
        /\ client' = client /\ asked' = asked /\ reply' = reply /\ at' = at /\ doing' = doing
    BY <1>8 DEF FirstWord, protocol
  <2>4. ~raced' => NotMisled(c)'
    BY <2>2, <2>3 DEF RaceInv, NotMisled
  <2> QED
    BY <1>0, <2>1, <2>2, <2>4
<1>9. ASSUME NEW c \in Client, NextWord(c) PROVE RaceInv'
  <2>1. OthersStay(c)
    BY <1>9 DEF OthersStay, NextWord, protocol
  <2>2. raced' = (raced \/ strtok.owner # c)
    BY <1>9 DEF NextWord
  <2>3. CASE raced'
    BY <2>3 DEF RaceInv
  <2>4. CASE ~raced'
    <3>1. ~raced /\ strtok.owner = c /\ Nobody # c
      BY <2>2, <2>4
    <3>2. /\ strtok.left > 0 /\ words[c] # <<>>
          /\ words' = [words EXCEPT ![c] = Append(@, strtok.owner)]
          /\ strtok' = [strtok EXCEPT !.left = @ - 1]
      BY <1>9, <3>1 DEF NextWord
    <3>3. words[c] = <<c>> /\ strtok.left = 1
      BY <3>1, <3>2 DEF RaceInv, NotMisled
    <3>4. Append(<<c>>, c) = <<c, c>>
      BY TwoMessages
    <3>5. words'[c] = <<c, c>>
      BY <3>1, <3>2, <3>3, <3>4
    <3>6. strtok'.owner = c /\ strtok'.left = 0
      BY <3>1, <3>2, <3>3
    <3>7. WordsStay(c)
      BY <1>9, <3>2, <3>6 DEF WordsStay, NextWord
    <3>8. NotMisled(c)'
      BY <1>9, <3>1, <3>5, <3>6 DEF NextWord, protocol, RaceInv, NotMisled
    <3> QED
      BY <1>0, <2>1, <2>2, <3>7, <3>8
  <2> QED
    BY <2>3, <2>4
<1>10. ASSUME NEW c \in Client, ReadTable(c) PROVE RaceInv'
  <2>1. OthersStay(c)
    BY <1>10 DEF OthersStay, ReadTable, Goes, protocol
  <2>2. /\ words'[c] = <<>> /\ (raced => raced')
        /\ \A d \in Client \ {c} : words'[d] = words[d] /\ (strtok' = strtok \/ strtok'.owner # d)
        /\ ~raced' => strtok'.owner # c /\ (doing[c] # "blank" => OwnWords(c))
    BY <1>10, SplitEnds DEF ReadTable
  <2>3. WordsStay(c)
    BY <1>10, <2>2 DEF WordsStay, ReadTable
  <2>4. /\ ~raced' => garbled' = garbled
        /\ at'[c] = "login" /\ doing'[c] = "none" /\ asked'[c] = asked[c] /\ reply'[c] = reply[c]
    BY <1>10, <2>2 DEF ReadTable, Goes, protocol
  <2>5. ~raced' => NotMisled(c)'
    BY <2>2, <2>4 DEF RaceInv, NotMisled
  <2> QED
    BY <1>0, <2>1, <2>2, <2>3, <2>5
<1>11. ASSUME NEW c \in Client, AnswerLogin(c) PROVE RaceInv'
  <2>1. OthersStay(c)
    BY <1>11 DEF OthersStay, AnswerLogin, Answer, send_msg, Put, Goes
  <2>2. /\ words'[c] = <<>> /\ (raced => raced')
        /\ \A d \in Client \ {c} : words'[d] = words[d] /\ (strtok' = strtok \/ strtok'.owner # d)
        /\ ~raced' => strtok'.owner # c /\ (doing[c] # "blank" => OwnWords(c))
    BY <1>11, SplitEnds DEF AnswerLogin
  <2>3. WordsStay(c) /\ garbled' = garbled
    BY <1>11, <2>2 DEF WordsStay, AnswerLogin
  <2>4. ASSUME ~raced' PROVE NotMisled(c)'
    <3>1. ~raced /\ doing[c] \in Logins /\ doing[c] # "blank" /\ at[c] = "split"
      BY <1>11, <2>2, <2>4 DEF AnswerLogin, Logins
    <3>2. NotMisled(c)
      BY <3>1 DEF RaceInv
    <3>3. OwnWords(c) /\ c \notin garbled
      BY <2>2, <2>4, <3>1, <3>2 DEF NotMisled
    <3>4. Answer(c, doing[c], IF doing[c] = "login_ok" THEN "ready" ELSE "login")
      BY <1>11, <3>3 DEF AnswerLogin
    <3>5. /\ at'[c] \in {"ready", "login"} /\ doing'[c] = "none"
          /\ reply'[c] = IF client[c] = "off" THEN reply[c] ELSE Append(reply[c], doing[c])
          /\ asked'[c] = asked[c]
      BY <1>11, <3>4 DEF AnswerLogin, Answer, send_msg, Put, Goes
    <3>6. reply[c] = <<>>
      BY <3>1, Quiet DEF StepInv, Logins
    <3>7. client[c] = "off" \/ (client[c] = "await" /\ asked[c] = doing[c])
      BY <3>1 DEF StepInv, Fits, ClientFits, Logins
    <3>8. Append(<<>>, doing[c]) = <<doing[c]>> /\ (<<doing[c]>> = <<"login_ok">> => doing[c] = "login_ok")
      BY OneMessage
    <3>9. asked[c] = "login_bad" => reply'[c] # <<"login_ok">>
      <4>1. <<>> # <<"login_ok">>
        BY OneMessage
      <4> QED
        BY <3>5, <3>6, <3>7, <3>8, <4>1
    <3> QED
      BY <2>2, <2>3, <2>4, <3>2, <3>5, <3>9 DEF NotMisled
  <2> QED
    BY <1>0, <2>1, <2>2, <2>3, <2>4
<1>12. ASSUME NEW c \in Client, Dispatch(c) PROVE RaceInv'
  <2>1. OthersStay(c)
    BY <1>12 DEF OthersStay, Dispatch, Answer, send_msg, Put, Goes
  <2>2. /\ words'[c] = <<>> /\ (raced => raced')
        /\ \A d \in Client \ {c} : words'[d] = words[d] /\ (strtok' = strtok \/ strtok'.owner # d)
        /\ ~raced' => strtok'.owner # c /\ (doing[c] # "blank" => OwnWords(c))
    BY <1>12, SplitEnds DEF Dispatch
  <2>3. WordsStay(c) /\ garbled' = garbled
    BY <1>12, <2>2 DEF WordsStay, Dispatch
  <2>4. ASSUME ~raced' PROVE NotMisled(c)'
    <3>1. ~raced /\ at[c] = "split" /\ doing[c] \in AllKinds
      BY <1>12, <2>2, <2>4 DEF Dispatch
    <3>2. NotMisled(c)
      BY <3>1 DEF RaceInv
    <3>3. Understood(c) = doing[c]
      BY <2>2, <2>4 DEF Understood
    <3>4. doing[c] \notin {"misled", "misled_move", "table"}
      BY <3>1 DEF AllKinds
    <3>5. reply[c] = <<>> /\ (client[c] = "await" => asked[c] = doing[c])
      BY <3>1, <3>4, Quiet DEF StepInv, Fits, ClientFits
    <3>6. client' = client /\ asked' = asked
      BY <1>12 DEF Dispatch
    <3>7. \/ /\ at'[c] \in {"ready", "closing"} /\ doing'[c] = "none"
             /\ reply'[c] = reply[c] \/ reply'[c] = Append(reply[c], "done")
          \/ at'[c] = "want" /\ doing'[c] = doing[c] /\ reply'[c] = reply[c]
          \/ at'[c] = at[c] /\ doing'[c] = doing[c] /\ reply'[c] = reply[c]
      BY <1>12, <3>3, <3>4 DEF Dispatch, Answer, send_msg, Put, Goes
    <3>8. <<>> # <<"login_ok">> /\ Append(<<>>, "done") # <<"login_ok">>
      BY OneMessage
    <3>9. reply'[c] # <<"login_ok">>
      BY <3>5, <3>7, <3>8
    <3> QED
      BY <2>2, <2>3, <2>4, <3>1, <3>2, <3>4, <3>5, <3>6, <3>7, <3>9 DEF NotMisled
  <2> QED
    BY <1>0, <2>1, <2>2, <2>3, <2>4
<1>13. ASSUME NEW c \in Client, WalkPath(c) PROVE RaceInv'
  <2>1. OthersStay(c)
    BY <1>13 DEF OthersStay, WalkPath, Goes, protocol
  <2>2. /\ words'[c] = <<>> /\ (raced => raced')
        /\ \A d \in Client \ {c} : words'[d] = words[d] /\ (strtok' = strtok \/ strtok'.owner # d)
        /\ ~raced' => strtok'.owner # c /\ (doing[c] # "blank" => OwnWords(c))
    BY <1>13, SplitEnds DEF WalkPath
  <2>3. WordsStay(c) /\ garbled' = garbled
    BY <1>13, <2>2 DEF WordsStay, WalkPath
  <2>4. ASSUME ~raced' PROVE NotMisled(c)'
    <3>1. ~raced /\ at[c] = "path"
      BY <1>13, <2>2, <2>4 DEF WalkPath
    <3>2. NotMisled(c)
      BY <3>1 DEF RaceInv
    <3>3. doing[c] # "blank"
      BY <3>1 DEF StepInv, Fits, HandlerFits
    <3>4. at'[c] = "inside" /\ doing'[c] = doing[c]
      BY <1>13, <2>2, <2>4, <3>3 DEF WalkPath, Goes
    <3>5. client' = client /\ asked' = asked /\ reply' = reply
      BY <1>13 DEF WalkPath, protocol
    <3> QED
      BY <2>2, <2>3, <2>4, <3>1, <3>2, <3>4, <3>5 DEF NotMisled
  <2> QED
    BY <1>0, <2>1, <2>2, <2>3, <2>4
<1>14. ASSUME NEW c \in Client, Leave(c) PROVE RaceInv'
  <2>1. OthersStay(c)
    BY <1>14 DEF OthersStay, Leave, Answer, send_msg, Put, Goes
  <2>2. WordsStay(c) /\ raced' = raced
    BY <1>14 DEF WordsStay, Leave
  <2>3. /\ words'[c] = words[c] /\ strtok' = strtok /\ garbled' = garbled
        /\ client'[c] = client[c] /\ asked'[c] = asked[c]
    BY <1>14 DEF Leave
  <2>4. at[c] = "inside" /\ reply[c] = <<>>
    BY <1>14, Quiet DEF Leave, StepInv
  <2>5. /\ \/ at'[c] = "ready" /\ doing'[c] = "none"
           \/ at'[c] = "want" /\ doing'[c] = "cd_move"
        /\ reply'[c] = reply[c] \/ reply'[c] = Append(reply[c], "done")
    BY <1>14 DEF Leave, Answer, send_msg, Put, Goes
  <2>6. <<>> # <<"login_ok">> /\ Append(<<>>, "done") # <<"login_ok">>
    BY OneMessage
  <2>7. reply'[c] # <<"login_ok">>
    BY <2>4, <2>5, <2>6
  <2>8. ~raced' => NotMisled(c)'
    BY <2>2, <2>3, <2>5, <2>7 DEF RaceInv, NotMisled
  <2> QED
    BY <1>0, <2>1, <2>2, <2>8
<1>15. ASSUME NEW c \in Client, End(c) PROVE RaceInv'
  <2>1. OthersStay(c)
    BY <1>15 DEF OthersStay, End, Goes, protocol
  <2>2. WordsStay(c) /\ raced' = raced
    BY <1>15 DEF WordsStay, End
  <2>3. /\ words'[c] = words[c] /\ strtok' = strtok /\ garbled' = garbled
        /\ at'[c] = "none" /\ doing'[c] = "none" /\ asked'[c] = asked[c] /\ reply'[c] = reply[c]
    BY <1>15 DEF End, Goes, protocol
  <2>4. ~raced' => NotMisled(c)'
    BY <2>2, <2>3 DEF RaceInv, NotMisled
  <2> QED
    BY <1>0, <2>1, <2>2, <2>4
<1>16. CASE SyncStart \/ SyncEnd \/ UNCHANGED vars
  BY <1>16 DEF SyncStart, SyncEnd, vars, protocol, handlers, shared, RaceInv, NotMisled
<1>17. ASSUME NEW c \in Client, Loop(c) \/ Fail(c) PROVE RaceInv'
  <2>1. OthersStay(c)
    BY <1>17 DEF OthersStay, Loop, Fail, protocol, handlers
  <2>2. WordsStay(c) /\ raced' = raced
    BY <1>17 DEF WordsStay, Loop, Fail, handlers, shared
  <2>3. /\ words'[c] = words[c] /\ strtok' = strtok /\ garbled' = garbled
        /\ client'[c] = client[c] /\ asked'[c] = asked[c] /\ reply'[c] = reply[c]
        /\ doing'[c] = doing[c]
    BY <1>17 DEF Loop, Fail, protocol, handlers, shared
  <2>4. at[c] = "inside" /\ at'[c] \in {"inside", "stuck"}
    BY <1>17 DEF Loop, Fail, handlers
  <2>5. ~raced' => NotMisled(c)'
    BY <2>2, <2>3, <2>4 DEF RaceInv, NotMisled
  <2> QED
    BY <1>0, <2>1, <2>2, <2>5
<1> QED
  BY <1>1, <1>2, <1>3, <1>4, <1>5, <1>6, <1>7, <1>8, <1>9, <1>10, <1>11, <1>12, <1>13,
     <1>14, <1>15, <1>16, <1>17 DEF Next, HandlerStep

\* As long as no two threads are in strtok at once, what a handler works on is
\* what its own client asked, and a wrong password is never taken for a right
\* one: the race is the only way to anything else.
THEOREM RaceAloneMisleads == Spec => []OnlyARaceMisleads
<1>1. Init => StepInv /\ RaceInv
  <2>1. <<>> # <<"login_ok">>
    BY OneMessage
  <2> QED
    BY <2>1, SessionAssumption
       DEF Init, StepInv, Fits, HandlerFits, RequestFits, ReplyFits, ClientFits, RaceInv, NotMisled
<1>2. TypeOK /\ StepInv /\ RaceInv /\ [Next]_vars => StepInv' /\ RaceInv'
  BY NextInStep, NextNotMisled
<1>3. TypeOK /\ RaceInv => OnlyARaceMisleads
  <2> SUFFICES ASSUME ~raced, \A c \in Client : NotMisled(c), garbled \subseteq Client
               PROVE  /\ garbled = {}
                      /\ \A c \in Client :
                           /\ ToSet(words[c]) \subseteq {c}
                           /\ doing[c] \notin {"misled", "misled_move"}
                           /\ client[c] = "await" /\ at[c] \in {"want", "path", "inside", "stuck"} =>
                                doing[c] \in {asked[c], "cd_move"}
                           /\ asked[c] = "login_bad" => reply[c] # <<"login_ok">>
    BY DEF TypeOK, RaceInv, OnlyARaceMisleads
  <2>1. ASSUME NEW c \in Client PROVE ToSet(words[c]) \subseteq {c}
    <3>1. words[c] \in {<<>>, <<c>>, <<c, c>>}
      BY DEF NotMisled
    <3> QED
      BY <3>1 DEF ToSet
  <2> QED
    BY <2>1 DEF NotMisled
<1> QED
  BY <1>1, <1>2, <1>3, TypeCorrect, PTL DEF Spec
===============================================================================
